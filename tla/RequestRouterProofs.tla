------------------------ MODULE RequestRouterProofs ------------------------
(***************************************************************************)
(* Proofs about two parts the runtime is put together from.  For any       *)
(* number of calls racing on one request and observers added at any        *)
(* moment, the first call to end it is the only one and every observer     *)
(* hears of that end, once.  For any workers and whatever they report, the *)
(* routing policies choose the best worker and pass none over for good.    *)
(***************************************************************************)
EXTENDS InferenceRequest, Router, WellFoundedInduction, TLAPS

-----------------------------------------------------------------------------
(* The request: the first call to end it is the only one, and every        *)
(* observer hears of that end, once                                        *)

WinnerInv == state \in RequestState /\ OneWinner

\* Every operation leads to a state of the lifecycle.
LEMMA TargetType == \A o : Target(o) \in RequestState
  BY DEF Target, RequestState

\* A terminal state has no successor.
LEMMA TerminalIsFinal ==
  ASSUME NEW s \in RequestState, NEW t, is_valid_transition(s, t)
  PROVE  ~is_terminal_state(s)
  BY DEF RequestState, TerminalState, is_terminal_state, is_valid_transition, Successors

\* The invariant is inductive: only a call that wins writes state_, result_ or
\* the set of winners, and it finds a live request.
LEMMA WinnerKept == WinnerInv /\ [Next]_vars => WinnerInv'
<1> SUFFICES ASSUME WinnerInv, [Next]_vars PROVE WinnerInv'
  OBVIOUS
<1>1. ASSUME NEW c \in Callers, Win(c) PROVE WinnerInv'
  <2> DEFINE target == Target(op[c])
  <2>1. won = {} /\ result = NoResult
    BY <1>1, TerminalIsFinal DEF Win, WinnerInv, OneWinner
  <2>2. state' = target /\ op' = op /\ target \in RequestState
    BY <1>1, TargetType DEF Win
  <2>3. CASE is_terminal_state(target)
    <3>1. result' = c /\ won' = {c}
      BY <1>1, <2>1, <2>3 DEF Win, Payload
    <3> QED
      BY <2>2, <2>3, <3>1 DEF WinnerInv, OneWinner
  <2>4. CASE ~is_terminal_state(target)
    <3>1. result' = NoResult /\ won' = {}
      BY <1>1, <2>1, <2>4 DEF Win, Payload
    <3> QED
      BY <2>2, <2>4, <3>1 DEF WinnerInv, OneWinner
  <2> QED
    BY <2>3, <2>4
<1>2. ASSUME UNCHANGED <<state, result, op, won>> PROVE WinnerInv'
  BY <1>2, Zenon DEF WinnerInv, OneWinner
<1>3. ASSUME NEW c \in Callers, CheckExpired(c) \/ Lose(c) \/ Invoke(c) \/ Return(c)
      PROVE  UNCHANGED <<state, result, op, won>>
  BY <1>3 DEF CheckExpired, Lose, Invoke, Return, callVars
<1>4. ASSUME NEW o \in Observers, AddObserver(o) \/ InvokeNow(o)
      PROVE  UNCHANGED <<state, result, op, won>>
  BY <1>4 DEF AddObserver, InvokeNow, callVars
<1>5. ASSUME NEW w \in Waiters, Wait(w) \/ WaitTimeout(w)
      PROVE  UNCHANGED <<state, result, op, won>>
  BY <1>5 DEF Wait, WaitTimeout, callVars
<1>6. CASE Expire \/ UNCHANGED vars
  BY <1>2, <1>6 DEF Expire, vars, callVars
<1> QED
  BY <1>1, <1>2, <1>3, <1>4, <1>5, <1>6 DEF Next, Call

\* First-terminal-wins: however many calls race to end a request, exactly one
\* reports success, and state_ and result_ stay that call's.
THEOREM OneWinnerHolds == Spec => []OneWinner
<1>1. Init => WinnerInv
  BY DEF Init, WinnerInv, OneWinner, RequestState, TerminalState, is_terminal_state
<1>2. WinnerInv => OneWinner
  BY DEF WinnerInv
<1> QED
  BY <1>1, <1>2, WinnerKept, PTL DEF Spec

-----------------------------------------------------------------------------
(* Observers *)

Early == {"idle", "decide"}

Distinct(s) == \A i, j \in DOMAIN s : s[i] = s[j] => i = j

\* The winner holds the snapshot of the end, the other calls one of a live
\* request, and a call that has not decided holds nothing.
CallInv ==
  \A c \in Callers :
    /\ pc[c] \in Early => callbacks[c] = <<>> /\ c \notin won
    /\ IF c \in won THEN snap[c] = Snapshot(state, result)
       ELSE ~is_terminal_state(snap[c].state)

\* Only registered observers are held, each once in a list, and a terminal
\* request holds none.
ListInv ==
  /\ is_terminal_state(state) => observers = <<>>
  /\ Distinct(observers) /\ \A i \in DOMAIN observers : attached[observers[i]] = "registered"
  /\ \A c \in Callers :
       /\ Distinct(callbacks[c])
       /\ \A i \in DOMAIN callbacks[c] : attached[callbacks[c][i]] = "registered"

\* Who has heard of the end: never an observer the winner still has to tell.
HeardInv ==
  \A o \in Observers :
    /\ attached[o] = "invoke_now" => is_terminal_state(state) /\ snap[o] = Snapshot(state, result)
    /\ Ends(o) # {} => is_terminal_state(state) /\ attached[o] \in {"registered", "invoked"}
    /\ \A c \in won : o \in Elements(callbacks[c]) => Ends(o) = {}

IInv ==
  /\ TypeOK /\ OneWinner
  /\ CallInv /\ ListInv /\ HeardInv
  /\ EndHeardOnce /\ NoObserverForgotten

\* What a call of observer p adds to the ends it has heard of.
LEMMA EndsGrow ==
  ASSUME TypeOK, NEW p \in Observers, NEW s \in RequestSnapshot,
         seen' = [seen EXCEPT ![p] = Append(@, s)]
  PROVE  /\ \A o \in Observers \ {p} : seen'[o] = seen[o] /\ Ends(o)' = Ends(o)
         /\ \A i \in DOMAIN seen[p] : i \in DOMAIN seen'[p] /\ seen'[p][i] = seen[p][i]
         /\ seen'[p][Len(seen[p]) + 1] = s
         /\ Ends(p)' = Ends(p) \cup (IF is_terminal_state(s.state) THEN {Len(seen[p]) + 1} ELSE {})
<1>1. seen[p] \in Seq(RequestSnapshot) /\ seen'[p] = Append(seen[p], s)
  BY DEF TypeOK
<1>2. /\ DOMAIN seen'[p] = DOMAIN seen[p] \cup {Len(seen[p]) + 1}
      /\ Len(seen[p]) + 1 \notin DOMAIN seen[p]
      /\ \A i \in DOMAIN seen[p] : seen'[p][i] = seen[p][i]
      /\ seen'[p][Len(seen[p]) + 1] = s
  BY <1>1
<1>3. \A o \in Observers \ {p} : seen'[o] = seen[o] /\ Ends(o)' = Ends(o)
  BY DEF TypeOK, Ends
<1> QED
  BY <1>2, <1>3 DEF Ends

\* The head of a list of distinct observers is not in its tail.
LEMMA TailLosesHead ==
  ASSUME NEW l \in Seq(Observers), l # <<>>, Distinct(l)
  PROVE  /\ Head(l) \in Observers /\ Tail(l) \in Seq(Observers)
         /\ Distinct(Tail(l)) /\ Elements(Tail(l)) = Elements(l) \ {Head(l)}
         /\ Head(l) \in Elements(l)
         /\ \A i \in DOMAIN Tail(l) : Tail(l)[i] \in Elements(l)
<1>1. /\ Head(l) = l[1] /\ 1 \in DOMAIN l /\ DOMAIN l = 1..Len(l) /\ Head(l) \in Observers
      /\ Tail(l) \in Seq(Observers) /\ DOMAIN Tail(l) = 1..Len(l) - 1 /\ Len(l) \in Nat
      /\ \A i \in 1..Len(l) - 1 : Tail(l)[i] = l[i + 1]
  OBVIOUS
<1>2. Distinct(Tail(l))
  BY <1>1 DEF Distinct
<1>3. \A i \in 1..Len(l) - 1 : i + 1 \in DOMAIN l /\ l[i + 1] # Head(l)
  BY <1>1 DEF Distinct
<1>4. \A i \in DOMAIN l : i # 1 => i - 1 \in 1..Len(l) - 1 /\ Tail(l)[i - 1] = l[i]
  BY <1>1
<1>5. Elements(Tail(l)) \subseteq Elements(l) \ {Head(l)}
  BY <1>1, <1>3 DEF Elements
<1>6. Elements(l) \ {Head(l)} \subseteq Elements(Tail(l))
  <2> SUFFICES ASSUME NEW x \in Elements(l), x # Head(l) PROVE x \in Elements(Tail(l))
    OBVIOUS
  <2>1. PICK i \in DOMAIN l : x = l[i]
    BY DEF Elements
  <2>2. i # 1
    BY <1>1, <2>1
  <2>3. i - 1 \in DOMAIN Tail(l) /\ Tail(l)[i - 1] = x
    BY <1>1, <1>4, <2>1, <2>2
  <2> QED
    BY <2>3 DEF Elements
<1>7. \A i \in DOMAIN Tail(l) : Tail(l)[i] \in Elements(l)
  BY <1>1, <1>3 DEF Elements
<1>8. Head(l) \in Elements(l)
  BY <1>1 DEF Elements
<1> QED
  BY <1>1, <1>2, <1>5, <1>6, <1>7, <1>8, SMTT(60)

\* The initial state satisfies the invariant.
LEMMA InitInv == Init => IInv
<1> SUFFICES ASSUME Init PROVE IInv
  OBVIOUS
<1>1. ~is_terminal_state("Received") /\ NoSnapshot \in RequestSnapshot /\ NoSnapshot.state = "Received"
  BY DEF is_terminal_state, TerminalState, NoSnapshot, RequestSnapshot, Snapshot, RequestState
<1>2. TypeOK
  <2>1. <<>> \in Seq(Observers) /\ <<>> \in Seq(RequestSnapshot) /\ "Received" \in RequestState
    BY DEF RequestState
  <2> QED
    BY <1>1, <2>1, Zenon DEF Init, TypeOK
<1>3. \A o \in Observers : Ends(o) = {}
  BY DEF Init, Ends
<1>4. OneWinner /\ CallInv /\ ListInv
  BY <1>1 DEF Init, OneWinner, CallInv, ListInv, Distinct
<1> QED
  BY <1>1, <1>2, <1>3, <1>4 DEF Init, IInv, HeardInv, EndHeardOnce, NoObserverForgotten

\* Steps that only move a call that holds no list, or a wait.
LEMMA OthersKeep ==
  ASSUME IInv, TypeOK',
         UNCHANGED <<state, result, observers, op, snap, callbacks, won, attached, seen>>,
         \A c \in Callers : pc'[c] \in Early => pc[c] \in Early
  PROVE  IInv'
<1>1. \A o \in Observers : Ends(o)' = Ends(o)
  BY ZenonT(60) DEF Ends
<1>2. OneWinner' /\ CallInv' /\ ListInv'
  BY DEF IInv, OneWinner, CallInv, ListInv
<1> QED
  BY <1>1, <1>2 DEF IInv, HeardInv, EndHeardOnce, NoObserverForgotten

\* The call that changes the state.
LEMMA WinKeeps ==
  ASSUME IInv, OneWinner', TypeOK', NEW c \in Callers, Win(c)
  PROVE  IInv'
<1> USE DEF IInv
<1> DEFINE final == is_terminal_state(Target(op[c]))
<1>1. ~is_terminal_state(state) /\ won = {}
  BY TerminalIsFinal, SMTT(60) DEF Win, TypeOK, OneWinner
<1>2. /\ state' = Target(op[c]) /\ snap' = [snap EXCEPT ![c] = Snapshot(state', result')]
      /\ callbacks' = [callbacks EXCEPT ![c] = observers]
      /\ observers' = (IF final THEN <<>> ELSE observers)
      /\ won' = (IF final THEN {c} ELSE {})
      /\ pc' = [pc EXCEPT ![c] = "notify"]
      /\ UNCHANGED <<attached, seen>>
  BY <1>1, Zenon DEF Win
<1>3. CallInv'
  <2>1. ASSUME NEW d \in Callers \ {c} PROVE /\ pc'[d] = pc[d] /\ callbacks'[d] = callbacks[d]
                                             /\ snap'[d] = snap[d] /\ d \notin won'
    BY <1>2 DEF TypeOK
  <2>2. pc'[c] \notin Early /\ snap'[c] = Snapshot(state', result') /\ (c \in won' <=> final)
    BY <1>2, Zenon DEF TypeOK, Early
  <2> QED
    BY <1>1, <1>2, <2>1, <2>2, SMTT(60) DEF CallInv, Snapshot
<1>4. ListInv'
  BY <1>1, <1>2 DEF ListInv, Distinct, TypeOK
<1>5. \A o \in Observers : Ends(o)' = Ends(o) /\ Ends(o) = {} /\ attached[o] # "invoke_now"
  BY <1>1, <1>2, Zenon DEF HeardInv, Ends
<1>6. HeardInv'
  BY <1>2, <1>5, ZenonT(60) DEF HeardInv
<1>7. NoObserverForgotten'
  <2>1. ASSUME NEW o \in Observers, attached[o] = "registered" PROVE o \in Elements(observers)
    BY <1>1, <1>5, <2>1, ZenonT(60) DEF NoObserverForgotten
  <2>2. final => callbacks'[c] = observers /\ c \in won'
    BY <1>2 DEF TypeOK
  <2> QED
    BY <1>2, <2>1, <2>2 DEF NoObserverForgotten
<1> QED
  BY <1>3, <1>4, <1>5, <1>6, <1>7, SMTT(60) DEF EndHeardOnce

\* A call tells the next observer on its list.
LEMMA InvokeKeeps ==
  ASSUME IInv, OneWinner', TypeOK', NEW c \in Callers, Invoke(c)
  PROVE  IInv'
<1> USE DEF IInv
<1> DEFINE l == callbacks[c]
<1>1. PICK p \in Observers :
        /\ p = Head(l) /\ Distinct(Tail(l)) /\ Elements(Tail(l)) = Elements(l) \ {p} /\ p \in Elements(l)
        /\ \A i \in DOMAIN Tail(l) : Tail(l)[i] \in Elements(l)
        /\ attached[p] = "registered" /\ \A o \in Elements(l) : attached[o] = "registered"
  <2>1. l \in Seq(Observers) /\ l # <<>> /\ Distinct(l)
    BY DEF Invoke, TypeOK, ListInv
  <2>2. \A o \in Elements(l) : attached[o] = "registered"
    BY Zenon DEF ListInv, Elements
  <2> HIDE DEF l
  <2> QED
    BY <2>1, <2>2, TailLosesHead, ZenonT(60)
<1>2. /\ seen' = [seen EXCEPT ![p] = Append(@, snap[c])]
      /\ callbacks' = [callbacks EXCEPT ![c] = Tail(l)]
      /\ UNCHANGED <<state, result, observers, op, pc, snap, won, attached>>
      /\ pc[c] = "notify" /\ snap[c] \in RequestSnapshot
  BY <1>1, Zenon DEF Invoke, Delivered, TypeOK
<1>3. callbacks'[c] = Tail(l) /\ \A d \in Callers \ {c} : callbacks'[d] = callbacks[d]
  BY <1>2, ZenonT(60) DEF TypeOK
<1>4. CallInv'
  BY <1>2, <1>3, Zenon DEF CallInv, Early
<1>5. ListInv'
  <2>1. \A i \in DOMAIN Tail(l) : attached'[Tail(l)[i]] = "registered"
    BY <1>1, <1>2
  <2> HIDE DEF l
  <2> QED
    BY <1>1, <1>2, <1>3, <2>1, SMTT(60) DEF ListInv
<1> DEFINE len == Len(seen[p]) + 1
<1>6. /\ \A o \in Observers \ {p} : seen'[o] = seen[o] /\ Ends(o)' = Ends(o)
      /\ \A i \in DOMAIN seen[p] : seen'[p][i] = seen[p][i]
      /\ seen'[p][len] = snap[c]
      /\ Ends(p)' = Ends(p) \cup (IF is_terminal_state(snap[c].state) THEN {len} ELSE {})
  BY <1>2, EndsGrow, Zenon
<1> HIDE DEF l, len
<1>7. CASE c \in won
  <2>1. snap[c] = Snapshot(state, result) /\ is_terminal_state(state) /\ won = {c}
    BY <1>7 DEF CallInv, OneWinner
  <2>2. is_terminal_state(snap[c].state)
    BY <2>1 DEF Snapshot
  <2>3. Ends(p) = {} /\ Ends(p)' = {len}
    BY <1>1, <1>6, <1>7, <2>2, ZenonT(60) DEF HeardInv, l
  <2>4. HeardInv'
    BY <1>1, <1>2, <1>3, <1>6, <2>1, <2>3, SMTT(60) DEF HeardInv, l
  <2>5. EndHeardOnce'
    BY <1>2, <1>6, <2>1, <2>3, SMTT(60) DEF EndHeardOnce, Ends
  <2>6. NoObserverForgotten'
    <3>1. ASSUME NEW o \in Observers, o # p, attached[o] = "registered"
          PROVE  o \in Elements(callbacks'[c]) \/ Ends(o)' # {}
      BY <1>1, <1>3, <1>6, <2>1, <3>1, Zenon DEF NoObserverForgotten, l
    <3> QED
      BY <1>2, <2>1, <2>3, <3>1, Zenon DEF NoObserverForgotten
  <2> QED
    BY <1>4, <1>5, <2>4, <2>5, <2>6, SMTT(60)
<1>8. CASE c \notin won
  <2>1. \A o \in Observers : Ends(o)' = Ends(o)
    BY <1>6, <1>8, ZenonT(60) DEF CallInv
  <2>2. \A o \in Observers : \A i \in Ends(o) : seen'[o][i] = seen[o][i]
    BY <1>6, Zenon DEF Ends
  <2>3. \A d \in won : callbacks'[d] = callbacks[d]
    BY <1>3, <1>8, ZenonT(60) DEF TypeOK
  <2>4. HeardInv'
    BY <1>2, <2>1, <2>3, Zenon DEF HeardInv
  <2>5. EndHeardOnce'
    BY <1>2, <2>1, <2>2, SMTT(60) DEF EndHeardOnce, Snapshot, Ends
  <2>6. NoObserverForgotten'
    BY <1>2, <2>1, <2>3, Zenon DEF NoObserverForgotten
  <2> QED
    BY <1>4, <1>5, <2>4, <2>5, <2>6
<1> QED
  BY <1>7, <1>8, Zenon

\* add_observer() keeps the observer of a live request, and otherwise the end.
LEMMA AddObserverKeeps ==
  ASSUME IInv, OneWinner', TypeOK', NEW p \in Observers, AddObserver(p)
  PROVE  IInv'
<1> USE DEF IInv
<1>1. /\ attached[p] = "absent"
      /\ UNCHANGED <<state, result, op, pc, callbacks, won, seen>>
      /\ \A o \in Observers \ {p} : attached'[o] = attached[o]
  BY DEF AddObserver, TypeOK
<1>2. \A o \in Observers : Ends(o)' = Ends(o)
  BY <1>1, ZenonT(60) DEF Ends
<1>3. EndHeardOnce'
  BY <1>1, <1>2, SMTT(60) DEF EndHeardOnce
<1>4. /\ \A i \in DOMAIN observers : observers[i] \in Observers \ {p}
      /\ \A c \in Callers : \A i \in DOMAIN callbacks[c] : callbacks[c][i] \in Observers \ {p}
      /\ Ends(p) = {}
  BY <1>1 DEF ListInv, HeardInv, TypeOK
<1>5. \A c \in Callers : snap'[c] = snap[c]
  BY CallersAssumption DEF AddObserver, TypeOK
<1>6. CallInv'
  BY <1>1, <1>5 DEF CallInv
<1>7. CASE Registers
  <2>1. /\ observers' = Append(observers, p) /\ attached'[p] = "registered" /\ snap' = snap
        /\ ~is_terminal_state(state)
    BY <1>7, ZenonT(60) DEF AddObserver, Registers, TypeOK
  <2>2. /\ DOMAIN observers' = DOMAIN observers \cup {Len(observers) + 1}
        /\ \A i \in DOMAIN observers : observers'[i] = observers[i]
        /\ observers'[Len(observers) + 1] = p
    <3>1. observers \in Seq(Observers)
      BY Zenon DEF TypeOK
    <3> QED
      BY <2>1, <3>1
  <2>3. ListInv'
    BY <1>1, <1>4, <2>1, <2>2 DEF ListInv, Distinct
  <2>4. HeardInv'
    BY <1>1, <1>2, <1>4, <2>1, Zenon DEF HeardInv
  <2>5. NoObserverForgotten'
    <3>1. Elements(observers') = Elements(observers) \cup {p}
      BY <2>2, SMTT(60) DEF Elements
    <3> QED
      BY <1>1, <1>2, <2>1, <3>1, Zenon DEF NoObserverForgotten
  <2> QED
    BY <1>3, <1>6, <2>3, <2>4, <2>5, Zenon
<1>8. CASE ~Registers
  <2>1. /\ snap' = [snap EXCEPT ![p] = Snapshot(state, result)] /\ attached'[p] = "invoke_now"
        /\ observers' = observers /\ is_terminal_state(state)
    BY <1>8, Zenon DEF AddObserver, Registers, TypeOK
  <2>2. snap'[p] = Snapshot(state, result) /\ \A o \in Observers \ {p} : snap'[o] = snap[o]
    BY <2>1, Zenon DEF TypeOK
  <2>3. ListInv'
    BY <1>1, <1>4, <2>1, Zenon DEF ListInv
  <2>4. HeardInv'
    BY <1>1, <1>2, <1>4, <2>1, <2>2, ZenonT(60) DEF HeardInv
  <2>5. NoObserverForgotten'
    BY <1>1, <1>2, <2>1 DEF NoObserverForgotten
  <2> QED
    BY <1>3, <1>6, <2>3, <2>4, <2>5
<1> QED
  BY <1>7, <1>8, Zenon

\* A late observer is called by add_observer() itself.
LEMMA InvokeNowKeeps ==
  ASSUME IInv, OneWinner', TypeOK', NEW p \in Observers, InvokeNow(p)
  PROVE  IInv'
<1> USE DEF IInv
<1> DEFINE len == Len(seen[p]) + 1
<1>1. /\ attached[p] = "invoke_now" /\ seen' = [seen EXCEPT ![p] = Append(@, snap[p])]
      /\ attached'[p] = "invoked" /\ \A o \in Observers \ {p} : attached'[o] = attached[o]
      /\ UNCHANGED <<state, result, observers, op, pc, snap, callbacks, won>>
  BY DEF InvokeNow, callVars, TypeOK
<1>2. snap[p] = Snapshot(state, result) /\ snap[p] \in RequestSnapshot /\ is_terminal_state(snap[p].state)
      /\ Ends(p) = {}
  <2>1. snap[p] = Snapshot(state, result) /\ is_terminal_state(state) /\ Ends(p) = {}
    BY <1>1, Zenon DEF HeardInv
  <2>2. Snapshot(state, result).state = state
    BY DEF Snapshot
  <2> QED
    BY <2>1, <2>2 DEF TypeOK
<1>3. /\ \A o \in Observers \ {p} : seen'[o] = seen[o] /\ Ends(o)' = Ends(o)
      /\ seen'[p][len] = snap[p] /\ Ends(p)' = {len}
  BY <1>1, <1>2, EndsGrow, ZenonT(60)
<1> HIDE DEF len
<1>4. /\ \A i \in DOMAIN observers : observers[i] \in Observers \ {p}
      /\ \A c \in Callers : \A i \in DOMAIN callbacks[c] : callbacks[c][i] \in Observers \ {p}
  BY <1>1 DEF ListInv, TypeOK
<1>5. CallInv' /\ ListInv'
  BY <1>1, <1>4, ZenonT(60) DEF CallInv, ListInv
<1>6. \A c \in won : p \notin Elements(callbacks[c])
  BY <1>4, Zenon DEF Elements, TypeOK
<1>7. HeardInv'
  BY <1>1, <1>2, <1>3, <1>6, ZenonT(60) DEF HeardInv, Snapshot
<1>8. EndHeardOnce'
  BY <1>1, <1>2, <1>3, SMTT(60) DEF EndHeardOnce, Snapshot, Ends
<1>9. NoObserverForgotten'
  BY <1>1, <1>3, Zenon DEF NoObserverForgotten
<1> QED
  BY <1>5, <1>7, <1>8, <1>9, ZenonT(60)

\* Every step keeps the types.
LEMMA TypeKept == IInv /\ [Next]_vars => TypeOK'
<1> SUFFICES ASSUME IInv, [Next]_vars PROVE TypeOK'
  OBVIOUS
<1>0. TypeOK
  BY DEF IInv
<1>1. ASSUME NEW c \in Callers, CheckExpired(c) \/ Lose(c) \/ Return(c) PROVE TypeOK'
  BY <1>0, <1>1, ZenonT(60) DEF TypeOK, CheckExpired, Lose, Return
<1>2. ASSUME NEW c \in Callers, Win(c) PROVE TypeOK'
  <2>1. Target(op[c]) \in RequestState /\ Payload(c, is_terminal_state(Target(op[c]))) \in Callers \cup {NoResult}
    BY <1>0, TargetType, Zenon DEF TypeOK, Payload
  <2>2. Snapshot(state', result') \in RequestSnapshot
    BY <1>2, <2>1, Zenon DEF Win, Snapshot, RequestSnapshot
  <2>3. waiting' \in [Waiters -> {"idle", "blocked", "notified", "returned", "timed_out"}]
    BY <1>0, <1>2, Zenon DEF Win, notify_if_terminal, TypeOK
  <2> QED
    BY <1>0, <1>2, <2>1, <2>2, <2>3 DEF Win, TypeOK
<1>3. ASSUME NEW c \in Callers, Invoke(c) PROVE TypeOK'
  <2>1. Head(callbacks[c]) \in Observers /\ Tail(callbacks[c]) \in Seq(Observers)
    BY <1>0, <1>3 DEF Invoke, TypeOK
  <2>2. Append(seen[Head(callbacks[c])], snap[c]) \in Seq(RequestSnapshot)
    BY <1>0, <2>1 DEF TypeOK
  <2> QED
    BY <1>0, <1>3, <2>1, <2>2, ZenonT(60) DEF Invoke, Delivered, TypeOK
<1>4. ASSUME NEW o \in Observers, AddObserver(o) PROVE TypeOK'
  <2>1. Snapshot(state, result) \in RequestSnapshot /\ Append(observers, o) \in Seq(Observers)
    BY <1>0 DEF TypeOK, Snapshot, RequestSnapshot
  <2> QED
    BY <1>0, <1>4, <2>1, ZenonT(60) DEF AddObserver, TypeOK
<1>5. ASSUME NEW o \in Observers, InvokeNow(o) PROVE TypeOK'
  <2>1. Append(seen[o], snap[o]) \in Seq(RequestSnapshot)
    BY <1>0 DEF TypeOK
  <2> QED
    BY <1>0, <1>5, <2>1, Zenon DEF InvokeNow, callVars, TypeOK
<1>6. ASSUME NEW w \in Waiters, Wait(w) \/ WaitTimeout(w) PROVE TypeOK'
  BY <1>0, <1>6, Zenon DEF Wait, WaitTimeout, callVars, TypeOK
<1>7. CASE Expire \/ UNCHANGED vars
  BY <1>0, <1>7, ZenonT(60) DEF Expire, vars, callVars, TypeOK
<1> QED
  BY <1>1, <1>2, <1>3, <1>4, <1>5, <1>6, <1>7, Zenon DEF Next, Call

\* Every step keeps the invariant.
LEMMA NextInv == IInv /\ [Next]_vars => IInv'
<1> SUFFICES ASSUME IInv, [Next]_vars PROVE IInv'
  OBVIOUS
<1>0. TypeOK' /\ OneWinner'
  BY TypeKept, WinnerKept, Zenon DEF IInv, WinnerInv, TypeOK
<1>1. ASSUME NEW c \in Callers, CheckExpired(c) \/ Lose(c) \/ Return(c) PROVE IInv'
  <2>1. \A d \in Callers : pc'[d] \in Early => pc[d] \in Early
    BY <1>1 DEF CheckExpired, Lose, Return, AtDecision, Early, IInv, TypeOK
  <2> QED
    BY <1>0, <1>1, <2>1, OthersKeep, ZenonT(60) DEF CheckExpired, Lose, Return
<1>2. ASSUME NEW c \in Callers, Win(c) \/ Invoke(c) PROVE IInv'
  BY <1>0, <1>2, WinKeeps, InvokeKeeps, SMTT(60)
<1>3. ASSUME NEW o \in Observers, AddObserver(o) \/ InvokeNow(o) PROVE IInv'
  BY <1>0, <1>3, AddObserverKeeps, InvokeNowKeeps, Zenon
<1>4. ASSUME NEW w \in Waiters, Wait(w) \/ WaitTimeout(w) PROVE IInv'
  BY <1>0, <1>4, OthersKeep, ZenonT(60) DEF Wait, WaitTimeout, callVars
<1>5. CASE Expire \/ UNCHANGED vars
  BY <1>0, <1>5, OthersKeep DEF Expire, vars, callVars
<1> QED
  BY <1>1, <1>2, <1>3, <1>4, <1>5, Zenon DEF Next, Call

\* Every observer hears of the end at most once, and of the real one.
THEOREM EndHeardOnceHolds == Spec => []EndHeardOnce
<1>1. IInv => EndHeardOnce
  BY DEF IInv
<1> QED
  BY InitInv, NextInv, <1>1, PTL DEF Spec

\* No registered observer is forgotten, however add_observer() races with the
\* call that takes the list.
THEOREM NoObserverForgottenHolds == Spec => []NoObserverForgotten
<1>1. IInv => NoObserverForgotten
  BY DEF IInv
<1> QED
  BY InitInv, NextInv, <1>1, PTL DEF Spec

-----------------------------------------------------------------------------
(* The router *)

\* A set of natural numbers that is not empty has a least member.
LEMMA LeastNatural ==
  ASSUME NEW T \in SUBSET Nat, T # {}
  PROVE  \E x \in T : \A y \in T : x <= y
<1> DEFINE R == {ss \in Nat \X Nat : ss[1] < ss[2]}
<1>1. IsWellFoundedOn(R, Nat)
  BY NatLessThanWellFounded DEF OpToRel
<1>2. PICK x \in T : \A y \in T : ~ (<<y, x>> \in R)
  <2> HIDE DEF R
  <2> QED BY <1>1, WFMin, Zenon
<1>3. ASSUME NEW y \in T
      PROVE  x <= y
  <2>1. ~ (<<y, x>> \in R)
    BY <1>2
  <2> QED
    BY <2>1
<1> QED
  BY <1>3

\* One step of the loop over the workers.
ScanStep(feasible, before, i, best) ==
  IF i \in feasible /\ (best = NoFeasibleWorker \/ <<i, best>> \in before) THEN i ELSE best

\* The best of the first k positions, step by step.
Scanned(feasible, before, best, k) ==
  /\ best = [i \in 0..k |-> best[i]]
  /\ best[0] = NoFeasibleWorker
  /\ \A i \in 1..k : best[i] = ScanStep(feasible, before, i, best[i - 1])

\* The loop can be run to the end.
LEMMA ScanExists ==
  ASSUME NEW F, NEW R, NEW k \in 0..n
  PROVE  \E best : Scanned(F, R, best, k)
<1>0. n \in Nat \ {0}
  BY RouterAssumption DEF n
<1> DEFINE Bad == {j \in 0..n : ~ \E best : Scanned(F, R, best, j)}
<1> SUFFICES ASSUME Bad # {} PROVE FALSE
  OBVIOUS
<1>1. PICK j \in Bad : \A l \in Bad : j <= l
  <2>1. Bad \in SUBSET Nat
    BY <1>0
  <2> HIDE DEF Bad
  <2> QED
    BY <2>1, LeastNatural
<1>2. CASE j = 0
  <2>1. Scanned(F, R, [i \in 0..0 |-> 0], 0)
    BY <1>0 DEF Scanned, NoFeasibleWorker
  <2> QED
    BY <1>2, <2>1, Zenon
<1>3. CASE j # 0
  <2>1. j \in 1..n /\ j - 1 \in 0..n /\ j - 1 \notin Bad
    BY <1>0, <1>1, <1>3
  <2>2. PICK best : Scanned(F, R, best, j - 1)
    BY <2>1
  <2> DEFINE last == ScanStep(F, R, j, best[j - 1])
             more == [i \in 0..j |-> IF i = j THEN last ELSE best[i]]
  <2> HIDE DEF last
  <2>4. more = [i \in 0..j |-> more[i]]
    BY Zenon
  <2>5. more[0] = NoFeasibleWorker
    BY <1>0, <2>1, <2>2 DEF Scanned
  <2>6. ASSUME NEW i \in 1..j PROVE more[i] = ScanStep(F, R, i, more[i - 1])
    <3>1. more[i - 1] = best[i - 1]
      BY <1>0, <2>1, SMTT(60)
    <3>2. CASE i = j
      BY <2>1, <3>1, <3>2 DEF last
    <3>3. CASE i # j
      <4>1. i \in 1..(j - 1) /\ more[i] = best[i]
        BY <2>1, <3>3
      <4> QED
        BY <2>2, <3>1, <4>1, Zenon DEF Scanned
    <3> QED
      BY <3>2, <3>3, Zenon
  <2>7. Scanned(F, R, more, j)
    BY <2>4, <2>5, <2>6, Zenon DEF Scanned
  <2> QED
    BY <2>7, Zenon
<1> QED
  BY <1>2, <1>3, Zenon

\* The result of the loop is that of its last step.
LEMMA ScanRuns ==
  ASSUME NEW F, NEW R
  PROVE  \E best : Scanned(F, R, best, n) /\ Scan(F, R) = best[n]
<1>0. n \in Nat \ {0}
  BY RouterAssumption DEF n
<1> DEFINE Loop(b) ==
             b = [i \in 0..n |->
                    IF i = 0 THEN NoFeasibleWorker
                    ELSE IF /\ i \in F
                            /\ b[i - 1] = NoFeasibleWorker \/ <<i, b[i - 1]>> \in R
                    THEN i ELSE b[i - 1]]
           loop == CHOOSE b : Loop(b)
<1>1. PICK best : Scanned(F, R, best, n)
  BY <1>0, ScanExists
<1>2. Loop(best)
  <2> DEFINE step(i) == IF i = 0 THEN NoFeasibleWorker
                        ELSE IF /\ i \in F
                                /\ best[i - 1] = NoFeasibleWorker \/ <<i, best[i - 1]>> \in R
                        THEN i ELSE best[i - 1]
  <2>1. ASSUME NEW i \in 0..n PROVE best[i] = step(i)
    <3>1. CASE i = 0
      BY <1>1, <3>1 DEF Scanned
    <3>2. CASE i # 0
      <4>1. i \in 1..n
        BY <1>0, <3>2
      <4> QED
        BY <1>1, <3>2, <4>1, Zenon DEF Scanned, ScanStep
    <3> QED
      BY <3>1, <3>2
  <2>2. best = [i \in 0..n |-> best[i]]
    BY <1>1 DEF Scanned
  <2> HIDE DEF step
  <2>3. best = [i \in 0..n |-> step(i)]
    BY <2>1, <2>2
  <2> QED
    BY <2>3, ZenonT(60) DEF step
<1>3. Loop(loop)
  BY <1>2, Zenon
<1>4. ASSUME NEW b, Loop(b) PROVE Scanned(F, R, b, n)
  <2>1. b = [i \in 0..n |-> b[i]]
    BY <1>4
  <2>2. b[0] = NoFeasibleWorker
    BY <1>0, <1>4
  <2>3. ASSUME NEW i \in 1..n PROVE b[i] = ScanStep(F, R, i, b[i - 1])
    BY <1>0, <1>4 DEF ScanStep
  <2> QED
    BY <2>1, <2>2, <2>3, Zenon DEF Scanned
<1>5. Scan(F, R) = loop[n]
  BY DEF Scan
<1> HIDE DEF loop, Loop
<1> QED
  BY <1>3, <1>4, <1>5, ZenonT(60)

\* If before orders the positions totally, the loop returns the first of the
\* feasible ones in that order, or nothing if there is none.
LEMMA ScanBest ==
  ASSUME NEW F \in SUBSET Positions, NEW R,
         \A i, j \in Positions : i # j => <<i, j>> \in R \/ <<j, i>> \in R,
         \A i, j, k \in Positions : <<i, j>> \in R /\ <<j, k>> \in R => <<i, k>> \in R
  PROVE  /\ Scan(F, R) \in F \cup {NoFeasibleWorker}
         /\ Scan(F, R) = NoFeasibleWorker => F = {}
         /\ \A i \in F \ {Scan(F, R)} : <<Scan(F, R), i>> \in R
<1>0. n \in Nat \ {0} /\ NoFeasibleWorker \notin F
  BY RouterAssumption DEF n, NoFeasibleWorker, Positions
<1>1. PICK best : Scanned(F, R, best, n) /\ Scan(F, R) = best[n]
  BY ScanRuns, Zenon
<1> DEFINE Good(k) == /\ best[k] \in F \cup {NoFeasibleWorker}
                      /\ \A i \in F : i <= k /\ i # best[k] =>
                           best[k] # NoFeasibleWorker /\ <<best[k], i>> \in R
           Bad == {k \in 0..n : ~Good(k)}
<1>2. Good(0)
  BY <1>0, <1>1 DEF Scanned, Positions
<1>3. ASSUME NEW k \in 1..n, Good(k - 1) PROVE Good(k)
  <2>1. best[k] = ScanStep(F, R, k, best[k - 1]) /\ k \in Positions
    BY <1>1, Zenon DEF Scanned, Positions
  <2>2. CASE best[k] = best[k - 1]
    <3>1. k \in F => best[k - 1] # NoFeasibleWorker
          /\ (k # best[k] => <<best[k], k>> \in R)
      <4>1. ASSUME k \in F, <<k, best[k - 1]>> \notin R, best[k - 1] # NoFeasibleWorker, k # best[k - 1]
            PROVE  <<best[k - 1], k>> \in R
        BY <1>3, <2>1, <4>1, Zenon
      <4>2. ASSUME k \in F PROVE k # NoFeasibleWorker
        BY <1>0, <4>2, Zenon
      <4> QED
        BY <2>1, <2>2, <4>1, <4>2 DEF ScanStep
    <3>2. ASSUME NEW i \in F, i <= k, i # k PROVE i <= k - 1
      BY <3>2 DEF Positions
    <3> QED
      BY <1>3, <2>2, <3>1, <3>2, ZenonT(60)
  <2>3. CASE best[k] = k /\ k \in F /\ best[k - 1] = NoFeasibleWorker
    BY <1>0, <1>3, <2>1, <2>3 DEF Positions
  <2>4. CASE best[k] = k /\ k \in F /\ best[k - 1] # NoFeasibleWorker /\ <<k, best[k - 1]>> \in R
    <3>1. best[k - 1] \in Positions
      BY <1>3, <2>4, Zenon
    <3>2. ASSUME NEW i \in F, i <= k, i # k PROVE <<k, i>> \in R
      <4>1. i <= k - 1 /\ i \in Positions
        BY <3>2 DEF Positions
      <4>2. CASE i = best[k - 1]
        BY <2>4, <4>2
      <4>3. CASE i # best[k - 1]
        <5>1. <<best[k - 1], i>> \in R
          BY <1>3, <4>1, <4>3, Zenon
        <5> QED
          BY <2>1, <2>4, <3>1, <4>1, <5>1, ZenonT(60)
      <4> QED
        BY <4>2, <4>3, Zenon
    <3> QED
      BY <1>0, <2>4, <3>2 DEF Positions
  <2> QED
    BY <2>1, <2>2, <2>3, <2>4, Zenon DEF ScanStep
<1>4. Bad = {}
  <2> SUFFICES ASSUME Bad # {} PROVE FALSE
    OBVIOUS
  <2>1. PICK k \in Bad : \A l \in Bad : k <= l
    <3>1. Bad \in SUBSET Nat
      BY <1>0, SMTT(60)
    <3> HIDE DEF Bad
    <3> QED
      BY <3>1, LeastNatural, Zenon
  <2>2. k \in 1..n /\ k - 1 \in 0..n
    BY <1>0, <1>2
  <2>3. k - 1 \notin Bad
    <3> HIDE DEF Bad
    <3> QED
      BY <2>1, <2>2
  <2>4. Good(k - 1)
    BY <2>2, <2>3, Zenon
  <2> HIDE DEF Good
  <2> QED
    BY <1>3, <2>2, <2>4, ZenonT(60)
<1>5. Good(n)
  <2> HIDE DEF Good
  <2> QED
    BY <1>0, <1>4
<1>6. \A i \in F : i <= n
  BY SMTT(60) DEF Positions
<1> HIDE DEF Bad
<1> QED
  BY <1>0, <1>1, <1>5, <1>6, Zenon

\* Which worker replaces which is a total order: the ids break all ties.
LEMMA Ordered ==
  ASSUME NEW ws \in [Positions -> WorkerSnapshot], NEW bytes \in Nat
  PROVE  /\ \A i \in Positions : load(ws[i]) \in Nat /\ residency_tier(ws[i], bytes) \in Nat
         /\ \A i, j \in Positions : i # j => LessLoaded(ws, i, j) \/ LessLoaded(ws, j, i)
         /\ \A i, j, k \in Positions :
              LessLoaded(ws, i, j) /\ LessLoaded(ws, j, k) => LessLoaded(ws, i, k)
         /\ \A i, j \in Positions : i # j => Closer(ws, bytes, i, j) \/ Closer(ws, bytes, j, i)
         /\ \A i, j, k \in Positions :
              Closer(ws, bytes, i, j) /\ Closer(ws, bytes, j, k) => Closer(ws, bytes, i, k)
<1>1. ASSUME NEW i \in Positions PROVE load(ws[i]) \in Nat
  <2>1. ws[i].queue_depth + ws[i].active_count \in Nat
    BY DEF WorkerSnapshot
  <2> QED
    BY <2>1, RouterAssumption DEF load
<1>2. \A i \in Positions : residency_tier(ws[i], bytes) \in Nat
  BY Zenon DEF residency_tier
<1>3. \A i, j \in Positions : WorkerIds[i] \in Nat /\ (WorkerIds[i] = WorkerIds[j] => i = j)
  BY RouterAssumption DEF Positions, n
<1>4. \A i, j \in Positions : i # j => LessLoaded(ws, i, j) \/ LessLoaded(ws, j, i)
  BY <1>1, <1>3 DEF LessLoaded
<1>5. \A i, j, k \in Positions :
        LessLoaded(ws, i, j) /\ LessLoaded(ws, j, k) => LessLoaded(ws, i, k)
  BY <1>1, <1>3 DEF LessLoaded
<1> QED
  BY <1>1, <1>2, <1>4, <1>5 DEF Closer

\* The choice by the snapshots is the best of the feasible workers.
LEMMA ChoiceBest ==
  ASSUME NEW ws \in [Positions -> WorkerSnapshot], NEW bytes \in Nat,
         NEW i \in Positions
  PROVE  /\ LeastLoaded(ws, bytes) \in Positions =>
              /\ is_m2_feasible(ws[LeastLoaded(ws, bytes)], bytes)
              /\ is_m2_feasible(ws[i], bytes) /\ i # LeastLoaded(ws, bytes) =>
                   LessLoaded(ws, LeastLoaded(ws, bytes), i)
         /\ ResidencyAware(ws, bytes) \in Positions =>
              /\ is_m2_feasible(ws[ResidencyAware(ws, bytes)], bytes)
              /\ is_m2_feasible(ws[i], bytes) /\ i # ResidencyAware(ws, bytes) =>
                   Closer(ws, bytes, ResidencyAware(ws, bytes), i)
<1> DEFINE F == FeasibleAt(ws, bytes)
           L == {p \in Positions \X Positions : LessLoaded(ws, p[1], p[2])}
           C == {p \in Positions \X Positions : Closer(ws, bytes, p[1], p[2])}
<1>0. NoFeasibleWorker \notin Positions
  BY DEF Positions, NoFeasibleWorker
<1>1. F \in SUBSET Positions /\ (i \in F <=> is_m2_feasible(ws[i], bytes))
      /\ \A j \in F : is_m2_feasible(ws[j], bytes)
  BY Zenon DEF FeasibleAt
<1>2. \A j, k \in Positions : (<<j, k>> \in L <=> LessLoaded(ws, j, k))
                              /\ (<<j, k>> \in C <=> Closer(ws, bytes, j, k))
  BY Zenon
<1>3. LeastLoaded(ws, bytes) = Scan(F, L) /\ ResidencyAware(ws, bytes) = Scan(F, C)
  BY Zenon DEF LeastLoaded, ResidencyAware
<1> HIDE DEF F, L, C
<1>4. Scan(F, L) \in F \cup {NoFeasibleWorker} /\ \A j \in F \ {Scan(F, L)} : <<Scan(F, L), j>> \in L
  <2>1. /\ \A j, k \in Positions : j # k => <<j, k>> \in L \/ <<k, j>> \in L
        /\ \A j, k, l \in Positions : <<j, k>> \in L /\ <<k, l>> \in L => <<j, l>> \in L
    BY <1>2, Ordered, Zenon
  <2> QED
    BY <1>1, <2>1, ScanBest, Zenon
<1>5. Scan(F, C) \in F \cup {NoFeasibleWorker} /\ \A j \in F \ {Scan(F, C)} : <<Scan(F, C), j>> \in C
  <2>1. /\ \A j, k \in Positions : j # k => <<j, k>> \in C \/ <<k, j>> \in C
        /\ \A j, k, l \in Positions : <<j, k>> \in C /\ <<k, l>> \in C => <<j, l>> \in C
    BY <1>2, Ordered, ZenonT(60)
  <2> QED
    BY <1>1, <2>1, ScanBest, Zenon
<1> QED
  BY <1>0, <1>1, <1>2, <1>3, <1>4, <1>5, ZenonT(60)

SelectInv == policy \in Policies /\ SelectsBest

\* A call keeps the best.
LEMMA SelectKeeps ==
  ASSUME SelectInv, [RouterNext]_routerVars
  PROVE  SelectInv'
<1>1. CASE UNCHANGED routerVars
  BY <1>1, Zenon DEF routerVars, SelectInv, SelectsBest, FeasibleNow
<1>2. ASSUME NEW ws \in Snapshots[policy], NEW bytes \in Sizes, Select(ws, bytes)
      PROVE  SelectInv'
  <2>1. ws \in [Positions -> WorkerSnapshot] /\ bytes \in Nat
    BY RouterAssumption, Zenon DEF SelectInv
  <2>2. workers' = ws /\ size' = bytes /\ policy' = policy /\ selected' = Choice(ws, bytes)
    BY <1>2, Zenon DEF Select
  <2>3. CASE policy = "RoundRobin"
    BY <2>2, <2>3, Zenon DEF SelectInv, SelectsBest
  <2>4. CASE policy = "LeastLoaded"
    <3>1. Choice(ws, bytes) = LeastLoaded(ws, bytes)
      BY <2>4 DEF Choice
    <3>2. ASSUME selected' \in Positions, NEW i \in Positions
          PROVE /\ is_m2_feasible(ws[selected'], bytes)
                /\ is_m2_feasible(ws[i], bytes) /\ i # selected' =>
                     LessLoaded(ws, selected', i)
      BY <2>1, <2>2, <3>1, <3>2, ChoiceBest, Zenon
    <3>3. ASSUME selected' \in Positions, NEW i \in Positions
          PROVE load(ws[selected']) \in Nat /\ load(ws[i]) \in Nat
      BY <2>1, <3>3, Ordered, Zenon
    <3>4. ASSUME selected' \in Positions
          PROVE  /\ is_m2_feasible(ws[selected'], bytes)
                 /\ \A i \in Positions \ {selected'} : is_m2_feasible(ws[i], bytes) =>
                      /\ load(ws[selected']) <= load(ws[i])
                      /\ load(ws[selected']) = load(ws[i]) => WorkerIds[selected'] < WorkerIds[i]
      BY <3>2, <3>3, <3>4 DEF LessLoaded
    <3>5. 0 <= 0
      OBVIOUS
    <3> QED
      BY <2>2, <2>4, <3>4, <3>5, ZenonT(60) DEF SelectInv, SelectsBest, FeasibleNow
  <2>5. CASE policy = "ResidencyAware"
    <3>1. Choice(ws, bytes) = ResidencyAware(ws, bytes)
      BY <2>5, Zenon DEF Choice
    <3>2. ASSUME selected' \in Positions, NEW i \in Positions
          PROVE /\ is_m2_feasible(ws[selected'], bytes)
                /\ is_m2_feasible(ws[i], bytes) /\ i # selected' =>
                     Closer(ws, bytes, selected', i)
      BY <2>1, <2>2, <3>1, <3>2, ChoiceBest, Zenon
    <3>3. ASSUME selected' \in Positions, NEW i \in Positions
          PROVE /\ load(ws[selected']) \in Nat /\ load(ws[i]) \in Nat
                /\ residency_tier(ws[selected'], bytes) \in Nat /\ residency_tier(ws[i], bytes) \in Nat
      BY <2>1, <3>3, Ordered, Zenon
    <3>4. ASSUME selected' \in Positions
          PROVE  /\ is_m2_feasible(ws[selected'], bytes)
                 /\ \A i \in Positions \ {selected'} : is_m2_feasible(ws[i], bytes) =>
                      /\ residency_tier(ws[selected'], bytes) <= residency_tier(ws[i], bytes)
                      /\ residency_tier(ws[selected'], bytes) = residency_tier(ws[i], bytes) =>
                           /\ load(ws[selected']) <= load(ws[i])
                           /\ load(ws[selected']) = load(ws[i]) => WorkerIds[selected'] < WorkerIds[i]
      <4>1. is_m2_feasible(ws[selected'], bytes)
        BY <3>2, <3>4, ZenonT(60)
      <4>2. ASSUME NEW i \in Positions \ {selected'}, is_m2_feasible(ws[i], bytes)
            PROVE  /\ residency_tier(ws[selected'], bytes) <= residency_tier(ws[i], bytes)
                   /\ residency_tier(ws[selected'], bytes) = residency_tier(ws[i], bytes) =>
                        /\ load(ws[selected']) <= load(ws[i])
                        /\ load(ws[selected']) = load(ws[i]) => WorkerIds[selected'] < WorkerIds[i]
        <5>1. Closer(ws, bytes, selected', i)
          BY <3>2, <3>4, <4>2, Zenon
        <5>2. /\ load(ws[selected']) \in Nat /\ load(ws[i]) \in Nat
              /\ residency_tier(ws[selected'], bytes) \in Nat /\ residency_tier(ws[i], bytes) \in Nat
          BY <3>3, <3>4, Zenon
        <5> QED
          BY <5>1, <5>2 DEF LessLoaded, Closer
      <4> QED
        BY <4>1, <4>2, Zenon
    <3> QED
      BY <2>2, <2>5, <3>4, Zenon DEF SelectInv, SelectsBest, FeasibleNow
  <2> QED
    BY <2>3, <2>4, <2>5, Zenon DEF SelectInv, Policies
<1> QED
  BY <1>1, <1>2 DEF RouterNext

\* The worker that is selected by the snapshots is the best of the feasible
\* ones, for any number of workers in any order.
THEOREM SelectsBestHolds == RouterSpec => []SelectsBest
<1>1. RouterInit => SelectInv
  BY DEF RouterInit, SelectInv, SelectsBest, NotCalled, Positions
<1>2. SelectInv => SelectsBest
  BY DEF SelectInv
<1> QED
  BY <1>1, <1>2, SelectKeeps, PTL DEF RouterSpec

\* How many places position i is after next_index.
Ahead(i) == IF i >= next_index THEN i - next_index ELSE i - next_index + n

\* A worker that was passed over k times is at most n - 1 - k places ahead.
TurnInv ==
  /\ policy \in Policies
  /\ next_index \in Positions
  /\ passed_over \in [Positions -> Nat]
  /\ \A i \in Positions : passed_over[i] + (IF policy = "RoundRobin" THEN Ahead(i) ELSE 0) < n

\* The remainder of a number below 2 * n.
LEMMA Wraps ==
  ASSUME NEW m \in Nat \ {0}, NEW x \in 0..(2 * m - 1)
  PROVE  x % m = IF x < m THEN x ELSE x - m
<1>1. x = m * (x \div m) + (x % m) /\ x % m \in 0..(m - 1) /\ x \div m \in Int
  OBVIOUS
<1> QED
  BY <1>1

\* The position that is o places ahead is the o-th one the loop looks at.
LEMMA AheadAt ==
  ASSUME next_index \in Positions
  PROVE  /\ \A o \in Offsets : At(o) \in Positions /\ Ahead(At(o)) = o
         /\ \A i \in Positions : Ahead(i) \in Offsets /\ At(Ahead(i)) = i
<1>1. n \in Nat \ {0} /\ next_index \in 1..n /\ Positions = 1..n /\ Offsets = 0..(n - 1)
  BY RouterAssumption DEF n, Positions, Offsets
<1>2. \A x \in 0..(2 * n - 1) : x % n = IF x < n THEN x ELSE x - n
  BY <1>1, Wraps, Zenon
<1>3. ASSUME NEW o \in Offsets PROVE At(o) = IF next_index + o <= n THEN next_index + o ELSE next_index + o - n
  <2>1. next_index - 1 + o \in 0..(2 * n - 1)
    BY <1>1
  <2> DEFINE x == next_index - 1 + o
  <2>2. x % n = IF x < n THEN x ELSE x - n
    <3> HIDE DEF x
    <3> QED
      BY <1>2, <2>1 DEF x
  <2>3. At(o) = (x % n) + 1
    BY Zenon DEF At
  <2>4. x % n = IF next_index + o <= n THEN next_index - 1 + o ELSE next_index - 1 + o - n
    BY <1>1, <2>2
  <2> HIDE DEF x
  <2> QED
    BY <1>1, <2>3, <2>4
<1>4. ASSUME NEW i \in Positions PROVE Ahead(i) \in Offsets
  BY <1>1 DEF Ahead
<1>5. ASSUME NEW o \in Offsets PROVE At(o) \in Positions /\ Ahead(At(o)) = o
  BY <1>1, <1>3 DEF Ahead
<1>6. ASSUME NEW i \in Positions PROVE At(Ahead(i)) = i
  <2>1. At(Ahead(i)) = IF next_index + Ahead(i) <= n THEN next_index + Ahead(i) ELSE next_index + Ahead(i) - n
    BY <1>3, <1>4, Zenon
  <2> QED
    BY <1>1, <2>1 DEF Ahead
<1> QED
  BY <1>4, <1>5, <1>6, Zenon

\* Round robin takes the feasible worker that is the fewest places ahead.
LEMMA RoundRobinNearest ==
  ASSUME next_index \in Positions, NEW ws, NEW bytes,
         RoundRobin(ws, bytes) # NoFeasibleWorker
  PROVE  /\ RoundRobin(ws, bytes) \in Positions
         /\ \A i \in Positions :
              is_m2_feasible(ws[i], bytes) => Ahead(RoundRobin(ws, bytes)) <= Ahead(i)
<1> DEFINE offsets == {o \in Offsets : is_m2_feasible(ws[At(o)], bytes)}
           first == CHOOSE o \in offsets : \A p \in offsets : o <= p
<1>1. offsets # {} /\ RoundRobin(ws, bytes) = At(first)
  BY DEF RoundRobin
<1>2. first \in offsets /\ \A p \in offsets : first <= p
  <2>1. offsets \in SUBSET Nat
    BY RouterAssumption DEF Offsets, n
  <2> HIDE DEF offsets
  <2>2. \E o \in offsets : \A p \in offsets : o <= p
    BY <1>1, <2>1, LeastNatural, Zenon
  <2> QED
    BY <2>2, Zenon
<1> HIDE DEF first
<1>3. first \in Offsets /\ Ahead(At(first)) = first /\ At(first) \in Positions
  BY <1>2, AheadAt, Zenon
<1>4. ASSUME NEW i \in Positions, is_m2_feasible(ws[i], bytes) PROVE first <= Ahead(i)
  <2>1. Ahead(i) \in offsets
    BY <1>4, AheadAt, ZenonT(60)
  <2> QED
    BY <1>2, <2>1, Zenon
<1> QED
  BY <1>1, <1>3, <1>4, Zenon

\* A call brings the workers it passes over nearer to their turn.
LEMMA TurnKeeps ==
  ASSUME TurnInv, [RouterNext]_routerVars
  PROVE  TurnInv'
<1>0. n \in Nat \ {0} /\ Positions = 1..n
  BY RouterAssumption DEF n, Positions
<1>1. CASE UNCHANGED routerVars
  BY <1>1, Zenon DEF routerVars, TurnInv, Ahead
<1>2. ASSUME NEW ws \in Snapshots[policy], NEW bytes \in Sizes, Select(ws, bytes)
      PROVE  TurnInv'
  <2> DEFINE choice == Choice(ws, bytes)
             passed(i) == is_m2_feasible(ws[i], bytes) /\ i # choice
  <2>1. /\ policy' = policy
        /\ next_index' = IF policy = "RoundRobin" /\ choice # NoFeasibleWorker
                         THEN (choice % n) + 1 ELSE next_index
        /\ passed_over' = [i \in Positions |->
                             IF choice = NoFeasibleWorker THEN passed_over[i]
                             ELSE IF passed(i) /\ policy = "RoundRobin" THEN passed_over[i] + 1
                             ELSE 0]
    BY <1>2, Zenon DEF Select
  <2>2. policy = "RoundRobin" => choice = RoundRobin(ws, bytes)
    BY Zenon DEF Choice
  <2> HIDE DEF choice
  <2>3. passed_over' \in [Positions -> Nat]
    <3>1. \A i \in Positions : passed_over[i] \in Nat /\ passed_over[i] + 1 \in Nat
      BY DEF TurnInv
    <3> HIDE DEF passed
    <3> QED
      BY <2>1, <3>1, ZenonT(60)
  <2>4. CASE choice = NoFeasibleWorker
    <3>1. next_index' = next_index /\ \A i \in Positions : passed_over'[i] = passed_over[i]
      BY <2>1, <2>4, ZenonT(60)
    <3> QED
      BY <2>1, <2>3, <3>1, Zenon DEF TurnInv, Ahead
  <2>5. CASE policy # "RoundRobin" /\ choice # NoFeasibleWorker
    <3>1. next_index' = next_index /\ \A i \in Positions : passed_over'[i] = 0
      BY <2>1, <2>5, Zenon
    <3> QED
      BY <1>0, <2>1, <2>3, <2>5, <3>1 DEF TurnInv
  <2>6. CASE policy = "RoundRobin" /\ choice # NoFeasibleWorker
    <3>1. choice \in Positions
          /\ \A i \in Positions : is_m2_feasible(ws[i], bytes) => Ahead(choice) <= Ahead(i)
      BY <2>2, <2>6, RoundRobinNearest, ZenonT(60) DEF TurnInv
    <3>2. next_index' = IF choice = n THEN 1 ELSE choice + 1
      <4>1. choice \in 0..(2 * n - 1)
        BY <1>0, <3>1
      <4>2. choice % n = IF choice < n THEN choice ELSE choice - n
        BY <1>0, <4>1, Wraps, ZenonT(60)
      <4> QED
        BY <1>0, <2>1, <2>6, <3>1, <4>2, SMTT(60)
    <3>3. next_index \in Positions /\ next_index' \in Positions
      BY <1>0, <3>1, <3>2 DEF TurnInv
    <3>4. ASSUME NEW i \in Positions PROVE passed_over'[i] + Ahead(i)' < n
      <4>1. CASE passed(i)
        <5>1. Ahead(choice) <= Ahead(i) /\ i # choice
          BY <3>1, <4>1, Zenon
        <5>2. Ahead(i)' = Ahead(i) - Ahead(choice) - 1
          BY <1>0, <3>1, <3>2, <3>3, <5>1 DEF Ahead
        <5>3. passed_over'[i] = passed_over[i] + 1
          BY <2>1, <2>6, <4>1, Zenon
        <5>4. passed_over[i] + Ahead(i) < n /\ passed_over[i] \in Nat
          BY <2>6, ZenonT(60) DEF TurnInv
        <5>5. Ahead(i) \in Int /\ Ahead(choice) \in Nat
          BY <1>0, <3>1, <3>3, SMTT(60) DEF Ahead
        <5> QED
          BY <1>0, <5>2, <5>3, <5>4, <5>5, SMTT(60)
      <4>2. CASE ~passed(i)
        <5>1. passed_over'[i] = 0
          BY <2>1, <2>6, <4>2, Zenon
        <5>2. Ahead(i)' < n /\ Ahead(i)' \in Int
          <6>1. PICK a \in 1..n, m \in Nat : a = next_index' /\ m = n
            BY <1>0, <3>3, Zenon
          <6>2. i \in 1..m /\ a \in 1..m
            BY <1>0, <6>1, Zenon
          <6>3. (i >= a => i - a < m) /\ (~(i >= a) => i - a + m < m) /\ i - a \in Int /\ i - a + m \in Int
            BY <6>2
          <6> QED
            BY <6>1, <6>3, Zenon DEF Ahead
        <5> QED
          BY <1>0, <5>1, <5>2
      <4> QED
        BY <4>1, <4>2, ZenonT(60)
    <3> QED
      BY <2>1, <2>3, <2>6, <3>3, <3>4, Zenon DEF TurnInv
  <2> QED
    BY <2>4, <2>5, <2>6, Zenon
<1> QED
  BY <1>1, <1>2 DEF RouterNext

\* Under round robin no worker that could take every request is passed over
\* for a whole round, for any number of workers and whatever the others report.
THEOREM NobodyPassedOverHolds == RouterSpec => []NobodyPassedOver
<1>0. n \in Nat \ {0} /\ Positions = 1..n
  BY RouterAssumption DEF n, Positions
<1>1. RouterInit => TurnInv
  BY <1>0 DEF RouterInit, TurnInv, Ahead
<1>2. TurnInv => NobodyPassedOver
  <2> SUFFICES ASSUME TurnInv, NEW i \in Positions PROVE passed_over[i] < n
    BY Zenon DEF NobodyPassedOver
  <2>1. Ahead(i) \in Nat /\ passed_over[i] \in Nat
    BY <1>0 DEF TurnInv, Ahead
  <2> QED
    BY <1>0, <2>1 DEF TurnInv
<1> QED
  BY <1>1, <1>2, TurnKeeps, PTL DEF RouterSpec
=============================================================================
