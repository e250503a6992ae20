-------------------------------- MODULE Fifo --------------------------------
(***************************************************************************)
(* What a BoundedQueue promises: a channel that never holds more than      *)
(* capacity values, hands them out in the order they came in, each once,   *)
(* takes none after it is closed and still hands out those it holds.       *)
(***************************************************************************)
EXTENDS Naturals, Sequences

CONSTANTS Values, capacity

VARIABLES
  sent,     \* the values that went in, oldest first
  taken,    \* the values that came out, oldest first
  closed

Init == sent = <<>> /\ taken = <<>> /\ closed = FALSE

Put(x) ==
  /\ ~closed
  /\ Len(sent) - Len(taken) < capacity
  /\ sent' = Append(sent, x)
  /\ UNCHANGED <<taken, closed>>

Take ==
  /\ Len(taken) < Len(sent)
  /\ taken' = Append(taken, sent[Len(taken) + 1])
  /\ UNCHANGED <<sent, closed>>

Close == closed' = TRUE /\ UNCHANGED <<sent, taken>>

Next == (\E x \in Values : Put(x)) \/ Take \/ Close

Spec == Init /\ [][Next]_<<sent, taken, closed>>
=============================================================================
