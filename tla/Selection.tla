------------------------------ MODULE Selection ------------------------------
(***************************************************************************)
(* Passes over a sequence that keep some of its elements, as the filters   *)
(* of the runtime do.                                                      *)
(***************************************************************************)
EXTENDS Integers, Sequences

\* The pass over n positions that stops at those in S, from the first to the
\* last: there is one.
Passes(S, n) ==
  {pass \in UNION {[1..k -> S] : k \in 0..n} :
     /\ \A i, j \in DOMAIN pass : i < j => pass[i] < pass[j]
     /\ \A x \in S : \E i \in DOMAIN pass : pass[i] = x}

\* The elements of seq that a pass stops at.
Along(pass, seq) == [j \in DOMAIN pass |-> seq[pass[j]]]
=============================================================================
