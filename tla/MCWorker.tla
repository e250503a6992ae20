------------------------------ MODULE MCWorker ------------------------------
(* Small instances of Worker for TLC. *)
EXTENDS Worker, TLC

CONSTANTS a1, a2, a3, b1

ModelOf == [r \in Requests |-> IF r = b1 THEN "B" ELSE "A"]
=============================================================================
