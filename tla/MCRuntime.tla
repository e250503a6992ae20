----------------------------- MODULE MCRuntime -----------------------------
(* A small instance of Runtime for TLC: r1 is submitted twice, can die and   *)
(* asks for a model that only the first worker can hold.                     *)
EXTENDS Runtime

CONSTANTS c1, c2, r1, r2

FitsSome == [r \in Requests |-> IF r = r1 THEN {1} ELSE Workers]
SubmitCalls == [c \in Clients |-> IF c = c1 THEN <<r1>> ELSE <<r1, r2>>]
============================================================================
