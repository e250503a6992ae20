---------------------- MODULE MCWorkloadAwareScheduler ----------------------
(***************************************************************************)
(* Small instances of WorkloadAwareScheduler: one lonely model against a   *)
(* popular one.                                                            *)
(***************************************************************************)
EXTENDS WorkloadAwareScheduler

CONSTANTS a1, a2, a3, a4, b1, A, B

MCRequests == {a1, a2, a3, a4, b1}
MCModels == {A, B}
MCModelId == [r \in MCRequests |-> IF r = b1 THEN B ELSE A]

MCFewRequests == {a1, a2, b1}
MCFewModelId == [r \in MCFewRequests |-> IF r = b1 THEN B ELSE A]

=============================================================================
