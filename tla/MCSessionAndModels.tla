------------------------- MODULE MCSessionAndModels -------------------------
(***************************************************************************)
(* HttpSession and ModelManager for TLC.  They share no state, so a        *)
(* behaviour uses one of them and leaves the other as it began.            *)
(*                                                                         *)
(* Models: 1 and 2 fit together, 3 fits with one of them, 4 fits alone, 5  *)
(* is too large, 6 is not registered, 7 is unknown to the backend and 8    *)
(* fails to load.                                                          *)
(***************************************************************************)
EXTENDS MCHttpSession, ModelManager, TLC

VARIABLE subject   \* the component this behaviour uses

MemoryBytes == 1 :> 2 @@ 2 :> 3 @@ 3 :> 3 @@ 4 :> 5 @@ 5 :> 6 @@ 6 :> 1 @@ 7 :> 1 @@ 8 :> 1
LoadCost == 1 :> 2 @@ 2 :> 1 @@ 3 :> 1 @@ 4 :> 2 @@ 5 :> 1 @@ 6 :> 1 @@ 7 :> 1 @@ 8 :> 1

-----------------------------------------------------------------------------
\* What a component that is not used would have chosen does not matter.
PartsInit ==
  /\ subject \in {"session", "models"}
  /\ Init
  /\ ModelInit
  /\ subject # "models" => policy = "Lru"

PartsNext ==
  \/ subject = "session" /\ Next /\ UNCHANGED <<subject, modelVars>>
  \/ subject = "models" /\ ModelNext /\ UNCHANGED <<subject, vars>>

\* The fairness of a session bears on the behaviours that use it; the
\* properties of the models are invariants.
PartsSpec ==
  /\ PartsInit
  /\ [][PartsNext]_<<subject, vars, modelVars>>
  /\ Fairness
=============================================================================
