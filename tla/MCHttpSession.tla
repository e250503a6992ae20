--------------------------- MODULE MCHttpSession ---------------------------
(***************************************************************************)
(* One connection, every kind of request a client can send and every order *)
(* of the handlers, the runtime's threads, the deadline, the client's      *)
(* leaving and the server's stop.  Integers have 4 bits.  The model is     *)
(* finite as it stands.                                                    *)
(***************************************************************************)
EXTENDS HttpSession

Absent == [given |-> FALSE, integer |-> TRUE, value |-> 0]

GoodBody ==
  [form |-> "object", unknown_field |-> FALSE, model_id |-> "given", prompt |-> "given",
   max_output_tokens |-> Absent, timeout_ms |-> Absent]

\* The edges: the limits and their neighbours, the extremes of both types.
Numbers ==
  {[given |-> TRUE, integer |-> TRUE, value |-> v] : v \in {-8, -1, 0, 1, 3, 4, 7, 8, 9, 15}}
    \cup {[given |-> TRUE, integer |-> FALSE, value |-> 1], Absent}

\* Bodies with one thing wrong, and those with any numbers.
SomeBodies ==
  {[GoodBody EXCEPT !.form = f] : f \in {"malformed", "not an object"}}
    \cup {[GoodBody EXCEPT !.unknown_field = TRUE]}
    \cup {[GoodBody EXCEPT !.model_id = t] : t \in Text}
    \cup {[GoodBody EXCEPT !.prompt = t] : t \in Text}
    \cup {[GoodBody EXCEPT !.max_output_tokens = m, !.timeout_ms = t] :
            m \in Numbers, t \in Numbers}
=============================================================================
