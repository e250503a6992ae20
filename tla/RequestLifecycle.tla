-------------------------- MODULE RequestLifecycle --------------------------
(***************************************************************************)
(* The states of a request and the moves between them                      *)
(* (src/request.cpp, InferenceRequest::is_terminal_state and               *)
(* is_valid_transition).  The modules of the runtime share them.           *)
(***************************************************************************)

RequestState == {"Received", "Queued", "Running", "Completed", "Rejected",
                 "Failed", "Cancelled", "TimedOut"}

TerminalState == {"Completed", "Rejected", "Failed", "Cancelled", "TimedOut"}

is_terminal_state(s) == s \in TerminalState

\* The states each state may move to.
Successors ==
  [s \in RequestState |->
     CASE s = "Received" -> {"Queued", "Rejected", "Cancelled", "TimedOut"}
       [] s = "Queued" -> {"Running", "Rejected", "Cancelled", "TimedOut"}
       [] s = "Running" -> {"Completed", "Failed", "Cancelled", "TimedOut"}
       [] OTHER -> {}]

is_valid_transition(from, to) == to \in Successors[from]
=============================================================================
