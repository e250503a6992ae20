--------------------------- MODULE RequestHandler ---------------------------
(***************************************************************************)
(* The operators of src/serving/request_handler.cpp: which requests are    *)
(* accepted, and what a client is told of one that has ended.  The handler *)
(* has no state but a counter for request ids.                             *)
(*                                                                         *)
(* A JSON body is reduced to what the parser tells apart: its form, whether*)
(* it has an unknown field, whether a text is absent, of another type,     *)
(* empty or given, and the numbers.                                        *)
(***************************************************************************)
EXTENDS RequestLifecycle, Integers, Sequences

CONSTANTS
  INT64_MAX,              \* the greatest std::int64_t
  kMaxOutputTokensMin, kMaxOutputTokensMax, kMaxOutputTokensDefault,
  kTimeoutMsMin, kTimeoutMsMax, kTimeoutMsDefault,
  Bodies                  \* the bodies clients send

Text == {"absent", "other type", "empty", "given"}

\* A JSON integer is signed, or unsigned of the same width.
Number ==
  [given : BOOLEAN, integer : BOOLEAN, value : -(INT64_MAX + 1) .. 2 * INT64_MAX + 1]

Body ==
  [form : {"malformed", "not an object", "object"}, unknown_field : BOOLEAN,
   model_id : Text, prompt : Text, max_output_tokens : Number, timeout_ms : Number]

ASSUME HandlerAssumption ==
  /\ INT64_MAX \in Nat
  /\ Bodies \subseteq Body
  /\ kMaxOutputTokensDefault \in kMaxOutputTokensMin .. kMaxOutputTokensMax
  /\ kTimeoutMsDefault \in kTimeoutMsMin .. kTimeoutMsMax
  /\ kMaxOutputTokensMin \in 1..INT64_MAX /\ kMaxOutputTokensMax \in 1..INT64_MAX
  /\ kTimeoutMsMin \in 1..INT64_MAX /\ kTimeoutMsMax \in 1..INT64_MAX

\* get<std::int64_t>() of a JSON integer: the upper half of the unsigned ones
\* becomes negative.
get_int64(n) ==
  IF n.value > INT64_MAX THEN n.value - 2 * (INT64_MAX + 1) ELSE n.value

\* Variant: only the upper limit is looked at.
NotAbove(n, low, high) == n.given => n.integer /\ get_int64(n) <= high

InRange(n, low, high) == n.given => n.integer /\ get_int64(n) \in low .. high

ValueOr(n, default) == IF n.given THEN get_int64(n) ELSE default

\* parse_infer_request(): the sequence of the specification, or of nothing.
parse_infer_request(b) ==
  IF /\ b.form = "object" /\ ~b.unknown_field
     /\ b.model_id = "given" /\ b.prompt = "given"
     /\ InRange(b.max_output_tokens, kMaxOutputTokensMin, kMaxOutputTokensMax)
     /\ InRange(b.timeout_ms, kTimeoutMsMin, kTimeoutMsMax)
  THEN <<[max_output_tokens |-> ValueOr(b.max_output_tokens, kMaxOutputTokensDefault),
          timeout |-> ValueOr(b.timeout_ms, kTimeoutMsDefault)]>>
  ELSE <<>>
-----------------------------------------------------------------------------
(* GET *)

handle_health(healthy) == IF healthy THEN 200 ELSE 503

Targets == {"/health", "/v1/models", "/v1/runtime", "/metrics", "another"}

\* The status of a GET; the snapshots in its body are left out.
handle_get(target, healthy) ==
  IF target = "/health" THEN handle_health(healthy)
  ELSE IF target \in Targets \ {"another"} THEN 200 ELSE 404
-----------------------------------------------------------------------------
(* A snapshot of a request: its state and the code of its result, "None" for *)
(* a success or no result.                                                   *)

Snapshot(s, code) == [state |-> s, code |-> code]

\* Variant: a full queue is an error of the server like any other.
status_without_overload(snap) ==
  IF snap.state = "Completed" THEN 200
  ELSE IF snap.state = "Cancelled" THEN 409
  ELSE IF snap.state = "TimedOut" THEN 504
  ELSE CASE snap.code = "ModelNotFound" -> 404
         [] snap.code = "ContextLengthExceeded" -> 400
         [] snap.code \in {"RuntimeStopped", "NoFeasibleWorker", "InsufficientMemory"} -> 503
         [] OTHER -> 500

http_status_for_snapshot(snap) ==
  IF snap.state = "Completed" THEN 200
  ELSE IF snap.state = "Cancelled" THEN 409
  ELSE IF snap.state = "TimedOut" THEN 504
  ELSE CASE snap.code = "ModelNotFound" -> 404
         [] snap.code = "ContextLengthExceeded" -> 400
         [] snap.code \in {"QueueFull", "RuntimeStopped", "NoFeasibleWorker",
                           "InsufficientMemory"} -> 503
         [] OTHER -> 500

\* The fields both answers have; output says whether there is one.
Outcome(snap) ==
  [state |-> snap.state, output |-> snap.state = "Completed", error |-> snap.code]

serialize_infer_response(snap) ==
  [status |-> http_status_for_snapshot(snap), outcome |-> Outcome(snap)]

\* The stream's header has said 200 before.
serialize_terminal_event(snap) == [status |-> 200, outcome |-> Outcome(snap)]
=============================================================================
