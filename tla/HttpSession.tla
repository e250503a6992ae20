---------------------------- MODULE HttpSession ----------------------------
(***************************************************************************)
(* One connection of the server (src/serving/http_session.cpp and          *)
(* http_server.cpp): the client sends one request and reads one answer,    *)
(* JSON or an NDJSON stream of the request's states.                       *)
(*                                                                         *)
(* Every handler runs on the thread of the io_context, the one that calls  *)
(* HttpServer::run(); main() calls HttpServer::stop() there too.  Handlers *)
(* are therefore atomic, with one exception: while start_infer() runs, the *)
(* runtime's threads already work on the request it has submitted.  They   *)
(* tell the session of a new state through an observer that posts          *)
(* on_state_update() to the io_context.                                    *)
(*                                                                         *)
(* A session lives as long as a handler that owns it is pending.  The      *)
(* observer and the deadline timer only own a weak_ptr.                    *)
(***************************************************************************)
EXTENDS RequestHandler

VARIABLES
  pc,        \* how far the exchange is
  session,   \* the members of the HttpSession
  body,      \* the body on_read found, until start_infer returns
  spec,      \* what parse_infer_request made of it
  request,   \* the snapshot of active_request_
  callback,  \* the snapshot of which a runtime thread has yet to call the observer
  posted,    \* the calls of on_state_update() in the io_context's queue
  peer,      \* what the client did to the connection
  wire,      \* the chunks that were written
  server     \* "running", or "stopped" by HttpServer::stop()

vars == <<pc, session, body, spec, request, callback, posted, peer, wire, server>>

Nothing == "nothing"

\* The units of output: the response header, a state event, the terminal
\* event, the chunk that ends the stream, and a whole JSON response.
ChunkKind == {"headers", "state", "terminal", "end", "json", "none"}

\* answer is what serialize_infer_response or serialize_terminal_event made.
Chunk(kind, answer) == [kind |-> kind, answer |-> answer]

\* A response that is not about a request has a status only.
Status(code) == [status |-> code, outcome |-> Nothing]

NoWrite == Chunk("none", Status(0))

EndsAnswer(kind) == kind \in {"end", "json"}

\* write_in_progress_ and the write it stands for are one field; once closed_
\* is set no handler looks at it again.
NewSession ==
  [stream_mode |-> FALSE, response_started |-> FALSE, json_response_started |-> FALSE,
   closed |-> FALSE, armed |-> FALSE, active |-> FALSE, timer |-> FALSE,
   registered |-> FALSE, write_queue |-> <<>>, writing |-> NoWrite]

Init ==
  /\ pc = "accepting"
  /\ session = NewSession
  /\ body = <<>>
  /\ spec = <<>>
  /\ request = Snapshot("Received", "None")
  /\ callback = <<>>
  /\ posted = <<>>
  /\ peer = "open"
  /\ wire = <<>>
  /\ server = "running"

\* A handler that holds a shared_ptr to the session is pending or running.
Alive ==
  \/ pc \in {"accepting", "reading", "starting"}
  \/ posted # <<>>
  \/ session.armed
  \/ session.writing # NoWrite

has_active_request == pc \in {"starting", "watched", "unwatched"}

Running == server = "running"
-----------------------------------------------------------------------------
(* The helpers of the handlers, as functions of the session's members. *)

stop_disconnect_watch(s) == [s EXCEPT !.active = FALSE]

arm_disconnect_watch(s) ==
  IF s.closed \/ s.armed THEN s ELSE [s EXCEPT !.active = TRUE, !.armed = TRUE]

\* close() acts once; unregister_session() is its last call.
close(s) ==
  IF s.closed THEN s
  ELSE [stop_disconnect_watch(s) EXCEPT !.closed = TRUE, !.timer = FALSE,
                                        !.registered = FALSE]

do_write(s) ==
  IF s.write_queue = <<>> THEN [s EXCEPT !.writing = NoWrite]
  ELSE [s EXCEPT !.writing = Head(s.write_queue), !.write_queue = Tail(@)]

queue_write(s, chunks) ==
  LET queued == [s EXCEPT !.write_queue = @ \o chunks]
  IN  IF s.writing = NoWrite THEN do_write(queued) ELSE queued

send_json_response(s, answer) ==
  IF s.closed \/ s.json_response_started THEN s
  ELSE [stop_disconnect_watch(s) EXCEPT !.json_response_started = TRUE,
                                        !.timer = FALSE,
                                        !.writing = Chunk("json", answer)]

\* try_cancel() and try_timeout() called on the io_context's
\* thread: the observer posts before the call returns.  A cancellation's or a
\* timeout's error code has the name of the state.
try_end(to) ==
  IF is_valid_transition(request.state, to)
  THEN /\ request' = Snapshot(to, to)
       /\ posted' = Append(posted, request')
  ELSE UNCHANGED <<request, posted>>

\* Variant: the work of a client that left goes on.
CloseOnly(s) ==
  /\ session' = close(stop_disconnect_watch(s))
  /\ UNCHANGED <<request, posted>>

\* on_disconnect(), and shutdown(): cancel the request if there is one and it
\* has not ended, and close.
on_disconnect(s) ==
  /\ session' = close(stop_disconnect_watch(s))
  /\ IF has_active_request THEN try_end("Cancelled") ELSE UNCHANGED <<request, posted>>
-----------------------------------------------------------------------------
(* The handlers. *)

\* on_accept: the session is registered and starts to read.
OnAccept ==
  /\ pc = "accepting"
  /\ Running
  /\ session' = [session EXCEPT !.registered = TRUE]
  /\ pc' = "reading"
  /\ UNCHANGED <<body, spec, request, callback, posted, peer, wire, server>>

\* on_read with an error: the client left or sent no HTTP.
ReadFails ==
  /\ pc = "reading"
  /\ Running
  /\ session' = close(session)
  /\ pc' = "done"
  /\ UNCHANGED <<body, spec, request, callback, posted, peer, wire, server>>

\* on_read and handle_request answer at once: a body above the limit, GET,
\* other methods, other targets, and a body that is refused.
AnswerAtOnce ==
  /\ pc = "reading"
  /\ Running
  /\ \/ /\ \E status \in {413, 405, 404}
                  \cup {handle_get(t, h) : t \in Targets, h \in BOOLEAN} :
             session' = send_json_response(session, Status(status))
        /\ UNCHANGED body
     \/ \E b \in Bodies :
          /\ parse_infer_request(b) = <<>>
          /\ session' = send_json_response(session, Status(400))
          /\ body' = <<b>>
  /\ pc' = "done"
  /\ UNCHANGED <<spec, request, callback, posted, peer, wire, server>>

\* The snapshots submit() takes the request through before another thread can
\* see it: accepted; expired in submit() or admit(); refused because the
\* runtime stopped; refused by the scheduler.
Submissions ==
  LET queued == Snapshot("Queued", "None")
      rejected(code) == Snapshot("Rejected", code)
  IN  {<<queued>>, <<Snapshot("TimedOut", "TimedOut")>>, <<rejected("RuntimeStopped")>>,
       <<queued, rejected("RuntimeStopped")>>, <<queued, rejected("QueueFull")>>}

\* handle_request and start_infer up to the return of submit().
StartInfer ==
  /\ pc = "reading"
  /\ Running
  /\ \E b \in Bodies :
       /\ parse_infer_request(b) # <<>>
       /\ body' = <<b>>
       /\ spec' = parse_infer_request(b)
  /\ \E stream \in BOOLEAN :
       session' = [session EXCEPT !.stream_mode = stream, !.timer = TRUE]
  /\ posted' \in Submissions
  /\ request' = posted'[Len(posted')]
  /\ pc' = "starting"
  /\ UNCHANGED <<callback, peer, wire, server>>

\* The rest of start_infer: a request that has ended meanwhile is not watched.
FinishStart ==
  /\ pc = "starting"
  /\ IF is_terminal_state(request.state)
     THEN pc' = "unwatched" /\ UNCHANGED session
     ELSE pc' = "watched" /\ session' = arm_disconnect_watch(session)
  /\ body' = <<>>
  /\ spec' = <<>>
  /\ UNCHANGED <<request, callback, posted, peer, wire, server>>

\* A session no handler holds is destroyed; handlers run between two others,
\* never inside start_infer.
CanHandle == Running /\ Alive /\ pc # "starting"

EventOf(snap) ==
  IF is_terminal_state(snap.state)
  THEN <<Chunk("terminal", serialize_terminal_event(snap)), Chunk("end", Status(200))>>
  ELSE <<Chunk("state", Status(200))>>

\* on_state_update in stream mode: the header before the first event.
stream_update(s, snap) ==
  LET header == IF s.response_started THEN <<>> ELSE <<Chunk("headers", Status(200))>>
      begun == IF s.response_started THEN s
               ELSE stop_disconnect_watch([s EXCEPT !.response_started = TRUE])
      written == queue_write(begun, header \o EventOf(snap))
  IN  IF is_terminal_state(snap.state)
      THEN [stop_disconnect_watch(written) EXCEPT !.timer = FALSE] ELSE written

\* Variant: only a result is answered.
json_result(s, snap) ==
  IF snap.state # "Completed" THEN s
  ELSE send_json_response([stop_disconnect_watch(s) EXCEPT !.timer = FALSE],
                          serialize_infer_response(snap))

\* on_state_update otherwise: only the end of the request is answered.
json_update(s, snap) ==
  IF ~is_terminal_state(snap.state) THEN s
  ELSE send_json_response([stop_disconnect_watch(s) EXCEPT !.timer = FALSE],
                          serialize_infer_response(snap))

on_state_update(s, snap) ==
  IF s.closed THEN s
  ELSE IF s.stream_mode THEN stream_update(s, snap) ELSE json_update(s, snap)

OnStateUpdate ==
  /\ CanHandle
  /\ posted # <<>>
  /\ session' = on_state_update(session, Head(posted))
  /\ posted' = Tail(posted)
  /\ UNCHANGED <<pc, body, spec, request, callback, peer, wire, server>>

\* Variant: readiness is taken for the end of the connection.
ReadyIsGone == TRUE

\* What the probe of on_peer_wait finds: end of file, an error, or bytes that
\* should not be there.
PeerGone == peer # "open"

\* on_peer_wait.  The wait ends because the connection is readable, because
\* close() cancelled it, or for no reason (then it is armed again).
OnPeerWait ==
  LET fired == [session EXCEPT !.armed = FALSE]
  IN  /\ CanHandle
      /\ session.armed
      /\ IF session.closed \/ ~session.active
         THEN session' = fired /\ UNCHANGED <<request, posted>>
         ELSE IF PeerGone THEN on_disconnect(fired)
         ELSE session' = arm_disconnect_watch(fired) /\ UNCHANGED <<request, posted>>
      /\ UNCHANGED <<pc, body, spec, callback, peer, wire, server>>

\* The deadline timer.  A timer that is cancelled after it expired finds a
\* request that has ended.
TimerFires ==
  /\ CanHandle
  /\ session.timer
  /\ session' = [session EXCEPT !.timer = FALSE]
  /\ try_end("TimedOut")
  /\ UNCHANGED <<pc, body, spec, callback, peer, wire, server>>

\* Variant: the write after the end chunk is started as after any other.
WriteOn(s, kind) == do_write(s)

\* The completion handlers of async_write when it succeeded.
written_ok(s, kind) ==
  IF EndsAnswer(kind) THEN close([s EXCEPT !.writing = NoWrite]) ELSE do_write(s)

\* A write can succeed though the client has left.  (A success the io_context
\* has yet to report when close() runs is one reported before it.)
WriteSucceeds ==
  /\ CanHandle
  /\ session.writing # NoWrite
  /\ ~session.closed
  /\ wire' = Append(wire, session.writing)
  /\ session' = written_ok(session, session.writing.kind)
  /\ UNCHANGED <<pc, body, spec, request, callback, posted, peer, server>>

WriteFails ==
  /\ CanHandle
  /\ session.writing # NoWrite
  /\ session.closed \/ peer = "gone"
  /\ on_disconnect([session EXCEPT !.writing = NoWrite])
  /\ UNCHANGED <<pc, body, spec, callback, peer, wire, server>>

\* HttpServer::stop() in the signal handler: the registered sessions are shut
\* down, and no handler runs any more.
Stop ==
  /\ Running
  /\ pc # "starting"
  /\ IF session.registered /\ Alive THEN on_disconnect(session)
     ELSE UNCHANGED <<session, request, posted>>
  /\ server' = "stopped"
  /\ UNCHANGED <<pc, body, spec, callback, peer, wire>>
-----------------------------------------------------------------------------
(* The other actors. *)

\* The codes with which route_request() rejects and the worker fails a request.
RejectCodes == {"ModelNotFound", "NoFeasibleWorker", "QueueFull", "QueueClosed"}

FailCodes ==
  {"ModelNotFound", "InsufficientMemory", "ModelLoadFailed", "InferenceFailed",
   "ContextLengthExceeded", "InternalError", "InvalidStateTransition"}

\* A thread of the runtime moves the request on.  It calls the observer before
\* it makes its next move.
RuntimeMoves ==
  /\ has_active_request
  /\ callback = <<>>
  /\ request' \in
       {Snapshot("Running", "None"), Snapshot("Completed", "None"),
        Snapshot("TimedOut", "TimedOut")}
         \cup {Snapshot("Rejected", c) : c \in RejectCodes}
         \cup {Snapshot("Failed", c) : c \in FailCodes}
  /\ is_valid_transition(request.state, request'.state)
  /\ callback' = <<request'>>
  /\ UNCHANGED <<pc, body, spec, session, posted, peer, wire, server>>

\* weak_self.lock() fails.
SessionGone == ~Alive

\* The observer: a session that no longer exists is not told.
Observe ==
  /\ callback # <<>>
  /\ posted' = IF SessionGone THEN posted ELSE posted \o callback
  /\ callback' = <<>>
  /\ UNCHANGED <<pc, body, spec, session, request, peer, wire, server>>

\* The client leaves, or sends more than its one request.
PeerActs ==
  /\ peer = "open"
  /\ pc # "accepting"
  /\ peer' \in {"gone", "talks"}
  /\ UNCHANGED <<pc, body, spec, session, request, callback, posted, wire, server>>

Next ==
  \/ OnAccept \/ ReadFails \/ AnswerAtOnce \/ StartInfer \/ FinishStart
  \/ OnStateUpdate \/ OnPeerWait \/ TimerFires \/ WriteSucceeds \/ WriteFails
  \/ Stop \/ RuntimeMoves \/ Observe \/ PeerActs

Spec == Init /\ [][Next]_vars

\* The io_context runs what is ready, the runtime ends every request and calls
\* its observers (Worker and Runtime), and a client that waits for its answer
\* reads what it is sent.  Nothing forces a deadline, a signal or the client.
Fairness ==
  /\ WF_vars(FinishStart)
  /\ WF_vars(OnStateUpdate)
  /\ WF_vars(WriteSucceeds)
  /\ WF_vars(RuntimeMoves)
  /\ WF_vars(Observe)

FairSpec == Spec /\ Fairness

-----------------------------------------------------------------------------
\* The answer is complete.
Answered == wire # <<>> /\ EndsAnswer(wire[Len(wire)].kind)

\* What reaches the client is one well-formed answer, however the updates of
\* several threads are ordered: a JSON response alone; or the header, events,
\* one terminal event and directly behind it the end chunk, and nothing more.
\* The terminal event and the JSON response tell the state the request ended in.
OneAnswer ==
  \A i \in DOMAIN wire :
    /\ (i = 1) <=> wire[i].kind \in {"headers", "json"}
    /\ EndsAnswer(wire[i].kind) => i = Len(wire)
    /\ wire[i].kind = "end" => wire[i - 1].kind = "terminal"
    /\ wire[i].kind = "terminal" => i + 1 >= Len(wire)
    /\ wire[i].kind \in {"terminal", "json"} /\ has_active_request =>
         wire[i].answer.outcome.state = request.state

\* A stream whose response has begun no longer watches its connection: when the
\* wait ends, the session is destroyed unclosed and its request is left alone.
StreamAbandoned == session.response_started /\ ~session.closed /\ ~Alive

\* No work is left behind: when the session is closed or destroyed or the
\* server has stopped, its request has ended (on_disconnect, shutdown), except
\* that of an abandoned stream.
NoWorkLeftBehind ==
  has_active_request /\ pc # "starting" /\ (session.closed \/ ~Alive \/ ~Running)
    => is_terminal_state(request.state) \/ StreamAbandoned

\* A client that stays connected and silent does not lose its request
\* (on_peer_wait: "Mere readiness is not proof of abandon"), unless the server
\* stops.
SilentClientKept == request.state = "Cancelled" => peer # "open" \/ ~Running

\* A client whose request was being watched gets its answer, if it stays and
\* the server is not stopped.  A stream may lose its session to a readiness
\* event without cause, because it is not armed again.
WatchedIsAnswered ==
  (pc = "watched") ~> (\/ Answered
                       \/ peer # "open"
                       \/ ~Running
                       \/ session.stream_mode /\ ~session.armed)

\* The status and the body of an answer agree with each other and with how the
\* request really ended, whichever of the racing ends won: 200 and an output
\* for a result only, 504 for a passed deadline only, and the 503 of a full
\* queue ("overload is rejected with HTTP 503", README.md:10) never for
\* a request that ran to its end; a stream says the same in its last event.
StatusTellsEnd ==
  \A i \in DOMAIN wire :
    has_active_request /\ wire[i].kind \in {"json", "terminal"} =>
      LET answer == wire[i].answer
      IN  /\ answer.outcome.error = request.code
          /\ answer.outcome.output <=> request.state = "Completed"
          /\ wire[i].kind = "json" =>
               /\ answer.status = 200 <=> request.state = "Completed"
               /\ answer.status = 504 <=> request.state = "TimedOut"
               /\ request.code = "QueueFull" => answer.status = 503

\* The limits of a request hold of the numbers its client wrote, not only of
\* what get<std::int64_t>() makes of them: what is started is well formed and
\* within the limits, and only a body that is not is answered 400.
LimitsKept ==
  LET within(n, low, high) == n.given => n.integer /\ n.value \in low .. high
      good(b) == /\ b.form = "object" /\ ~b.unknown_field
                 /\ {b.model_id, b.prompt} = {"given"}
                 /\ within(b.max_output_tokens, kMaxOutputTokensMin, kMaxOutputTokensMax)
                 /\ within(b.timeout_ms, kTimeoutMsMin, kTimeoutMsMax)
  IN  /\ \A i \in DOMAIN body : good(body[i]) <=> spec # <<>>
      /\ \A i \in DOMAIN spec :
           /\ spec[i].max_output_tokens \in kMaxOutputTokensMin .. kMaxOutputTokensMax
           /\ spec[i].timeout \in kTimeoutMsMin .. kTimeoutMsMax

\* A client that waits for a JSON answer is never left with a closed
\* connection and no answer (tests/http_session_terminal_response_test.cpp,
\* run_reject_storm_once, asks it of every client of a storm of rejections).
NeverDroppedSilently ==
  (has_active_request /\ ~session.stream_mode /\ ~Alive /\ peer = "open" /\ Running)
    => Answered
=============================================================================
