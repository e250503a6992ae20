-------------------------- MODULE HttpSessionProofs --------------------------
(***************************************************************************)
(* Proofs, for every request a client may send and every way the runtime,  *)
(* the client and the timers may interleave, that what is started is       *)
(* within the limits, that a session answers at most once and in order,    *)
(* that the status it sends tells how the request ended, that a closed     *)
(* session leaves no work behind in the runtime, and that a client which   *)
(* is only silent is not cut off.  IInv is inductive and gives the last    *)
(* three; OneAnswer also needs OrderInv, on what is still to be written.   *)
(***************************************************************************)
EXTENDS HttpSession, SequenceTheorems, TLAPS

(* The limits of a request *)

\* get<std::int64_t>() turns a number that does not fit into a negative one,
\* so none gets below an upper limit that way.
LEMMA RangeMeansRange ==
  ASSUME NEW n \in Number, NEW low \in 1..INT64_MAX, NEW high \in 1..INT64_MAX
  PROVE  /\ InRange(n, low, high) <=> (n.given => n.integer /\ n.value \in low..high)
         /\ InRange(n, low, high) /\ n.given => get_int64(n) \in low..high
<1>1. n.value \in -(INT64_MAX + 1) .. 2 * INT64_MAX + 1
  BY DEF Number
<1>2. PICK v \in Int : v = n.value /\ v <= 2 * INT64_MAX + 1
  BY <1>1, HandlerAssumption
<1>3. get_int64(n) \in low..high <=> v \in low..high
  BY <1>2, HandlerAssumption DEF get_int64
<1> QED
  BY <1>2, <1>3 DEF InRange

\* A body is well formed and its numbers, as written, are within the limits.
Within(n, low, high) == n.given => n.integer /\ n.value \in low..high
WellFormed(b) ==
  /\ b.form = "object" /\ ~b.unknown_field
  /\ {b.model_id, b.prompt} = {"given"}
  /\ Within(b.max_output_tokens, kMaxOutputTokensMin, kMaxOutputTokensMax)
  /\ Within(b.timeout_ms, kTimeoutMsMin, kTimeoutMsMax)

Specs == [max_output_tokens : kMaxOutputTokensMin .. kMaxOutputTokensMax,
          timeout : kTimeoutMsMin .. kTimeoutMsMax]

\* parse_infer_request accepts the well-formed bodies, and what it makes of
\* them is within the limits.
LEMMA ParseWithin ==
  ASSUME NEW b \in Bodies
  PROVE  /\ WellFormed(b) <=> parse_infer_request(b) # <<>>
         /\ parse_infer_request(b) \in Seq(Specs)
<1>1. /\ b.max_output_tokens \in Number /\ b.timeout_ms \in Number
      /\ b.model_id \in Text /\ b.prompt \in Text
  BY HandlerAssumption, ZenonT(60) DEF Body
<1>2. /\ kMaxOutputTokensMin \in 1..INT64_MAX /\ kMaxOutputTokensMax \in 1..INT64_MAX
      /\ kTimeoutMsMin \in 1..INT64_MAX /\ kTimeoutMsMax \in 1..INT64_MAX
      /\ kMaxOutputTokensDefault \in kMaxOutputTokensMin .. kMaxOutputTokensMax
      /\ kTimeoutMsDefault \in kTimeoutMsMin .. kTimeoutMsMax
  BY HandlerAssumption
<1> DEFINE tokens == InRange(b.max_output_tokens, kMaxOutputTokensMin, kMaxOutputTokensMax)
           time == InRange(b.timeout_ms, kTimeoutMsMin, kTimeoutMsMax)
           made == [max_output_tokens |-> ValueOr(b.max_output_tokens, kMaxOutputTokensDefault),
                    timeout |-> ValueOr(b.timeout_ms, kTimeoutMsDefault)]
<1>3. tokens <=> Within(b.max_output_tokens, kMaxOutputTokensMin, kMaxOutputTokensMax)
  BY <1>1, <1>2, RangeMeansRange, Zenon DEF Within
<1>4. time <=> Within(b.timeout_ms, kTimeoutMsMin, kTimeoutMsMax)
  BY <1>1, <1>2, RangeMeansRange, Zenon DEF Within
<1>5. tokens /\ time => made \in Specs
  <2>1. tokens => ValueOr(b.max_output_tokens, kMaxOutputTokensDefault)
                    \in kMaxOutputTokensMin .. kMaxOutputTokensMax
    BY <1>1, <1>2, RangeMeansRange, Zenon DEF ValueOr
  <2>2. time => ValueOr(b.timeout_ms, kTimeoutMsDefault) \in kTimeoutMsMin .. kTimeoutMsMax
    BY <1>1, <1>2, RangeMeansRange, Zenon DEF ValueOr
  <2> QED
    BY <2>1, <2>2 DEF Specs
<1>6. {b.model_id, b.prompt} = {"given"} <=> b.model_id = "given" /\ b.prompt = "given"
  OBVIOUS
<1> DEFINE ok == /\ b.form = "object" /\ ~b.unknown_field
                 /\ b.model_id = "given" /\ b.prompt = "given" /\ tokens /\ time
<1>7. parse_infer_request(b) = IF ok THEN <<made>> ELSE <<>>
  BY Zenon DEF parse_infer_request
<1>8. WellFormed(b) <=> ok
  BY <1>3, <1>4, <1>6, Zenon DEF WellFormed
<1>9. ok => made \in Specs
  BY <1>5
<1> HIDE DEF ok, made
<1> QED
  BY <1>7, <1>8, <1>9

\* What start_infer has of a body until it returns.
ParsedInv ==
  /\ \A i \in DOMAIN body : WellFormed(body[i]) <=> spec # <<>>
  /\ spec \in Seq(Specs)
  /\ pc \in {"accepting", "reading"} => spec = <<>>

\* HttpSession.LimitsKept: for any limits and any width of the integers, what
\* is started is well formed and within the limits as the client wrote it, and
\* a body that is answered 400 is not (parse_infer_request, handle_request).
THEOREM LimitsKeptHolds == Spec => []LimitsKept
<1>1. Init => ParsedInv
  BY DEF Init, ParsedInv
<1>2. ParsedInv /\ [Next]_vars => ParsedInv'
  <2> SUFFICES ASSUME ParsedInv, [Next]_vars PROVE ParsedInv'
    OBVIOUS
  <2>1. CASE UNCHANGED <<body, spec, pc>>
    BY <2>1, Zenon DEF ParsedInv
  <2>2. CASE OnAccept \/ ReadFails
    BY <2>2 DEF OnAccept, ReadFails, ParsedInv
  <2>3. CASE AnswerAtOnce
    <3>1. spec = <<>> /\ spec' = <<>> /\ pc' = "done" /\ spec' \in Seq(Specs)
      BY <2>3 DEF AnswerAtOnce, ParsedInv
    <3>2. CASE UNCHANGED body
      BY <3>1, <3>2 DEF ParsedInv
    <3>3. ASSUME NEW b \in Bodies, parse_infer_request(b) = <<>>, body' = <<b>> PROVE ParsedInv'
      <4>1. ~WellFormed(b)
        BY <3>3, ParseWithin
      <4> QED
        BY <3>1, <3>3, <4>1 DEF ParsedInv
    <3> QED
      BY <2>3, <3>2, <3>3 DEF AnswerAtOnce
  <2>4. CASE StartInfer
    <3>1. PICK b \in Bodies : parse_infer_request(b) # <<>> /\ body' = <<b>> /\ spec' = parse_infer_request(b)
      BY <2>4 DEF StartInfer
    <3>2. pc' = "starting" /\ WellFormed(b) /\ spec' \in Seq(Specs) /\ spec' # <<>>
      BY <2>4, <3>1, ParseWithin DEF StartInfer
    <3> QED
      BY <3>1, <3>2 DEF ParsedInv
  <2>5. CASE FinishStart
    BY <2>5 DEF FinishStart, ParsedInv
  <2> QED
    BY <2>1, <2>2, <2>3, <2>4, <2>5 DEF Next, vars, OnStateUpdate, OnPeerWait, TimerFires,
       WriteSucceeds, WriteFails, Stop, RuntimeMoves, Observe, PeerActs
<1>3. ParsedInv => LimitsKept
  <2>1. \A b : WellFormed(b) <=>
          /\ b.form = "object" /\ ~b.unknown_field
          /\ {b.model_id, b.prompt} = {"given"}
          /\ b.max_output_tokens.given => b.max_output_tokens.integer
               /\ b.max_output_tokens.value \in kMaxOutputTokensMin .. kMaxOutputTokensMax
          /\ b.timeout_ms.given => b.timeout_ms.integer
               /\ b.timeout_ms.value \in kTimeoutMsMin .. kTimeoutMsMax
    BY Zenon DEF WellFormed, Within
  <2> SUFFICES ASSUME ParsedInv
               PROVE  /\ \A i \in DOMAIN body : WellFormed(body[i]) <=> spec # <<>>
                      /\ \A i \in DOMAIN spec : spec[i] \in Specs
    BY <2>1, Zenon DEF LimitsKept, Specs
  <2> QED
    BY DEF ParsedInv
<1> QED
  BY <1>1, <1>2, <1>3, PTL DEF Spec

-----------------------------------------------------------------------------
(* The answer *)

Codes == {"None", "Cancelled", "TimedOut", "RuntimeStopped"} \cup RejectCodes \cup FailCodes

\* Only a request that was rejected found a full queue.
Snaps ==
  {s \in [state : RequestState, code : Codes] : s.code = "QueueFull" => s.state = "Rejected"}

Answers ==
  [status : Int,
   outcome : {Nothing} \cup [state : RequestState, output : BOOLEAN, error : Codes]]

Chunks == [kind : ChunkKind, answer : Answers]

Sessions ==
  [stream_mode : BOOLEAN, response_started : BOOLEAN, json_response_started : BOOLEAN,
   closed : BOOLEAN, armed : BOOLEAN, active : BOOLEAN, timer : BOOLEAN,
   registered : BOOLEAN, write_queue : Seq(Chunks), writing : Chunks]

\* t is s as far as the writing of the answer goes.
SameWrites(s, t) ==
  /\ t.stream_mode = s.stream_mode
  /\ t.response_started = s.response_started
  /\ t.json_response_started = s.json_response_started
  /\ t.write_queue = s.write_queue
  /\ t.writing = s.writing

\* stop_disconnect_watch ends the watch of the peer and touches nothing that is written.
LEMMA WatchStopped ==
  ASSUME NEW s \in Sessions
  PROVE  LET t == stop_disconnect_watch(s)
         IN  /\ t \in Sessions /\ SameWrites(s, t) /\ t.active = FALSE
             /\ t.closed = s.closed /\ t.armed = s.armed /\ t.registered = s.registered
             /\ t.timer = s.timer
  BY Zenon DEF stop_disconnect_watch, Sessions, SameWrites

\* close() always closes, and touches nothing that is written.
LEMMA CloseCloses ==
  ASSUME NEW s \in Sessions
  PROVE  LET t == close(s)
         IN  /\ t \in Sessions /\ SameWrites(s, t) /\ t.closed = TRUE /\ t.armed = s.armed
             /\ s.timer = FALSE => t.timer = FALSE
<1> DEFINE w == stop_disconnect_watch(s)
<1>1. w \in Sessions /\ SameWrites(s, w) /\ w.armed = s.armed
  BY WatchStopped, Zenon
<1> HIDE DEF w
<1>2. LET t == [w EXCEPT !.closed = TRUE, !.timer = FALSE, !.registered = FALSE]
      IN  t \in Sessions /\ SameWrites(w, t) /\ t.closed = TRUE /\ t.armed = w.armed
          /\ t.timer = FALSE
  BY <1>1, Zenon DEF Sessions, SameWrites
<1> QED
  BY <1>1, <1>2 DEF close, w, SameWrites, Sessions

\* t is s as far as the watch of the connection goes.
SameWatch(s, t) ==
  /\ t.closed = s.closed /\ t.armed = s.armed /\ t.active = s.active
  /\ t.registered = s.registered /\ t.timer = s.timer

\* What is still to be written are chunks of the set G.
Writes(s, G) == s.write_queue \in Seq(G) /\ s.writing \in G

\* arm_disconnect_watch arms a session that is open and not armed yet, and no other.
LEMMA ArmArms ==
  ASSUME NEW s \in Sessions
  PROVE  LET t == arm_disconnect_watch(s)
         IN  /\ t \in Sessions /\ SameWrites(s, t)
             /\ t.closed = s.closed /\ t.registered = s.registered
             /\ ~s.closed /\ ~s.armed => t.armed /\ t.active
             /\ s.closed \/ s.armed => t = s
  BY ZenonT(60) DEF arm_disconnect_watch, Sessions, SameWrites

\* do_write starts a write of what was queued, and leaves the watch alone.
LEMMA DoWriteTakes ==
  ASSUME NEW s \in Sessions, NEW G, NoWrite \in G, G \subseteq Chunks, s.write_queue \in Seq(G)
  PROVE  LET t == do_write(s)
         IN  /\ t \in Sessions /\ Writes(t, G) /\ SameWatch(s, t)
             /\ t.response_started = s.response_started
             /\ t.json_response_started = s.json_response_started
             /\ t.stream_mode = s.stream_mode
<1> DEFINE q == s.write_queue
<1>1. CASE q = <<>>
  BY <1>1 DEF do_write, Sessions, Writes, SameWatch
<1>2. CASE q # <<>>
  <2>1. Head(q) \in G /\ Tail(q) \in Seq(G) /\ Head(q) \in Chunks /\ Tail(q) \in Seq(Chunks)
    BY <1>2 DEF Sessions
  <2>2. do_write(s) = [s EXCEPT !.writing = Head(q), !.write_queue = Tail(q)]
    BY <1>2 DEF do_write
  <2> QED
    BY <2>1, <2>2, Zenon DEF Sessions, Writes, SameWatch
<1> QED
  BY <1>1, <1>2

\* queue_write queues chunks of the set G among chunks of G, and leaves the watch alone.
LEMMA QueueWriteAdds ==
  ASSUME NEW s \in Sessions, NEW G, NoWrite \in G, G \subseteq Chunks, Writes(s, G),
         NEW c \in Seq(G)
  PROVE  LET t == queue_write(s, c)
         IN  /\ t \in Sessions /\ Writes(t, G) /\ SameWatch(s, t)
             /\ t.response_started = s.response_started
             /\ t.json_response_started = s.json_response_started
             /\ t.stream_mode = s.stream_mode
<1> DEFINE q == s.write_queue \o c
           u == [s EXCEPT !.write_queue = q]
<1>1. q \in Seq(G) /\ q \in Seq(Chunks)
  <2>1. c \in Seq(Chunks) /\ s.write_queue \in Seq(Chunks) /\ s.write_queue \in Seq(G)
    BY DEF Writes, Sessions
  <2> QED
    BY <2>1
<1> HIDE DEF q
<1>2. /\ u \in Sessions /\ Writes(u, G) /\ SameWatch(s, u)
      /\ u.response_started = s.response_started
      /\ u.json_response_started = s.json_response_started
      /\ u.stream_mode = s.stream_mode /\ u.write_queue \in Seq(G)
  BY <1>1, Zenon DEF Sessions, Writes, SameWatch
<1>3. queue_write(s, c) = IF s.writing = NoWrite THEN do_write(u) ELSE u
  BY DEF queue_write, q
<1> HIDE DEF u
<1>4. CASE s.writing = NoWrite
  BY <1>2, <1>3, <1>4, DoWriteTakes DEF SameWatch
<1>5. CASE s.writing # NoWrite
  BY <1>2, <1>3, <1>5 DEF SameWatch
<1> QED
  BY <1>4, <1>5

\* send_json_response writes the JSON answer or nothing, and queues nothing.
LEMMA JsonSent ==
  ASSUME NEW s \in Sessions, NEW a \in Answers
  PROVE  LET t == send_json_response(s, a)
         IN  /\ t \in Sessions
             /\ t.write_queue = s.write_queue
             /\ t.writing = s.writing \/ t.writing = Chunk("json", a)
             /\ t.closed = s.closed /\ t.armed = s.armed /\ t.registered = s.registered
             /\ t.response_started = s.response_started /\ t.stream_mode = s.stream_mode
             /\ t.timer = s.timer \/ t.timer = FALSE
<1> DEFINE w == stop_disconnect_watch(s)
<1>1. /\ w \in Sessions /\ SameWrites(s, w) /\ w.closed = s.closed /\ w.armed = s.armed
      /\ w.registered = s.registered
  BY WatchStopped, Zenon
<1>2. Chunk("json", a) \in Chunks
  BY DEF Chunk, Chunks, ChunkKind
<1>3. send_json_response(s, a) =
        IF s.closed \/ s.json_response_started THEN s
        ELSE [w EXCEPT !.json_response_started = TRUE, !.timer = FALSE,
                       !.writing = Chunk("json", a)]
  BY DEF send_json_response
<1> HIDE DEF w
<1> QED
  BY <1>1, <1>2, <1>3, ZenonT(60) DEF Sessions, SameWrites

\* What serializes a snapshot yields an answer.
LEMMA AnswersTyped ==
  ASSUME NEW snap \in Snaps
  PROVE  serialize_infer_response(snap) \in Answers /\ serialize_terminal_event(snap) \in Answers
<1>1. Outcome(snap) \in [state : RequestState, output : BOOLEAN, error : Codes]
  BY DEF Outcome, Snaps
<1>2. http_status_for_snapshot(snap) \in Int
  BY DEF http_status_for_snapshot
<1> QED
  BY <1>1, <1>2 DEF serialize_infer_response, serialize_terminal_event, Answers

\* A sequence over a set is one over every larger set.
LEMMA SeqGrows ==
  ASSUME NEW A, NEW B, A \subseteq B, NEW q \in Seq(A)
  PROVE  q \in Seq(B)
  OBVIOUS

-----------------------------------------------------------------------------

Ended(r) == is_terminal_state(r.state)

\* The snapshots of request r that its observers may have been given.
Past(r) == {s \in Snaps : Ended(s) => s = r}

\* The chunks that may be written about request r.
Good(r) ==
  {c \in Chunks :
     /\ c.kind \in {"terminal", "end", "json"} => Ended(r)
     /\ c.kind = "terminal" => c.answer = serialize_terminal_event(r)
     /\ c.kind = "json" => c.answer = serialize_infer_response(r)}

TypeInv ==
  /\ pc \in {"accepting", "reading", "starting", "watched", "unwatched", "done"}
  /\ session \in Sessions
  /\ request \in Snaps
  /\ callback \in Seq(Snaps)
  /\ posted \in Seq(Snaps)
  /\ wire \in Seq(Chunks)
  /\ server \in {"running", "stopped"}

\* Nothing was written and nothing is watched.
Fresh ==
  /\ ~session.closed /\ ~session.armed /\ ~session.response_started
  /\ ~session.json_response_started
  /\ session.writing = NoWrite /\ session.write_queue = <<>> /\ wire = <<>>

\* Before a request is submitted, and while it is.
StartInv ==
  /\ ~has_active_request => /\ posted = <<>> /\ callback = <<>> /\ ~session.armed
                            /\ ~session.timer
                            /\ request.state = "Received"
  /\ pc \in {"accepting", "reading"} /\ Running => Fresh /\ ~session.stream_mode
  /\ pc = "starting" => Running /\ Fresh
  /\ pc # "accepting" /\ ~session.closed => session.registered

\* While there is a request: every answer is made of the state it ended in, a
\* closed session has ended it, and one that goes on is watched until the
\* stream has begun.
ActiveInv ==
  has_active_request =>
    /\ request.state # "Received"
    /\ posted \in Seq(Past(request)) /\ callback \in Seq(Past(request))
    /\ wire \in Seq(Good(request)) /\ Writes(session, Good(request))
    /\ pc = "unwatched" => Ended(request)
    /\ session.closed => Ended(request)
    /\ pc = "watched" /\ ~Ended(request) /\ ~session.response_started =>
         session.armed /\ session.active
    /\ ~Running /\ ~Ended(request) => StreamAbandoned

IInv == TypeInv /\ StartInv /\ ActiveInv /\ SilentClientKept

\* "Nothing is being written" is a legitimate content of the write slot.
LEMMA NoWriteGood == \A r : NoWrite \in Good(r) /\ NoWrite \in Chunks
  BY DEF NoWrite, Chunk, Status, Good, Chunks, ChunkKind, Answers, Nothing

\* The accepted connection satisfies the invariant.
LEMMA InitInv == Init => IInv
<1> SUFFICES ASSUME Init PROVE IInv
  OBVIOUS
<1>1. NewSession \in Sessions
  BY NoWriteGood DEF NewSession, Sessions
<1>2. /\ session.closed = FALSE /\ session.armed = FALSE /\ session.response_started = FALSE
      /\ session.json_response_started = FALSE /\ session.writing = NoWrite
      /\ session.timer = FALSE /\ session.stream_mode = FALSE /\ session.write_queue = <<>>
  BY DEF Init, NewSession
<1>3. request \in Snaps /\ request.state = "Received"
  BY DEF Init, Snapshot, Snaps, RequestState, Codes
<1> QED
  BY <1>1, <1>2, <1>3 DEF Init, IInv, TypeInv, StartInv, ActiveInv, SilentClientKept, Fresh,
     has_active_request, Running

\* Once a request that had not ended moves on, what was said of it before
\* still may be said.
LEMMA MovesOn ==
  ASSUME NEW r \in Snaps, ~Ended(r), NEW t \in Snaps
  PROVE  Past(r) \subseteq Past(t) /\ Good(r) \subseteq Good(t)
  BY DEF Past, Good

\* A request that ended moves no more, and one that has not may be cancelled.
LEMMA Transitions ==
  ASSUME NEW s \in RequestState, NEW t
  PROVE  /\ is_valid_transition(s, t) => ~is_terminal_state(s) /\ t # "Received"
         /\ ~is_terminal_state(s) => is_valid_transition(s, "Cancelled")
  BY DEF is_valid_transition, is_terminal_state, Successors, RequestState, TerminalState

\* try_end() leaves the request alone or ends it, and then posts the end.
LEMMA TryEndEnds ==
  ASSUME TypeInv, has_active_request, posted \in Seq(Past(request)),
         NEW to \in {"Cancelled", "TimedOut"}, try_end(to)
  PROVE  /\ request' \in Snaps /\ posted' \in Seq(Snaps)
         /\ posted' \in Seq(Past(request'))
         /\ \/ request' = request /\ posted' = posted
            \/ /\ ~Ended(request) /\ Ended(request') /\ request'.state = to
               /\ posted' # <<>>
         /\ to = "Cancelled" => Ended(request')
<1>1. CASE is_valid_transition(request.state, to)
  <2>1. request' = Snapshot(to, to) /\ posted' = Append(posted, request')
    BY <1>1 DEF try_end
  <2>2. request' \in Snaps /\ Ended(request') /\ request'.state = to
    BY <2>1 DEF Snapshot, Snaps, Codes, RequestState, Ended, is_terminal_state, TerminalState
  <2>3. ~Ended(request)
    BY <1>1, Transitions DEF TypeInv, Snaps, Ended
  <2>4. Past(request) \subseteq Past(request') /\ request' \in Past(request')
    BY <2>2, <2>3, MovesOn DEF TypeInv, Past
  <2>5. posted \in Seq(Past(request')) /\ posted \in Seq(Snaps)
    BY <2>4, SeqGrows DEF TypeInv
  <2> QED
    BY <2>1, <2>2, <2>3, <2>4, <2>5
<1>2. CASE ~is_valid_transition(request.state, to)
  <2>1. request' = request /\ posted' = posted
    BY <1>2 DEF try_end
  <2>2. to = "Cancelled" => Ended(request)
    BY <1>2, Transitions DEF TypeInv, Snaps, Ended
  <2> QED
    BY <2>1, <2>2 DEF TypeInv
<1> QED
  BY <1>1, <1>2

\* What is about a request that had not ended or has not changed still is.
LEMMA StillGood ==
  ASSUME TypeInv, request' \in Snaps, request' = request \/ ~Ended(request)
  PROVE  /\ Past(request) \subseteq Past(request')
         /\ Good(request) \subseteq Good(request')
         /\ \A q : q \in Seq(Good(request)) => q \in Seq(Good(request'))
         /\ \A q : q \in Seq(Past(request)) => q \in Seq(Past(request'))
<1>1. Past(request) \subseteq Past(request') /\ Good(request) \subseteq Good(request')
  BY MovesOn DEF TypeInv
<1> QED
  BY <1>1, SeqGrows

\* What every handler that runs during an exchange does.
LEMMA HandlerKeeps ==
  ASSUME IInv, pc \in {"watched", "unwatched", "done"},
         UNCHANGED <<pc, callback, peer>>,
         server' = server \/ ~Running', server' \in {"running", "stopped"},
         session' \in Sessions, request' \in Snaps, posted' \in Seq(Snaps),
         wire' \in Seq(Chunks),
         request' = request \/ (has_active_request /\ ~Ended(request) /\ Ended(request')),
         ~has_active_request =>
           posted' = posted /\ session'.armed = session.armed /\ ~session'.timer,
         has_active_request =>
           /\ posted' \in Seq(Past(request')) /\ Writes(session', Good(request'))
           /\ wire' \in Seq(Good(request'))
           /\ session'.closed => Ended(request')
           /\ (session.armed /\ session.active /\ ~Ended(request')
                 /\ ~session'.response_started) => session'.armed /\ session'.active
           /\ session.response_started => session'.response_started
           /\ ~Running' /\ ~Ended(request') => StreamAbandoned',
         ~session'.closed => session'.registered = session.registered /\ ~session.closed,
         request'.state = "Cancelled" => request' = request \/ peer # "open" \/ ~Running'
  PROVE  IInv'
<1>1. TypeInv'
  BY DEF IInv, TypeInv
<1>2. StartInv'
  BY DEF IInv, TypeInv, StartInv, has_active_request, Sessions
<1>3. SilentClientKept'
  BY DEF IInv, SilentClientKept, Running, TypeInv
<1>4. ActiveInv'
  <2> SUFFICES ASSUME has_active_request PROVE ActiveInv'
    BY DEF ActiveInv, has_active_request
  <2>1. request'.state # "Received"
    BY DEF IInv, ActiveInv, Ended, is_terminal_state, TerminalState
  <2>2. callback' \in Seq(Past(request'))
    BY StillGood DEF IInv, ActiveInv
  <2>3. /\ pc' = "unwatched" => Ended(request')
        /\ pc' = "watched" /\ ~Ended(request') /\ ~session'.response_started =>
             session'.armed /\ session'.active
    BY DEF IInv, ActiveInv
  <2> QED
    BY <2>1, <2>2, <2>3, Zenon DEF ActiveInv, Ended
<1> QED
  BY <1>1, <1>2, <1>3, <1>4 DEF IInv

\* on_disconnect(): the session is closed, and the request it had has ended.
LEMMA DisconnectEnds ==
  ASSUME TypeInv, has_active_request => posted \in Seq(Past(request)),
         NEW s \in Sessions, on_disconnect(s)
  PROVE  /\ session' \in Sessions /\ SameWrites(s, session') /\ session'.closed
         /\ session'.armed = s.armed /\ (s.timer = FALSE => session'.timer = FALSE)
         /\ request' \in Snaps /\ posted' \in Seq(Snaps)
         /\ request' = request \/ (has_active_request /\ ~Ended(request) /\ Ended(request'))
         /\ ~has_active_request => posted' = posted
         /\ has_active_request => posted' \in Seq(Past(request')) /\ Ended(request')
<1>1. /\ session' \in Sessions /\ SameWrites(s, session') /\ session'.closed
      /\ session'.armed = s.armed /\ (s.timer = FALSE => session'.timer = FALSE)
  <2> DEFINE w == stop_disconnect_watch(s)
  <2>1. w \in Sessions /\ SameWrites(s, w) /\ w.armed = s.armed /\ w.timer = s.timer
    BY WatchStopped, Zenon
  <2>2. session' = close(w)
    BY DEF on_disconnect
  <2> HIDE DEF w
  <2> QED
    BY <2>1, <2>2, CloseCloses, Zenon DEF SameWrites
<1>2. CASE has_active_request
  <2>1. try_end("Cancelled")
    BY <1>2 DEF on_disconnect
  <2> QED
    BY <1>1, <1>2, <2>1, TryEndEnds
<1>3. CASE ~has_active_request
  BY <1>1, <1>3 DEF on_disconnect, TypeInv
<1> QED
  BY <1>2, <1>3, Zenon

\* The chunks that tell of a past snapshot are legitimate to write.
LEMMA EventGood ==
  ASSUME NEW r \in Snaps, NEW snap \in Past(r)
  PROVE  /\ EventOf(snap) \in Seq(Good(r))
         /\ Chunk("headers", Status(200)) \in Good(r)
<1>1. \A k \in {"headers", "state"} : Chunk(k, Status(200)) \in Good(r)
  BY DEF Chunk, Status, Good, Chunks, ChunkKind, Answers, Nothing
<1>2. CASE Ended(snap)
  <2>1. snap = r
    BY <1>2 DEF Past
  <2>2. Chunk("terminal", serialize_terminal_event(snap)) \in Good(r)
    BY <1>2, <2>1, AnswersTyped DEF Chunk, Good, Chunks, ChunkKind
  <2>3. Chunk("end", Status(200)) \in Good(r)
    BY <1>2, <2>1 DEF Chunk, Status, Good, Chunks, ChunkKind, Answers, Nothing
  <2> QED
    BY <1>1, <1>2, <2>2, <2>3 DEF EventOf, Ended
<1>3. CASE ~Ended(snap)
  BY <1>1, <1>3 DEF EventOf, Ended
<1> QED
  BY <1>2, <1>3

\* on_state_update() writes only what is good of the request.
LEMMA UpdateKeeps ==
  ASSUME NEW s \in Sessions, NEW r \in Snaps, NEW snap \in Past(r), Writes(s, Good(r))
  PROVE  LET t == on_state_update(s, snap)
         IN  /\ t \in Sessions /\ Writes(t, Good(r))
             /\ t.closed = s.closed /\ t.armed = s.armed /\ t.registered = s.registered
             /\ s.response_started => t.response_started
             /\ s.active /\ ~Ended(r) /\ ~t.response_started => t.active
<1> DEFINE t == on_state_update(s, snap)
<1>0. NoWrite \in Good(r) /\ Good(r) \subseteq Chunks /\ snap \in Snaps
  BY NoWriteGood DEF Good, Past
<1>1. CASE s.closed
  BY <1>1, Zenon DEF on_state_update
<1>2. CASE ~s.closed /\ s.stream_mode
  <2> DEFINE header == IF s.response_started THEN <<>> ELSE <<Chunk("headers", Status(200))>>
             u == [s EXCEPT !.response_started = TRUE]
             begun == IF s.response_started THEN s ELSE stop_disconnect_watch(u)
             written == queue_write(begun, header \o EventOf(snap))
             v == stop_disconnect_watch(written)
  <2>1. t = IF Ended(snap) THEN [v EXCEPT !.timer = FALSE] ELSE written
    BY <1>2 DEF on_state_update, stream_update, Ended
  <2>2. u \in Sessions /\ Writes(u, Good(r)) /\ SameWatch(s, u) /\ u.response_started
    BY Zenon DEF Sessions, Writes, SameWatch
  <2>3. /\ begun \in Sessions /\ Writes(begun, Good(r)) /\ begun.closed = s.closed
        /\ begun.armed = s.armed /\ begun.registered = s.registered /\ begun.response_started
    BY <2>2, WatchStopped, ZenonT(60) DEF Writes, SameWrites, SameWatch
  <2>4. header \o EventOf(snap) \in Seq(Good(r))
    <3>1. header \in Seq(Good(r)) /\ EventOf(snap) \in Seq(Good(r))
      BY EventGood
    <3> HIDE DEF header
    <3> QED
      BY <3>1
  <2> HIDE DEF header, u, begun
  <2>5. /\ written \in Sessions /\ Writes(written, Good(r)) /\ SameWatch(begun, written)
        /\ written.response_started = begun.response_started
    BY <1>0, <2>3, <2>4, QueueWriteAdds, Zenon
  <2> HIDE DEF written
  <2>6. /\ v \in Sessions /\ Writes(v, Good(r)) /\ v.response_started
        /\ v.closed = s.closed /\ v.armed = s.armed /\ v.registered = s.registered
    BY <2>3, <2>5, WatchStopped, Zenon DEF Writes, SameWrites, SameWatch
  <2> HIDE DEF v
  <2>7. LET x == [v EXCEPT !.timer = FALSE]
        IN  /\ x \in Sessions /\ Writes(x, Good(r)) /\ x.response_started
            /\ x.closed = s.closed /\ x.armed = s.armed /\ x.registered = s.registered
    BY <2>6, Zenon DEF Sessions, Writes
  <2> HIDE DEF t
  <2>8. /\ t \in Sessions /\ Writes(t, Good(r)) /\ t.response_started
        /\ t.closed = s.closed /\ t.armed = s.armed /\ t.registered = s.registered
    BY <2>1, <2>3, <2>5, <2>7, Zenon DEF SameWatch
  <2> QED
    BY <2>8 DEF t
<1>3. CASE ~s.closed /\ ~s.stream_mode
  <2>1. CASE ~Ended(snap)
    BY <1>3, <2>1 DEF on_state_update, json_update, Ended
  <2>2. CASE Ended(snap)
    <3> DEFINE u == stop_disconnect_watch(s)
               v == [u EXCEPT !.timer = FALSE]
               a == serialize_infer_response(snap)
    <3>1. snap = r
      BY <2>2 DEF Past
    <3>2. t = send_json_response(v, a)
      BY <1>3, <2>2 DEF on_state_update, json_update, Ended
    <3>3. /\ u \in Sessions /\ SameWrites(s, u) /\ u.closed = s.closed /\ u.armed = s.armed
          /\ u.registered = s.registered
      BY WatchStopped, Zenon
    <3> HIDE DEF u
    <3>4. /\ v \in Sessions /\ SameWrites(s, v) /\ v.closed = s.closed /\ v.armed = s.armed
          /\ v.registered = s.registered
      BY <3>3, ZenonT(60) DEF Sessions, SameWrites
    <3>5. a \in Answers /\ Chunk("json", a) \in Good(r)
      BY <1>0, <2>2, <3>1, AnswersTyped DEF Chunk, Good, Chunks, ChunkKind
    <3> HIDE DEF v, a, t
    <3>6. /\ t \in Sessions /\ Writes(t, Good(r)) /\ t.response_started = s.response_started
          /\ t.closed = s.closed /\ t.armed = s.armed /\ t.registered = s.registered
      BY <3>2, <3>4, <3>5, JsonSent, Zenon DEF SameWrites, Writes
    <3> QED
      BY <2>2, <3>1, <3>6 DEF t
  <2> QED
    BY <2>1, <2>2
<1> QED
  BY <1>1, <1>2, <1>3

\* No handler but accept and read runs before the exchange.
LEMMA NotYet ==
  ASSUME IInv, CanHandle,
         posted # <<>> \/ session.armed \/ session.timer \/ session.writing # NoWrite
  PROVE  pc \in {"watched", "unwatched", "done"}
  BY Zenon DEF IInv, TypeInv, StartInv, Fresh, CanHandle, has_active_request

\* on_state_update, run on the io thread, preserves the invariant.
LEMMA UpdateStep == IInv /\ OnStateUpdate => IInv'
<1> SUFFICES ASSUME IInv, OnStateUpdate PROVE IInv'
  OBVIOUS
<1>1. posted # <<>> /\ pc \in {"watched", "unwatched", "done"} /\ Running
  BY NotYet DEF OnStateUpdate, CanHandle
<1>2. has_active_request
  BY <1>1 DEF IInv, StartInv
<1>3. posted \in Seq(Past(request)) /\ posted \in Seq(Snaps) /\ session \in Sessions
      /\ request \in Snaps /\ Writes(session, Good(request))
  BY <1>2 DEF IInv, TypeInv, ActiveInv
<1> DEFINE snap == Head(posted)
<1>4. snap \in Past(request) /\ Tail(posted) \in Seq(Past(request)) /\ Tail(posted) \in Seq(Snaps)
  BY <1>1, <1>3
<1>5. /\ session' = on_state_update(session, snap) /\ posted' = Tail(posted)
      /\ UNCHANGED <<pc, request, callback, peer, wire, server>>
  BY DEF OnStateUpdate
<1> HIDE DEF snap
<1>6. /\ session' \in Sessions /\ Writes(session', Good(request))
      /\ session'.closed = session.closed /\ session'.armed = session.armed
      /\ session'.registered = session.registered
      /\ session.response_started => session'.response_started
      /\ session.active /\ ~Ended(request) /\ ~session'.response_started => session'.active
  BY <1>3, <1>4, <1>5, UpdateKeeps, ZenonT(60)
<1>7. /\ wire' \in Seq(Good(request)) /\ wire' \in Seq(Chunks)
      /\ session'.closed => Ended(request)
      /\ server \in {"running", "stopped"} /\ Running'
  BY <1>1, <1>2, <1>5, <1>6 DEF IInv, TypeInv, ActiveInv, Running
<1> QED
  BY <1>1, <1>2, <1>3, <1>4, <1>5, <1>6, <1>7, HandlerKeeps, ZenonT(60)

\* The completion of the wait on the socket preserves the invariant.
LEMMA PeerWaitStep == IInv /\ OnPeerWait => IInv'
<1> SUFFICES ASSUME IInv, OnPeerWait PROVE IInv'
  OBVIOUS
<1> DEFINE fired == [session EXCEPT !.armed = FALSE]
<1>1. /\ session.armed /\ pc \in {"watched", "unwatched", "done"} /\ Running
      /\ UNCHANGED <<pc, callback, peer, wire, server>>
  BY NotYet DEF OnPeerWait, CanHandle
<1>2. has_active_request
  BY <1>1 DEF IInv, StartInv
<1>3. /\ posted \in Seq(Past(request)) /\ posted \in Seq(Snaps) /\ session \in Sessions
      /\ request \in Snaps /\ Writes(session, Good(request))
      /\ wire \in Seq(Good(request)) /\ wire \in Seq(Chunks)
      /\ server \in {"running", "stopped"} /\ Running'
      /\ session.closed => Ended(request)
  BY <1>1, <1>2 DEF IInv, TypeInv, ActiveInv, Running
<1>4. /\ fired \in Sessions /\ SameWrites(session, fired) /\ fired.closed = session.closed
      /\ fired.registered = session.registered /\ fired.active = session.active
      /\ fired.armed = FALSE
  BY <1>3, Zenon DEF Sessions, SameWrites
<1>5. CASE session.closed \/ ~session.active
  <2>1. session' = fired /\ request' = request /\ posted' = posted
    BY <1>5 DEF OnPeerWait
  <2> HIDE DEF fired
  <2>2. Writes(session', Good(request)) /\ session'.response_started = session.response_started
    BY <1>3, <1>4, <2>1, Zenon DEF Writes, SameWrites
  <2> QED
    BY <1>1, <1>2, <1>3, <1>4, <1>5, <2>1, <2>2, HandlerKeeps, ZenonT(60)
<1>6. CASE ~(session.closed \/ ~session.active) /\ PeerGone
  <2>1. on_disconnect(fired)
    BY <1>6 DEF OnPeerWait
  <2> HIDE DEF fired
  <2>2. /\ session' \in Sessions /\ SameWrites(fired, session') /\ session'.closed
        /\ request' \in Snaps /\ posted' \in Seq(Snaps)
        /\ request' = request \/ (~Ended(request) /\ Ended(request'))
        /\ posted' \in Seq(Past(request')) /\ Ended(request')
    BY <1>2, <1>3, <1>4, <2>1, DisconnectEnds, Zenon DEF IInv
  <2>3. Writes(session', Good(request')) /\ wire' \in Seq(Good(request'))
        /\ session'.response_started = session.response_started
    BY <1>1, <1>3, <1>4, <2>2, StillGood, Zenon DEF IInv, Writes, SameWrites
  <2> QED
    BY <1>1, <1>2, <1>3, <1>6, <2>2, <2>3, HandlerKeeps, ZenonT(60) DEF PeerGone
<1>7. CASE ~(session.closed \/ ~session.active) /\ ~PeerGone
  <2>1. session' = arm_disconnect_watch(fired) /\ request' = request /\ posted' = posted
    BY <1>7 DEF OnPeerWait
  <2> HIDE DEF fired
  <2>2. /\ session' \in Sessions /\ SameWrites(fired, session') /\ session'.closed = session.closed
        /\ session'.registered = session.registered /\ session'.armed /\ session'.active
    BY <1>4, <1>7, <2>1, ArmArms, Zenon
  <2>3. Writes(session', Good(request)) /\ session'.response_started = session.response_started
    BY <1>3, <1>4, <2>2, Zenon DEF Writes, SameWrites
  <2> QED
    BY <1>1, <1>2, <1>3, <1>7, <2>1, <2>2, <2>3, HandlerKeeps, Zenon
<1> QED
  BY <1>5, <1>6, <1>7

\* The poll timer preserves the invariant.
LEMMA TimerStep == IInv /\ TimerFires => IInv'
<1> SUFFICES ASSUME IInv, TimerFires PROVE IInv'
  OBVIOUS
<1>1. /\ session.timer /\ pc \in {"watched", "unwatched", "done"} /\ Running
      /\ session' = [session EXCEPT !.timer = FALSE] /\ try_end("TimedOut")
      /\ UNCHANGED <<pc, callback, peer, wire, server>>
  BY NotYet DEF TimerFires, CanHandle
<1>2. has_active_request
  BY <1>1 DEF IInv, StartInv
<1>3. /\ posted \in Seq(Past(request)) /\ session \in Sessions
      /\ request \in Snaps /\ Writes(session, Good(request))
      /\ wire \in Seq(Good(request)) /\ wire \in Seq(Chunks)
      /\ server \in {"running", "stopped"} /\ Running'
      /\ session.closed => Ended(request)
  BY <1>1, <1>2 DEF IInv, TypeInv, ActiveInv, Running
<1>4. /\ session' \in Sessions /\ SameWrites(session, session') /\ session'.closed = session.closed
      /\ session'.registered = session.registered /\ session'.active = session.active
      /\ session'.armed = session.armed
  BY <1>1, <1>3, Zenon DEF Sessions, SameWrites
<1>5. /\ request' \in Snaps /\ posted' \in Seq(Snaps) /\ posted' \in Seq(Past(request'))
      /\ \/ request' = request
         \/ ~Ended(request) /\ Ended(request') /\ request'.state = "TimedOut"
  BY <1>1, <1>2, <1>3, TryEndEnds, Zenon DEF IInv
<1>6. Writes(session', Good(request')) /\ wire' \in Seq(Good(request'))
      /\ session'.response_started = session.response_started
  BY <1>1, <1>3, <1>4, <1>5, StillGood DEF IInv, Writes, SameWrites
<1> QED
  BY <1>1, <1>2, <1>3, <1>4, <1>5, <1>6, HandlerKeeps, Zenon

\* A completed write, and the next one it starts, preserves the invariant.
LEMMA WriteStep == IInv /\ WriteSucceeds => IInv'
<1> SUFFICES ASSUME IInv, WriteSucceeds PROVE IInv'
  OBVIOUS
<1> DEFINE w == session.writing
<1>1. /\ w # NoWrite /\ ~session.closed /\ pc \in {"watched", "unwatched", "done"} /\ Running
      /\ wire' = Append(wire, w) /\ session' = written_ok(session, w.kind)
      /\ UNCHANGED <<pc, request, callback, posted, peer, server>>
  BY NotYet, Zenon DEF WriteSucceeds, CanHandle
<1>2. /\ session \in Sessions /\ request \in Snaps /\ w \in Chunks /\ posted \in Seq(Snaps)
      /\ wire' \in Seq(Chunks) /\ server \in {"running", "stopped"} /\ Running'
      /\ ~has_active_request => ~session.timer
  BY <1>1 DEF IInv, TypeInv, StartInv, Sessions, Running
<1>3. /\ session' \in Sessions
      /\ session'.response_started = session.response_started
      /\ session'.armed = session.armed
      /\ ~session.timer => ~session'.timer
      /\ IF EndsAnswer(w.kind) THEN session'.closed
         ELSE /\ session'.closed = session.closed /\ session'.active = session.active
              /\ session'.registered = session.registered
      /\ has_active_request => Writes(session', Good(request))
  <2>1. CASE EndsAnswer(w.kind)
    <3> DEFINE u == [session EXCEPT !.writing = NoWrite]
    <3>1. /\ u \in Sessions /\ u.write_queue = session.write_queue /\ u.writing = NoWrite
          /\ u.response_started = session.response_started /\ u.armed = session.armed
          /\ u.timer = session.timer
      BY <1>2, NoWriteGood, Zenon DEF Sessions
    <3>2. session' = close(u)
      BY <1>1, <2>1 DEF written_ok
    <3> HIDE DEF u
    <3>3. session' \in Sessions /\ SameWrites(u, session') /\ session'.closed
          /\ session'.armed = session.armed /\ (~session.timer => ~session'.timer)
      BY <1>2, <3>1, <3>2, CloseCloses, ZenonT(60) DEF Sessions
    <3> QED
      BY <2>1, <3>1, <3>3, NoWriteGood DEF SameWrites, Writes, IInv, ActiveInv
  <2>2. CASE ~EndsAnswer(w.kind)
    <3>1. session' = do_write(session)
      BY <1>1, <2>2 DEF written_ok
    <3>2. session.write_queue \in Seq(Chunks) /\ NoWrite \in Chunks
      BY <1>2, NoWriteGood, Zenon DEF Sessions
    <3>3. /\ session' \in Sessions /\ SameWatch(session, session')
          /\ session'.response_started = session.response_started
      BY <1>2, <3>1, <3>2, DoWriteTakes, Zenon
    <3>4. ASSUME has_active_request PROVE Writes(session', Good(request))
      <4>1. session.write_queue \in Seq(Good(request)) /\ Good(request) \subseteq Chunks
        BY <3>4, Zenon DEF IInv, ActiveInv, Writes, Good
      <4> QED
        BY <1>2, <3>1, <4>1, DoWriteTakes, NoWriteGood, Zenon
    <3> QED
      BY <2>2, <3>3, <3>4 DEF SameWatch
  <2> QED
    BY <2>1, <2>2, Zenon
<1>4. ASSUME has_active_request
      PROVE  /\ posted \in Seq(Past(request)) /\ wire' \in Seq(Good(request))
             /\ session'.closed => Ended(request)
             /\ EndsAnswer(w.kind) => Ended(request)
  <2>1. w \in Good(request) /\ wire \in Seq(Good(request)) /\ posted \in Seq(Past(request))
    BY <1>4 DEF IInv, ActiveInv, Writes
  <2>2. EndsAnswer(w.kind) => Ended(request)
    BY <2>1, Zenon DEF Good, EndsAnswer
  <2> QED
    BY <1>1, <1>3, <2>1, <2>2
<1>5. CASE EndsAnswer(w.kind)
  BY <1>1, <1>2, <1>3, <1>4, <1>5, HandlerKeeps, Zenon
<1>6. CASE ~EndsAnswer(w.kind)
  BY <1>1, <1>2, <1>3, <1>4, <1>6, HandlerKeeps, Zenon
<1> QED
  BY <1>5, <1>6

\* A failed write, which cancels the request and closes, preserves the invariant.
LEMMA WriteFailsStep == IInv /\ WriteFails => IInv'
<1> SUFFICES ASSUME IInv, WriteFails PROVE IInv'
  OBVIOUS
<1> DEFINE u == [session EXCEPT !.writing = NoWrite]
<1>1. /\ session.closed \/ peer = "gone"
      /\ pc \in {"watched", "unwatched", "done"} /\ Running /\ on_disconnect(u)
      /\ UNCHANGED <<pc, callback, peer, wire, server>>
  BY NotYet DEF WriteFails, CanHandle
<1>2. /\ session \in Sessions /\ request \in Snaps /\ wire \in Seq(Chunks)
      /\ server \in {"running", "stopped"} /\ Running'
      /\ ~has_active_request => ~session.timer
      /\ has_active_request =>
           /\ posted \in Seq(Past(request)) /\ Writes(session, Good(request))
           /\ wire \in Seq(Good(request)) /\ (session.closed => Ended(request))
  BY <1>1 DEF IInv, TypeInv, StartInv, ActiveInv, Running
<1>3. /\ u \in Sessions /\ u.write_queue = session.write_queue /\ u.writing = NoWrite
      /\ u.response_started = session.response_started /\ u.armed = session.armed
      /\ u.timer = session.timer
  BY <1>2, NoWriteGood, Zenon DEF Sessions
<1> HIDE DEF u
<1>4. /\ session' \in Sessions /\ SameWrites(u, session') /\ session'.closed
      /\ session'.armed = u.armed /\ (u.timer = FALSE => session'.timer = FALSE)
      /\ request' \in Snaps /\ posted' \in Seq(Snaps)
      /\ request' = request \/ (has_active_request /\ ~Ended(request) /\ Ended(request'))
      /\ ~has_active_request => posted' = posted
      /\ has_active_request => posted' \in Seq(Past(request')) /\ Ended(request')
  BY <1>1, <1>2, <1>3, DisconnectEnds, Zenon DEF IInv
<1>5. has_active_request => Writes(session', Good(request')) /\ wire' \in Seq(Good(request'))
  BY <1>1, <1>2, <1>3, <1>4, StillGood, NoWriteGood, Zenon DEF IInv, Writes, SameWrites
<1>6. request'.state = "Cancelled" => request' = request \/ peer # "open"
  BY <1>1, <1>2, <1>4, Zenon
<1>7. ~has_active_request => session'.timer = FALSE
  BY <1>2, <1>3, <1>4, Zenon DEF Sessions
<1>8. session.response_started => session'.response_started
  BY <1>3, <1>4 DEF SameWrites
<1> QED
  BY <1>1, <1>2, <1>3, <1>4, <1>5, <1>6, <1>7, <1>8, HandlerKeeps, Zenon

\* Stopping the server preserves the invariant.
LEMMA StopStep == IInv /\ Stop => IInv'
<1> SUFFICES ASSUME IInv, Stop PROVE IInv'
  OBVIOUS
<1>1. /\ Running /\ pc # "starting" /\ server' = "stopped" /\ ~Running'
      /\ UNCHANGED <<pc, callback, peer, wire>>
  BY Zenon DEF Stop, Running
<1>2. /\ session \in Sessions /\ request \in Snaps /\ wire \in Seq(Chunks)
      /\ posted \in Seq(Snaps)
      /\ ~has_active_request => ~session.timer /\ ~session.armed /\ posted = <<>>
      /\ has_active_request =>
           /\ posted \in Seq(Past(request)) /\ Writes(session, Good(request))
           /\ wire \in Seq(Good(request)) /\ (session.closed => Ended(request))
      /\ pc \in {"accepting", "reading"} => ~has_active_request /\ wire = <<>>
  BY <1>1 DEF IInv, TypeInv, StartInv, ActiveInv, has_active_request, Fresh
<1>3. CASE session.registered /\ Alive
  <2>1. on_disconnect(session)
    BY <1>3 DEF Stop
  <2>2. /\ session' \in Sessions /\ SameWrites(session, session') /\ session'.closed
        /\ session'.armed = session.armed /\ (session.timer = FALSE => session'.timer = FALSE)
        /\ request' \in Snaps /\ posted' \in Seq(Snaps)
        /\ request' = request \/ (has_active_request /\ ~Ended(request) /\ Ended(request'))
        /\ ~has_active_request => posted' = posted
        /\ has_active_request => posted' \in Seq(Past(request')) /\ Ended(request')
    BY <1>2, <2>1, DisconnectEnds, Zenon DEF IInv
  <2>3. has_active_request => Writes(session', Good(request')) /\ wire' \in Seq(Good(request'))
    BY <1>1, <1>2, <2>2, StillGood, Zenon DEF IInv, Writes, SameWrites
  <2>4. ~has_active_request => session'.timer = FALSE
    BY <1>2, <2>2, Zenon DEF Sessions
  <2>5. session.response_started => session'.response_started
    BY <2>2, Zenon DEF SameWrites
  <2>6. CASE pc \in {"accepting", "reading"}
    <3>1. ~has_active_request /\ request' = request /\ posted' = posted /\ ~has_active_request'
      BY <1>1, <1>2, <2>2, <2>6, Zenon DEF has_active_request
    <3> QED
      BY <1>1, <1>2, <2>2, <2>4, <2>6, <3>1, Zenon
         DEF IInv, TypeInv, StartInv, ActiveInv, SilentClientKept
  <2>7. CASE pc \notin {"accepting", "reading"}
    <3>1. pc \in {"watched", "unwatched", "done"}
      BY <1>1, <2>7 DEF IInv, TypeInv
    <3> QED
      BY <1>1, <1>2, <2>2, <2>3, <2>4, <2>5, <3>1, HandlerKeeps, Zenon
  <2> QED
    BY <2>6, <2>7
<1>4. CASE ~(session.registered /\ Alive)
  <2>1. UNCHANGED <<session, request, posted>>
    BY <1>4, Zenon DEF Stop
  <2>2. TypeInv' /\ StartInv' /\ SilentClientKept'
    BY <1>1, <2>1, Zenon DEF IInv, TypeInv, StartInv, SilentClientKept, has_active_request, Fresh
  <2>3. ASSUME has_active_request, ~Ended(request) PROVE StreamAbandoned'
    <3>1. pc = "watched" /\ ~session.closed /\ session.registered /\ ~Alive
      BY <1>1, <1>4, <2>3, Zenon DEF IInv, TypeInv, StartInv, ActiveInv, has_active_request
    <3>2. session.response_started
      BY <2>3, <3>1, Zenon DEF IInv, ActiveInv, Alive
    <3> QED
      BY <1>1, <2>1, <3>1, <3>2, Zenon DEF StreamAbandoned, Alive
  <2>4. ActiveInv'
    BY <1>1, <2>1, <2>3 DEF IInv, ActiveInv, has_active_request, Ended
  <2> QED
    BY <2>2, <2>4 DEF IInv
<1> QED
  BY <1>3, <1>4

\* Accepting, reading, and answering at once.
LEMMA ReadStep == IInv /\ (OnAccept \/ ReadFails \/ AnswerAtOnce) => IInv'
<1> SUFFICES ASSUME IInv, OnAccept \/ ReadFails \/ AnswerAtOnce PROVE IInv'
  OBVIOUS
<1>1. /\ pc \in {"accepting", "reading"} /\ pc' \in {"reading", "done"} /\ Running
      /\ UNCHANGED <<request, callback, posted, peer, wire, server>>
  BY DEF OnAccept, ReadFails, AnswerAtOnce
<1>2. /\ ~has_active_request /\ ~has_active_request' /\ session \in Sessions
      /\ ~session.armed /\ ~session.timer /\ Fresh /\ ~session.stream_mode
  BY <1>1, Zenon DEF IInv, TypeInv, StartInv, has_active_request
<1>3. CASE OnAccept
  <2>1. session' = [session EXCEPT !.registered = TRUE] /\ pc' = "reading"
    BY <1>3 DEF OnAccept
  <2>2. /\ session' \in Sessions /\ SameWrites(session, session') /\ session'.closed = session.closed
        /\ session'.registered /\ session'.armed = session.armed /\ session'.timer = session.timer
    BY <1>2, <2>1, ZenonT(60) DEF Sessions, SameWrites
  <2> QED
    BY <1>1, <1>2, <2>1, <2>2, Zenon
       DEF IInv, TypeInv, StartInv, ActiveInv, SilentClientKept, Fresh, SameWrites, Running
<1>4. CASE ReadFails
  <2>1. session' = close(session) /\ pc' = "done"
    BY <1>4 DEF ReadFails
  <2>2. /\ session' \in Sessions /\ session'.closed
        /\ session'.armed = session.armed /\ ~session'.timer
    BY <1>2, <2>1, CloseCloses, Zenon DEF Sessions
  <2> QED
    BY <1>1, <1>2, <2>1, <2>2
       DEF IInv, TypeInv, StartInv, ActiveInv, SilentClientKept, Running
<1>5. CASE AnswerAtOnce
  <2>1. PICK code \in Int : session' = send_json_response(session, Status(code))
    <3>1. \A t \in Targets, h \in BOOLEAN : handle_get(t, h) \in Int
      BY DEF handle_get, handle_health
    <3> QED
      BY <1>5, <3>1 DEF AnswerAtOnce
  <2>2. Status(code) \in Answers
    BY DEF Status, Answers
  <2>3. /\ session' \in Sessions /\ session'.closed = session.closed
        /\ session'.registered = session.registered /\ session'.armed = session.armed
        /\ ~session'.timer
    BY <1>2, <2>1, <2>2, JsonSent, Zenon
  <2>4. pc = "reading" /\ pc' = "done"
    BY <1>5 DEF AnswerAtOnce
  <2> QED
    BY <1>1, <1>2, <2>3, <2>4, ZenonT(60)
       DEF IInv, TypeInv, StartInv, ActiveInv, SilentClientKept, Running
<1> QED
  BY <1>3, <1>4, <1>5

\* What submit notifies ends with the state of the request, which nobody cancelled yet.
LEMMA SubmissionsGood ==
  ASSUME NEW q \in Submissions
  PROVE  LET r == q[Len(q)]
         IN  /\ q \in Seq(Snaps) /\ r \in Snaps /\ q \in Seq(Past(r))
             /\ r.state \notin {"Received", "Cancelled"}
<1> DEFINE queued == Snapshot("Queued", "None")
           late == Snapshot("TimedOut", "TimedOut")
           stopped == Snapshot("Rejected", "RuntimeStopped")
           full == Snapshot("Rejected", "QueueFull")
<1>1. /\ {queued, late, stopped, full} \subseteq Snaps
      /\ ~Ended(queued)
      /\ \A r \in {queued, late, stopped, full} : r.state \notin {"Received", "Cancelled"}
  BY DEF Snapshot, Snaps, Codes, RejectCodes, RequestState, Ended, is_terminal_state, TerminalState
<1>2. q \in {<<queued>>, <<late>>, <<stopped>>, <<queued, stopped>>, <<queued, full>>}
  BY DEF Submissions
<1> HIDE DEF queued, late, stopped, full
<1>3. \A r \in {queued, late, stopped, full} : r \in Past(r) /\ queued \in Past(r)
  BY <1>1 DEF Past
<1>4. ASSUME NEW a \in {queued, late, stopped}, q = <<a>>
      PROVE  LET r == q[Len(q)]
             IN  /\ q \in Seq(Snaps) /\ r \in Snaps /\ q \in Seq(Past(r))
                 /\ r.state \notin {"Received", "Cancelled"}
  <2>1. q[Len(q)] = a /\ q \in Seq(Snaps) /\ q \in Seq(Past(a)) /\ a \in Snaps
    BY <1>1, <1>3, <1>4
  <2> QED
    BY <1>1, <2>1
<1>5. ASSUME NEW a \in {stopped, full}, q = <<queued, a>>
      PROVE  LET r == q[Len(q)]
             IN  /\ q \in Seq(Snaps) /\ r \in Snaps /\ q \in Seq(Past(r))
                 /\ r.state \notin {"Received", "Cancelled"}
  <2>1. a \in Snaps /\ queued \in Snaps /\ a \in Past(a) /\ queued \in Past(a)
    BY <1>1, <1>3
  <2>2. q[Len(q)] = a /\ q \in Seq(Snaps) /\ q \in Seq(Past(a))
    BY <1>5, <2>1
  <2> QED
    BY <1>1, <2>1, <2>2
<1> QED
  BY <1>2, <1>4, <1>5

\* Submitting the request preserves the invariant.
LEMMA StartStep == IInv /\ StartInfer => IInv'
<1> SUFFICES ASSUME IInv, StartInfer PROVE IInv'
  OBVIOUS
<1>1. /\ pc = "reading" /\ Running /\ posted' \in Submissions /\ request' = posted'[Len(posted')]
      /\ pc' = "starting" /\ UNCHANGED <<callback, peer, wire, server>>
  BY SMTT(60) DEF StartInfer
<1>2. PICK stream \in BOOLEAN :
        session' = [session EXCEPT !.stream_mode = stream, !.timer = TRUE]
  BY Zenon DEF StartInfer
<1>3. session \in Sessions /\ Fresh /\ callback = <<>> /\ (~session.closed => session.registered)
  BY <1>1 DEF IInv, TypeInv, StartInv, has_active_request
<1>4. /\ session' \in Sessions /\ session'.closed = session.closed
      /\ session'.armed = session.armed /\ session'.registered = session.registered
      /\ session'.writing = session.writing /\ session'.write_queue = session.write_queue
      /\ session'.response_started = session.response_started
      /\ session'.json_response_started = session.json_response_started
  BY <1>2, <1>3, Zenon DEF Sessions
<1>5. /\ posted' \in Seq(Snaps) /\ request' \in Snaps /\ posted' \in Seq(Past(request'))
      /\ request'.state \notin {"Received", "Cancelled"}
  BY <1>1, SubmissionsGood, Zenon
<1>6. Fresh'
  BY <1>1, <1>3, <1>4, Zenon DEF Fresh
<1>7. TypeInv' /\ StartInv' /\ SilentClientKept'
  BY <1>1, <1>3, <1>4, <1>5, <1>6, Zenon
     DEF IInv, TypeInv, StartInv, SilentClientKept, has_active_request, Running
<1>8. ActiveInv'
  <2>1. callback' \in Seq(Past(request')) /\ wire' \in Seq(Good(request'))
        /\ Writes(session', Good(request'))
    BY <1>1, <1>3, <1>6, NoWriteGood DEF Fresh, Writes
  <2> QED
    BY <1>1, <1>5, <1>6, <2>1, Zenon DEF ActiveInv, Fresh, Running
<1> QED
  BY <1>7, <1>8 DEF IInv

\* The end of start_infer, after the callback is set, preserves the invariant.
LEMMA FinishStep == IInv /\ FinishStart => IInv'
<1> SUFFICES ASSUME IInv, FinishStart PROVE IInv'
  OBVIOUS
<1>1. /\ pc = "starting" /\ UNCHANGED <<request, callback, posted, peer, wire, server>>
      /\ \/ Ended(request) /\ pc' = "unwatched" /\ session' = session
         \/ ~Ended(request) /\ pc' = "watched" /\ session' = arm_disconnect_watch(session)
  BY Zenon DEF FinishStart, Ended
<1>2. /\ has_active_request /\ has_active_request' /\ session \in Sessions /\ Fresh /\ Running
      /\ session.registered
  BY <1>1, Zenon DEF IInv, TypeInv, StartInv, has_active_request, Fresh
<1>3. /\ session' \in Sessions /\ SameWrites(session, session') /\ session'.closed = session.closed
      /\ session'.registered = session.registered
      /\ pc' = "watched" => session'.armed /\ session'.active
  <2>1. CASE session' = session /\ pc' = "unwatched"
    BY <1>2, <2>1, Zenon DEF SameWrites
  <2>2. CASE session' = arm_disconnect_watch(session)
    BY <1>2, <2>2, ArmArms, ZenonT(60) DEF Fresh
  <2> QED
    BY <1>1, <2>1, <2>2
<1>4. TypeInv' /\ StartInv' /\ SilentClientKept'
  BY <1>1, <1>2, <1>3, Zenon DEF IInv, TypeInv, StartInv, SilentClientKept, Running
<1>5. ActiveInv'
  BY <1>1, <1>2, <1>3, Zenon DEF IInv, ActiveInv, SameWrites, Writes, Running, Fresh, Ended
<1> QED
  BY <1>4, <1>5 DEF IInv

\* A step of the runtime on the request preserves the invariant.
LEMMA RuntimeStep == IInv /\ RuntimeMoves => IInv'
<1> SUFFICES ASSUME IInv, RuntimeMoves PROVE IInv'
  OBVIOUS
<1>1. /\ has_active_request /\ has_active_request' /\ callback' = <<request'>>
      /\ is_valid_transition(request.state, request'.state)
      /\ UNCHANGED <<pc, session, posted, peer, wire, server>>
  BY Zenon DEF RuntimeMoves, has_active_request
<1>2. request' \in Snaps /\ request'.state # "Cancelled"
  BY DEF RuntimeMoves, Snapshot, Snaps, Codes, RejectCodes, FailCodes, RequestState
<1>3. ~Ended(request) /\ request'.state # "Received"
  BY <1>1, Transitions, ZenonT(60) DEF IInv, TypeInv, Snaps, Ended
<1>4. TypeInv' /\ StartInv' /\ SilentClientKept'
  BY <1>1, <1>2, <1>3
     DEF IInv, TypeInv, StartInv, SilentClientKept, Fresh, Running
<1>5. ActiveInv'
  <2>1. /\ posted' \in Seq(Past(request')) /\ wire' \in Seq(Good(request'))
        /\ Writes(session', Good(request'))
    BY <1>1, <1>2, <1>3, StillGood, Zenon DEF IInv, ActiveInv, Writes
  <2>2. callback' \in Seq(Past(request'))
    BY <1>1, <1>2 DEF Past
  <2>3. /\ ~session'.closed /\ pc' # "unwatched"
        /\ pc' = "watched" /\ ~session'.response_started => session'.armed /\ session'.active
    BY <1>1, <1>3, Zenon DEF IInv, ActiveInv
  <2>4. ~Running' => StreamAbandoned'
    BY <1>1, <1>3 DEF IInv, ActiveInv, Running, StreamAbandoned, Alive
  <2> QED
    BY <1>3, <2>1, <2>2, <2>3, <2>4, Zenon DEF ActiveInv
<1> QED
  BY <1>4, <1>5 DEF IInv

\* The concatenation of two sequences over a set is a sequence over it.
LEMMA ConcatIn ==
  ASSUME NEW A, NEW q \in Seq(A), NEW r \in Seq(A)
  PROVE  q \o r \in Seq(A) /\ <<>> \in Seq(A)
  OBVIOUS

\* The callback on a worker thread and the moves of the client preserve the invariant.
LEMMA ObserveStep == IInv /\ (Observe \/ PeerActs \/ UNCHANGED vars) => IInv'
<1> SUFFICES ASSUME IInv, Observe \/ PeerActs \/ UNCHANGED vars PROVE IInv'
  BY Zenon
<1>1. /\ UNCHANGED <<pc, session, request, wire, server>>
      /\ peer' = peer \/ (peer = "open" /\ peer' # "open")
  BY Zenon DEF Observe, PeerActs, vars
<1>2. \/ UNCHANGED <<posted, callback>>
      \/ /\ has_active_request /\ callback' = <<>>
         /\ posted' = posted \/ (Alive /\ posted' = posted \o callback)
  BY Zenon DEF Observe, PeerActs, vars, SessionGone, IInv, StartInv
<1>3. TypeInv'
  <2>1. posted \in Seq(Snaps) /\ callback \in Seq(Snaps)
    BY DEF IInv, TypeInv
  <2>2. posted' \in Seq(Snaps) /\ callback' \in Seq(Snaps)
    BY <1>2, <2>1, ConcatIn, ZenonT(60)
  <2> QED
    BY <1>1, <2>2 DEF IInv, TypeInv
<1>4. StartInv'
  BY <1>1, <1>2 DEF IInv, StartInv, Fresh, has_active_request, Running
<1>5. SilentClientKept'
  BY <1>1, Zenon DEF IInv, SilentClientKept, Running
<1>6. ActiveInv'
  <2> SUFFICES ASSUME has_active_request PROVE ActiveInv'
    BY <1>1 DEF ActiveInv, has_active_request
  <2>1. posted' \in Seq(Past(request)) /\ callback' \in Seq(Past(request))
    <3>1. posted \in Seq(Past(request)) /\ callback \in Seq(Past(request))
      BY DEF IInv, ActiveInv
    <3> QED
      BY <1>2, <3>1, ConcatIn, Zenon
  <2>2. ASSUME ~Running, ~Ended(request) PROVE StreamAbandoned'
    <3>1. StreamAbandoned /\ posted' = posted
      BY <1>2, <2>2, Zenon DEF IInv, ActiveInv, StreamAbandoned, Alive
    <3> QED
      BY <1>1, <3>1, Zenon DEF StreamAbandoned, Alive
  <2> QED
    BY <1>1, <2>1, <2>2, ZenonT(60) DEF IInv, ActiveInv, Running, Ended
<1> QED
  BY <1>3, <1>4, <1>5, <1>6, Zenon DEF IInv

\* Every step preserves the invariant.
LEMMA NextInv == IInv /\ [Next]_vars => IInv'
  BY SMTT(60), UpdateStep, PeerWaitStep, TimerStep, WriteStep, WriteFailsStep, StopStep, ReadStep, StartStep,
     FinishStep, RuntimeStep, ObserveStep DEF Next

\* No work is left behind: whatever closes or destroys a session or stops the
\* server, its request has ended, unless its stream was abandoned.
THEOREM NoWorkLeftBehindHolds == Spec => []NoWorkLeftBehind
<1>1. IInv => NoWorkLeftBehind
  <2> SUFFICES ASSUME IInv, has_active_request, pc # "starting", ~Ended(request),
                      session.closed \/ ~Alive \/ ~Running
               PROVE  StreamAbandoned
    BY Zenon DEF NoWorkLeftBehind, Ended
  <2>1. pc = "watched" /\ ~session.closed
    BY Zenon DEF IInv, ActiveInv, has_active_request
  <2>2. CASE ~Running
    BY <2>2, Zenon DEF IInv, ActiveInv
  <2>3. CASE ~Alive
    BY <2>1, <2>3, Zenon DEF IInv, ActiveInv, Alive, StreamAbandoned
  <2> QED
    BY <2>1, <2>2, <2>3, Zenon
<1> QED
  BY InitInv, NextInv, <1>1, PTL DEF Spec

\* The request of a client that stays connected and silent is never cancelled
\* while the server runs.
THEOREM SilentClientKeptHolds == Spec => []SilentClientKept
<1>1. IInv => SilentClientKept
  BY Zenon DEF IInv
<1> QED
  BY InitInv, NextInv, <1>1, PTL DEF Spec

\* Status and body of every answer agree with how the request ended.
THEOREM StatusTellsEndHolds == Spec => []StatusTellsEnd
<1>1. IInv => StatusTellsEnd
  <2> SUFFICES ASSUME IInv, has_active_request, NEW i \in DOMAIN wire,
                      wire[i].kind \in {"json", "terminal"}
               PROVE  LET answer == wire[i].answer
                      IN  /\ answer.outcome.error = request.code
                          /\ answer.outcome.output <=> request.state = "Completed"
                          /\ wire[i].kind = "json" =>
                               /\ answer.status = 200 <=> request.state = "Completed"
                               /\ answer.status = 504 <=> request.state = "TimedOut"
                               /\ request.code = "QueueFull" => answer.status = 503
    BY DEF StatusTellsEnd
  <2>0. /\ Outcome(request).error = request.code
        /\ Outcome(request).output <=> request.state = "Completed"
    BY Zenon DEF Outcome
  <2>1. wire[i] \in Good(request) /\ request \in Snaps
    BY DEF IInv, TypeInv, ActiveInv
  <2>2. CASE wire[i].kind = "json"
    <3>1. wire[i].answer = [status |-> http_status_for_snapshot(request),
                            outcome |-> Outcome(request)]
      BY <2>1, <2>2 DEF Good, serialize_infer_response
    <3>2. /\ http_status_for_snapshot(request) = 200 <=> request.state = "Completed"
          /\ http_status_for_snapshot(request) = 504 <=> request.state = "TimedOut"
          /\ request.code = "QueueFull" => http_status_for_snapshot(request) = 503
      BY <2>1 DEF http_status_for_snapshot, Snaps
    <3>3. /\ wire[i].answer.outcome = Outcome(request)
          /\ wire[i].answer.status = http_status_for_snapshot(request)
      BY <3>1
    <3> QED
      BY <2>0, <3>2, <3>3
  <2>3. CASE wire[i].kind = "terminal"
    <3>1. wire[i].answer.outcome = Outcome(request)
      BY <2>1, <2>3 DEF Good, serialize_terminal_event
    <3> QED
      BY <2>0, <2>3, <3>1, Zenon
  <2> QED
    BY <2>2, <2>3, ZenonT(60)
<1> QED
  BY InitInv, NextInv, <1>1, PTL DEF Spec

-----------------------------------------------------------------------------
(* The order of the chunks *)

\* What a session is writing and has yet to write.
Pending(s) == IF s.writing = NoWrite THEN <<>> ELSE <<s.writing>> \o s.write_queue

\* A well-formed beginning of an answer, with every terminal event completed.
ShapeAt(t, i) ==
  /\ t[i].kind # "none"
  /\ i = 1 <=> t[i].kind \in {"headers", "json"}
  /\ t[i].kind = "json" => Len(t) = 1
  /\ t[i].kind = "end" => i > 1 /\ t[i - 1].kind = "terminal"
  /\ t[i].kind = "terminal" => i < Len(t) /\ t[i + 1].kind = "end"

Shape(t) == \A i \in DOMAIN t : ShapeAt(t, i)

\* The part of OneAnswer that is about the order.
Ordered(t) ==
  \A i \in DOMAIN t :
    /\ (i = 1) <=> t[i].kind \in {"headers", "json"}
    /\ EndsAnswer(t[i].kind) => i = Len(t)
    /\ t[i].kind = "end" => t[i - 1].kind = "terminal"
    /\ t[i].kind = "terminal" => i + 1 >= Len(t)

\* Session s, which is not closed, goes on from what was sent.
GoesOn(s, sent) ==
  /\ Shape(sent)
  /\ s.writing = NoWrite => s.write_queue = <<>>
  /\ s.stream_mode =>
       /\ ~s.json_response_started
       /\ sent = <<>> <=> ~s.response_started
       /\ \A i \in DOMAIN sent : sent[i].kind # "json"
  /\ ~s.stream_mode =>
       /\ ~s.response_started
       /\ sent = <<>> <=> ~s.json_response_started

OrderInv ==
  /\ Ordered(wire)
  /\ ~session.closed => /\ \A i \in DOMAIN wire : ~EndsAnswer(wire[i].kind)
                        /\ GoesOn(session, wire \o Pending(session))

\* A handler that neither sends nor queues keeps the order.
LEMMA SamePending ==
  ASSUME OrderInv, wire' = wire, SameWrites(session, session'), session'.closed \/ ~session.closed
  PROVE  OrderInv'
<1>1. Pending(session') = Pending(session)
  BY DEF Pending, SameWrites
<1> DEFINE sent == wire \o Pending(session)
<1>2. wire' \o Pending(session') = sent
  BY <1>1, Zenon
<1>3. GoesOn(session, sent) => GoesOn(session', sent)
  BY DEF GoesOn, SameWrites
<1> HIDE DEF sent
<1>4. OrderInv <=> /\ Ordered(wire)
                   /\ ~session.closed => /\ \A i \in DOMAIN wire : ~EndsAnswer(wire[i].kind)
                                         /\ GoesOn(session, sent)
  BY DEF OrderInv, sent
<1>5. OrderInv' <=> /\ Ordered(wire')
                    /\ ~session'.closed => /\ \A i \in DOMAIN wire' : ~EndsAnswer(wire'[i].kind)
                                           /\ GoesOn(session', wire' \o Pending(session'))
  BY DEF OrderInv
<1> QED
  BY <1>2, <1>3, <1>4, <1>5, Zenon

\* Once the session is closed, a step that sends nothing keeps the order.
LEMMA ClosedOrder ==
  ASSUME OrderInv, wire' = wire, session'.closed
  PROVE  OrderInv'
  BY Zenon DEF OrderInv

\* Writing on moves a chunk from what is pending to the wire.
LEMMA DoWritePending ==
  ASSUME NEW s \in Sessions, \A i \in DOMAIN s.write_queue : s.write_queue[i].kind # "none"
  PROVE  LET t == do_write(s)
         IN  Pending(t) = s.write_queue /\ (t.writing = NoWrite => t.write_queue = <<>>)
<1> DEFINE q == s.write_queue
           t == do_write(s)
<1>0. q \in Seq(Chunks) /\ NoWrite.kind = "none"
  BY DEF Sessions, NoWrite, Chunk
<1>1. CASE q = <<>>
  BY <1>1, Zenon DEF do_write, Sessions, Pending
<1>2. CASE q # <<>>
  <2>1. t.writing = Head(q) /\ t.write_queue = Tail(q)
    BY <1>2 DEF do_write, Sessions
  <2>2. Head(q) # NoWrite
    BY <1>0, <1>2
  <2>3. <<Head(q)>> \o Tail(q) = q
    BY <1>0, <1>2
  <2> QED
    BY <2>1, <2>2, <2>3 DEF Pending
<1> QED
  BY <1>1, <1>2, Zenon

\* Concatenation of chunks associates.
LEMMA ChunksAssociate ==
  \A a, b, c \in Seq(Chunks) : (a \o b) \o c = a \o (b \o c)
  BY ConcatAssociative, SMTT(60)

\* queue_write adds its chunks at the end of all that is still to be written.
LEMMA QueuePending ==
  ASSUME NEW s \in Sessions, s.writing = NoWrite => s.write_queue = <<>>,
         NEW c \in Seq(Chunks), \A i \in DOMAIN c : c[i].kind # "none"
  PROVE  LET t == queue_write(s, c)
         IN  Pending(t) = Pending(s) \o c /\ (t.writing = NoWrite => t.write_queue = <<>>)
<1> DEFINE q == s.write_queue \o c
           u == [s EXCEPT !.write_queue = q]
           t == queue_write(s, c)
<1>0. s.write_queue \in Seq(Chunks) /\ s.writing \in Chunks
  BY DEF Sessions
<1>1. q \in Seq(Chunks)
  BY <1>0
<1>2. t = IF s.writing = NoWrite THEN do_write(u) ELSE u
  BY Zenon DEF queue_write
<1>3. CASE s.writing = NoWrite
  <2>1. q = c
    BY <1>3
  <2>2. u \in Sessions /\ u.write_queue = c
    BY <1>1, <2>1, Zenon DEF Sessions
  <2> HIDE DEF u
  <2>3. Pending(t) = c /\ (t.writing = NoWrite => t.write_queue = <<>>)
    BY <1>2, <1>3, <2>2, DoWritePending, Zenon
  <2>4. Pending(s) \o c = c
    BY <1>3 DEF Pending
  <2> QED
    BY <2>3, <2>4, Zenon
<1>4. CASE s.writing # NoWrite
  <2>1. u.write_queue = q /\ u.writing = s.writing
    BY <1>1 DEF Sessions
  <2>2. <<s.writing>> \o (s.write_queue \o c) = (<<s.writing>> \o s.write_queue) \o c
    <3> DEFINE a == <<s.writing>>
               b == s.write_queue
    <3>1. a \in Seq(Chunks) /\ b \in Seq(Chunks)
      BY <1>0
    <3> HIDE DEF a, b
    <3>2. (a \o b) \o c = a \o (b \o c)
      BY <3>1, ChunksAssociate, SMTT(60)
    <3> QED
      BY <3>2, Zenon DEF a, b
  <2> HIDE DEF u
  <2> QED
    BY <1>2, <1>4, <2>1, <2>2, ZenonT(60) DEF Pending
<1> QED
  BY <1>3, <1>4, Zenon

\* Further events leave the answer well formed.
LEMMA ShapeGrows ==
  ASSUME NEW t \in Seq(Chunks), Shape(t), \A i \in DOMAIN t : t[i].kind # "json",
         NEW c \in Seq(Chunks), Shape(IF t = <<>> THEN c ELSE <<Chunk("headers", Status(200))>> \o c),
         \A i \in DOMAIN c : c[i].kind # "json"
  PROVE  Shape(t \o c) /\ \A i \in DOMAIN (t \o c) : (t \o c)[i].kind # "json"
<1> DEFINE h == Chunk("headers", Status(200))
           d == <<h>> \o c
           n == Len(t)
<1>0. /\ n \in Nat /\ Len(c) \in Nat /\ t \o c \in Seq(Chunks) /\ Len(t \o c) = n + Len(c)
      /\ \A i \in 1..n : (t \o c)[i] = t[i]
      /\ \A i \in 1..Len(c) : (t \o c)[n + i] = c[i]
  OBVIOUS
<1>1. CASE t = <<>>
  <2>1. t \o c = c
    BY <1>1
  <2> QED
    BY <1>1, <2>1
<1>2. CASE t # <<>>
  <2>1. h.kind = "headers" /\ h \in Chunks
    BY DEF Chunk, Chunks, ChunkKind, Status, Answers, Nothing
  <2> HIDE DEF h
  <2>2. /\ Len(d) = 1 + Len(c) /\ d[1] = h /\ \A i \in 1..Len(c) : d[1 + i] = c[i]
        /\ DOMAIN d = 1..(1 + Len(c)) /\ Shape(d)
    BY <1>2, <2>1, SMTT(60) DEF h
  <2> HIDE DEF d
  <2>3. ASSUME NEW i \in 1..Len(c)
        PROVE  /\ c[i].kind \notin {"none", "headers", "json"}
               /\ c[i].kind = "end" => i > 1 /\ c[i - 1].kind = "terminal"
               /\ c[i].kind = "terminal" => i < Len(c) /\ c[i + 1].kind = "end"
    <3>1. d[1 + i] = c[i] /\ 1 + i \in DOMAIN d /\ 1 + i # 1
      BY <1>0, <2>2, SMTT(60)
    <3>2. /\ c[i].kind \notin {"none", "headers", "json"}
          /\ c[i].kind = "end" => d[(1 + i) - 1].kind = "terminal"
          /\ c[i].kind = "terminal" => 1 + i < Len(d) /\ d[(1 + i) + 1].kind = "end"
      <4>1. ShapeAt(d, 1 + i)
        BY <2>2, <3>1 DEF Shape
      <4>2. c[i].kind # "json"
        BY <1>0
      <4> QED
        BY <3>1, <4>1, <4>2, SMTT(60) DEF ShapeAt
    <3>3. i > 1 => i - 1 \in 1..Len(c) /\ d[(1 + i) - 1] = c[i - 1]
      <4>1. i > 1 => i - 1 \in 1..Len(c) /\ 1 + (i - 1) = (1 + i) - 1
        BY <1>0
      <4> QED
        BY <2>2, <4>1, Zenon
    <3>4. i < Len(c) => d[(1 + i) + 1] = c[i + 1]
      <4>1. i < Len(c) => i + 1 \in 1..Len(c) /\ 1 + (i + 1) = (1 + i) + 1
        BY <1>0
      <4> QED
        BY <2>2, <4>1, Zenon
    <3>5. i = 1 => d[(1 + i) - 1].kind = "headers"
      BY <2>1, <2>2
    <3>6. c[i].kind = "end" => i > 1 /\ c[i - 1].kind = "terminal"
      BY <1>0, <3>2, <3>3, <3>5, SMTT(60)
    <3>7. c[i].kind = "terminal" => i < Len(c) /\ c[i + 1].kind = "end"
      <4>1. 1 + i < Len(d) => i < Len(c)
        BY <1>0, <2>2
      <4> QED
        BY <3>2, <3>4, <4>1, Zenon
    <3> QED
      BY <3>2, <3>6, <3>7, ZenonT(60)
  <2>4. n >= 1
    BY <1>2, <1>0, SMTT(60)
  <2> DEFINE e == t \o c
  <2>5. ASSUME NEW i \in DOMAIN e
        PROVE  /\ e[i].kind \notin {"none", "json"}
               /\ i = 1 <=> e[i].kind \in {"headers", "json"}
               /\ e[i].kind = "end" => i > 1 /\ e[i - 1].kind = "terminal"
               /\ e[i].kind = "terminal" => i < Len(e) /\ e[i + 1].kind = "end"
    <3>1. CASE i \in 1..n
      <4>1. e[i] = t[i] /\ i \in DOMAIN t
        BY <1>0, <3>1, SMTT(60)
      <4>2. /\ t[i].kind \notin {"none", "json"} /\ (i = 1 <=> t[i].kind \in {"headers", "json"})
            /\ t[i].kind = "end" => i > 1 /\ t[i - 1].kind = "terminal"
            /\ t[i].kind = "terminal" => i < n /\ t[i + 1].kind = "end"
        <5>1. ShapeAt(t, i) /\ t[i].kind # "json"
          BY <4>1 DEF Shape
        <5> QED
          BY <5>1, Zenon DEF ShapeAt
      <4>3. (i > 1 => e[i - 1] = t[i - 1]) /\ (i < n => e[i + 1] = t[i + 1])
        BY <1>0, <3>1, SMTT(60)
      <4> QED
        BY <1>0, <3>1, <4>1, <4>2, <4>3, SMTT(60)
    <3>2. CASE i \notin 1..n
      <4>1. PICK j \in 1..Len(c) : i = n + j
        <5>1. i \in 1..(n + Len(c))
          BY <1>0
        <5>2. i - n \in 1..Len(c) /\ i = n + (i - n)
          BY <1>0, <3>2, <5>1
        <5> QED
          BY <5>2, Zenon
      <4>2. e[i] = c[j] /\ i # 1 /\ i > 1
        BY <1>0, <2>4, <4>1
      <4>3. j > 1 => e[i - 1] = c[j - 1]
        <5>1. j > 1 => j - 1 \in 1..Len(c) /\ i - 1 = n + (j - 1)
          BY <1>0, <4>1, SMTT(60)
        <5> QED
          BY <1>0, <5>1, Zenon
      <4>4. j < Len(c) => e[i + 1] = c[j + 1] /\ i < Len(e)
        <5>1. j < Len(c) => j + 1 \in 1..Len(c) /\ i + 1 = n + (j + 1) /\ i < n + Len(c)
          BY <1>0, <4>1, SMTT(60)
        <5> QED
          BY <1>0, <5>1, SMTT(60)
      <4> QED
        BY <2>3, <4>1, <4>2, <4>3, <4>4
    <3> QED
      BY <3>1, <3>2, ZenonT(60)
  <2>6. \A i \in DOMAIN e : ShapeAt(e, i) /\ e[i].kind # "json"
    BY <2>5, ZenonT(60) DEF ShapeAt
  <2> QED
    BY <2>6 DEF Shape
<1> QED
  BY <1>1, <1>2

\* The chunks that tell of a snapshot, behind the headers, have the shape of a stream.
LEMMA EventShape ==
  ASSUME NEW snap \in Snaps
  PROVE  LET h == <<Chunk("headers", Status(200))>>
             e == EventOf(snap)
         IN  /\ h \in Seq(Chunks) /\ e \in Seq(Chunks) /\ h \o e \in Seq(Chunks)
             /\ \A i \in DOMAIN e : e[i].kind \notin {"none", "json"}
             /\ \A i \in DOMAIN (h \o e) : (h \o e)[i].kind \notin {"none", "json"}
             /\ h \o e # <<>> /\ e # <<>>
             /\ Shape(h \o e)
<1> DEFINE h == Chunk("headers", Status(200))
           state == Chunk("state", Status(200))
           terminal == Chunk("terminal", serialize_terminal_event(snap))
           end == Chunk("end", Status(200))
<1>1. /\ {h, state, terminal, end} \subseteq Chunks
      /\ h.kind = "headers" /\ state.kind = "state" /\ terminal.kind = "terminal"
      /\ end.kind = "end"
  BY AnswersTyped DEF Chunk, Status, Chunks, ChunkKind, Answers, Nothing
<1>2. EventOf(snap) = IF Ended(snap) THEN <<terminal, end>> ELSE <<state>>
  BY ZenonT(60) DEF EventOf, Ended
<1> HIDE DEF h, state, terminal, end
<1>3. CASE Ended(snap)
  <2> DEFINE e == EventOf(snap)
             d == <<h>> \o e
  <2>0. e = <<terminal, end>> /\ e \in Seq(Chunks) /\ <<h>> \in Seq(Chunks)
    BY <1>1, <1>2, <1>3, SMTT(60)
  <2> HIDE DEF e
  <2>1. /\ e[1] = terminal /\ e[2] = end /\ Len(e) = 2 /\ e \in Seq(Chunks) /\ d \in Seq(Chunks)
        /\ Len(d) = 3 /\ d[1] = h /\ d[2] = terminal /\ d[3] = end
    BY <1>1, <2>0, SMTT(60)
  <2> HIDE DEF d
  <2>2. ShapeAt(d, 1) /\ ShapeAt(d, 2) /\ ShapeAt(d, 3)
    BY <1>1, <2>1, SMTT(60) DEF ShapeAt
  <2>3. DOMAIN d = {1, 2, 3} /\ d \in Seq(Chunks) /\ Shape(d)
    BY <1>1, <2>1, <2>2 DEF Shape
  <2>4. /\ \A i \in DOMAIN e : e[i].kind \notin {"none", "json"}
        /\ \A i \in DOMAIN d : d[i].kind \notin {"none", "json"}
    BY <1>1, <2>1, <2>3
  <2> QED
    BY <2>0, <2>1, <2>3, <2>4 DEF h, d, e
<1>4. CASE ~Ended(snap)
  <2> DEFINE e == EventOf(snap)
             d == <<h>> \o e
  <2>0. e = <<state>> /\ e \in Seq(Chunks) /\ <<h>> \in Seq(Chunks)
    BY <1>1, <1>2, <1>4
  <2> HIDE DEF e
  <2>1. /\ e[1] = state /\ Len(e) = 1 /\ e \in Seq(Chunks) /\ d \in Seq(Chunks)
        /\ Len(d) = 2 /\ d[1] = h /\ d[2] = state
    BY <1>1, <2>0
  <2> HIDE DEF d
  <2>2. ShapeAt(d, 1) /\ ShapeAt(d, 2)
    BY <1>1, <2>1, ZenonT(60) DEF ShapeAt
  <2>3. DOMAIN d = {1, 2} /\ d \in Seq(Chunks) /\ Shape(d)
    BY <1>1, <2>1, <2>2, SMTT(60) DEF Shape
  <2>4. /\ \A i \in DOMAIN e : e[i].kind \notin {"none", "json"}
        /\ \A i \in DOMAIN d : d[i].kind \notin {"none", "json"}
    BY <1>1, <2>1, <2>3
  <2> QED
    BY <2>0, <2>1, <2>3, <2>4 DEF h, d, e
<1> QED
  BY <1>3, <1>4, Zenon

\* What is still to be written is a sequence of chunks.
LEMMA PendingTyped ==
  ASSUME NEW s \in Sessions
  PROVE  Pending(s) \in Seq(Chunks)
<1>1. s.write_queue \in Seq(Chunks) /\ <<s.writing>> \in Seq(Chunks)
  BY DEF Sessions
<1> QED
  BY <1>1, ConcatIn DEF Pending

\* on_state_update() in stream mode appends to what was sent.
LEMMA StreamOrder ==
  ASSUME NEW s \in Sessions, s.stream_mode, NEW snap \in Snaps, NEW w \in Seq(Chunks),
         GoesOn(s, w \o Pending(s))
  PROVE  LET t == stream_update(s, snap) IN GoesOn(t, w \o Pending(t))
<1> DEFINE h == <<Chunk("headers", Status(200))>>
           header == IF s.response_started THEN <<>> ELSE h
           c == header \o EventOf(snap)
           u == [s EXCEPT !.response_started = TRUE]
           begun == IF s.response_started THEN s ELSE stop_disconnect_watch(u)
           written == queue_write(begun, c)
           v == stop_disconnect_watch(written)
           t == stream_update(s, snap)
           sent == w \o Pending(s)
<1>1. t = IF Ended(snap) THEN [v EXCEPT !.timer = FALSE] ELSE written
  BY DEF stream_update, Ended
<1>2. u \in Sessions /\ u.writing = s.writing /\ u.write_queue = s.write_queue
      /\ u.response_started /\ u.json_response_started = s.json_response_started
      /\ u.stream_mode = s.stream_mode
  BY Zenon DEF Sessions
<1> HIDE DEF u
<1>3. /\ begun \in Sessions /\ begun.writing = s.writing /\ begun.write_queue = s.write_queue
      /\ begun.response_started /\ begun.json_response_started = s.json_response_started
      /\ begun.stream_mode = s.stream_mode
  BY <1>2, WatchStopped, ZenonT(60) DEF SameWrites
<1> HIDE DEF begun
<1>4. /\ h \in Seq(Chunks) /\ EventOf(snap) \in Seq(Chunks) /\ h \o EventOf(snap) \in Seq(Chunks)
      /\ \A i \in DOMAIN EventOf(snap) : EventOf(snap)[i].kind \notin {"none", "json"}
      /\ \A i \in DOMAIN (h \o EventOf(snap)) : (h \o EventOf(snap))[i].kind \notin {"none", "json"}
      /\ h \o EventOf(snap) # <<>> /\ EventOf(snap) # <<>> /\ Shape(h \o EventOf(snap))
  BY EventShape
<1> HIDE DEF h
<1>5. /\ s.response_started => c = EventOf(snap)
      /\ ~s.response_started => c = h \o EventOf(snap)
  <2>1. CASE s.response_started
    <3>1. c = <<>> \o EventOf(snap)
      BY <2>1, Zenon
    <3>2. \A e \in Seq(Chunks) : <<>> \o e = e
      BY ConcatEmptySeq
    <3> QED
      BY <1>4, <2>1, <3>1, <3>2, Zenon
  <2>2. CASE ~s.response_started
    BY <2>2, SMTT(60)
  <2> QED
    BY <2>1, <2>2, Zenon
<1> HIDE DEF c
<1>5a. c \in Seq(Chunks) /\ c # <<>> /\ \A i \in DOMAIN c : c[i].kind # "none" /\ c[i].kind # "json"
  BY <1>4, <1>5, Zenon
<1>6. /\ written \in Sessions /\ written.response_started /\ written.stream_mode
      /\ written.json_response_started = s.json_response_started
  <2>1. Writes(begun, Chunks) /\ NoWrite \in Chunks
    BY <1>3, NoWriteGood, Zenon DEF Writes, Sessions
  <2> QED
    BY <1>3, <1>5a, <2>1, QueueWriteAdds, Zenon
<1>7. Pending(written) = Pending(s) \o c /\ (written.writing = NoWrite => written.write_queue = <<>>)
  <2>1. (begun.writing = NoWrite => begun.write_queue = <<>>) /\ Pending(begun) = Pending(s)
    BY <1>3 DEF GoesOn, Pending
  <2> QED
    BY <1>3, <1>5a, <2>1, QueuePending, ZenonT(60)
<1> HIDE DEF written
<1>8. /\ t.response_started /\ t.stream_mode
      /\ t.json_response_started = s.json_response_started
      /\ t.writing = written.writing /\ t.write_queue = written.write_queue
  <2>1. v \in Sessions /\ SameWrites(written, v)
    BY <1>6, WatchStopped, ZenonT(60)
  <2> HIDE DEF v
  <2>2. LET x == [v EXCEPT !.timer = FALSE] IN SameWrites(written, x)
    BY <2>1, Zenon DEF Sessions, SameWrites
  <2> QED
    BY <1>1, <1>6, <2>2, Zenon DEF SameWrites
<1>9. w \o Pending(t) = sent \o c /\ sent \in Seq(Chunks)
  <2>1. Pending(t) = Pending(s) \o c
    BY <1>7, <1>8, Zenon DEF Pending
  <2>2. Pending(s) \in Seq(Chunks)
    BY PendingTyped
  <2>3. w \o (Pending(s) \o c) = (w \o Pending(s)) \o c
    BY <1>5a, <2>2, ChunksAssociate, SMTT(60)
  <2>4. sent \in Seq(Chunks)
    BY <2>2, ConcatIn
  <2> QED
    BY <2>1, <2>3, <2>4, Zenon
<1>10. Shape(sent) /\ (sent = <<>> <=> ~s.response_started) /\ ~s.json_response_started
       /\ \A i \in DOMAIN sent : sent[i].kind # "json"
  BY DEF GoesOn
<1> HIDE DEF sent, t
<1>11. Shape(sent \o c) /\ \A i \in DOMAIN (sent \o c) : (sent \o c)[i].kind # "json"
  <2>1. Shape(IF sent = <<>> THEN c ELSE <<Chunk("headers", Status(200))>> \o c)
    BY <1>4, <1>5, <1>10, ZenonT(60) DEF h
  <2> QED
    BY <1>5a, <1>9, <1>10, <2>1, ShapeGrows, Zenon
<1>12. sent \o c # <<>>
  BY <1>5a, <1>9
<1>13. GoesOn(t, sent \o c)
  BY <1>7, <1>8, <1>10, <1>11, <1>12, Zenon DEF GoesOn
<1> QED
  BY <1>9, <1>13 DEF t

\* A JSON response is the first thing that is sent.
LEMMA JsonOrder ==
  ASSUME NEW s \in Sessions, ~s.closed, ~s.stream_mode, NEW a \in Answers,
         NEW w \in Seq(Chunks), GoesOn(s, w \o Pending(s))
  PROVE  LET t == send_json_response(s, a) IN GoesOn(t, w \o Pending(t))
<1> DEFINE t == send_json_response(s, a)
           json == Chunk("json", a)
<1>1. CASE s.json_response_started
  BY <1>1, Zenon DEF send_json_response
<1>2. CASE ~s.json_response_started
  <2> DEFINE v == stop_disconnect_watch(s)
  <2>0. Pending(s) \in Seq(Chunks) /\ w \o Pending(s) = <<>> /\ ~s.response_started
    BY <1>2, PendingTyped, Zenon DEF GoesOn
  <2>1. w = <<>> /\ Pending(s) = <<>>
    BY <2>0
  <2>2. s.writing = NoWrite /\ s.write_queue = <<>>
    <3>1. s.write_queue \in Seq(Chunks) /\ <<s.writing>> \in Seq(Chunks)
      BY DEF Sessions
    <3>2. <<s.writing>> \o s.write_queue # <<>>
      BY <3>1
    <3> QED
      BY <2>1, <3>2, Zenon DEF Pending, GoesOn
  <2>3. v \in Sessions /\ SameWrites(s, v)
    BY WatchStopped, Zenon
  <2>4. t = [v EXCEPT !.json_response_started = TRUE, !.timer = FALSE, !.writing = json]
    BY <1>2, Zenon DEF send_json_response
  <2>5. json \in Chunks /\ json.kind = "json" /\ json # NoWrite
    BY DEF Chunk, Chunks, ChunkKind, NoWrite
  <2> HIDE DEF v, json
  <2>6. /\ t.json_response_started /\ t.writing = json /\ t.write_queue = <<>>
        /\ t.stream_mode = s.stream_mode /\ t.response_started = s.response_started
    BY <2>2, <2>3, <2>4 DEF Sessions, SameWrites
  <2> HIDE DEF t
  <2> DEFINE sent == w \o Pending(t)
  <2>7. Len(sent) = 1 /\ sent[1] = json /\ DOMAIN sent = {1} /\ sent # <<>>
    <3>1. <<json>> \in Seq(Chunks) /\ <<>> \in Seq(Chunks)
      BY <2>5
    <3>2. \A q \in Seq(Chunks) : <<>> \o q = q /\ q \o <<>> = q
      BY ConcatEmptySeq, Zenon
    <3>3. Pending(t) = <<json>>
      BY <2>5, <2>6, <3>1, <3>2, Zenon DEF Pending
    <3>4. sent = <<json>>
      BY <2>1, <3>1, <3>2, <3>3, Zenon
    <3> HIDE DEF sent
    <3> QED
      BY <3>4
  <2> HIDE DEF sent
  <2>8. Shape(sent)
    <3>1. ShapeAt(sent, 1)
      BY <2>5, <2>7, Zenon DEF ShapeAt
    <3> QED
      BY <2>7, <3>1, Zenon DEF Shape
  <2>9. GoesOn(t, sent)
    BY <2>0, <2>5, <2>6, <2>7, <2>8, Zenon DEF GoesOn
  <2> QED
    BY <2>9, Zenon DEF sent, t
<1> QED
  BY <1>1, <1>2

\* on_state_update preserves the order.
LEMMA UpdateOrder == IInv /\ OrderInv /\ OnStateUpdate => OrderInv'
<1> SUFFICES ASSUME IInv, OrderInv, OnStateUpdate PROVE OrderInv'
  BY Zenon
<1> DEFINE snap == Head(posted)
<1>1. /\ session' = on_state_update(session, snap) /\ wire' = wire /\ snap \in Snaps
      /\ session \in Sessions /\ wire \in Seq(Chunks)
  BY DEF OnStateUpdate, IInv, TypeInv
<1> HIDE DEF snap
<1>2. CASE session.closed
  <2>1. session' = session
    BY <1>1, <1>2, Zenon DEF on_state_update
  <2> QED
    BY <1>1, <2>1, Zenon DEF OrderInv
<1>3. CASE ~session.closed
  <2>1. GoesOn(session, wire \o Pending(session)) /\ Ordered(wire)
        /\ \A i \in DOMAIN wire : ~EndsAnswer(wire[i].kind)
    BY <1>3, Zenon DEF OrderInv
  <2>2. GoesOn(session', wire \o Pending(session'))
    <3>1. CASE session.stream_mode
      <4>1. session' = stream_update(session, snap)
        BY <1>1, <1>3, <3>1, Zenon DEF on_state_update
      <4> QED
        BY <1>1, <2>1, <3>1, <4>1, StreamOrder, Zenon
    <3>2. CASE ~session.stream_mode /\ Ended(snap)
      <4> DEFINE u == stop_disconnect_watch(session)
                 v == [u EXCEPT !.timer = FALSE]
                 a == serialize_infer_response(snap)
      <4>1. session' = send_json_response(v, a)
        BY <1>1, <1>3, <3>2, Zenon DEF on_state_update, json_update, Ended
      <4>2. u \in Sessions /\ SameWrites(session, u) /\ u.closed = session.closed
        BY <1>1, WatchStopped, Zenon
      <4> HIDE DEF u
      <4>3. v \in Sessions /\ SameWrites(session, v) /\ v.closed = session.closed
        BY <4>2, Zenon DEF Sessions, SameWrites
      <4>4. a \in Answers
        BY <1>1, AnswersTyped, Zenon
      <4> HIDE DEF v, a
      <4>5. Pending(v) = Pending(session)
        BY <4>3, Zenon DEF Pending, SameWrites
      <4>6. GoesOn(v, wire \o Pending(v)) /\ ~v.stream_mode /\ ~v.closed
        BY <1>3, <2>1, <3>2, <4>3, <4>5, Zenon DEF GoesOn, SameWrites
      <4> QED
        BY <1>1, <4>1, <4>3, <4>4, <4>6, JsonOrder, Zenon
    <3>3. CASE ~session.stream_mode /\ ~Ended(snap)
      <4>1. session' = session
        BY <1>1, <1>3, <3>3, Zenon DEF on_state_update, json_update, Ended
      <4> QED
        BY <2>1, <4>1
    <3> QED
      BY <3>1, <3>2, <3>3, Zenon
  <2> QED
    BY <1>1, <2>1, <2>2, Zenon DEF OrderInv
<1> QED
  BY <1>2, <1>3

\* A beginning of what was sent, with no end in it but perhaps the last chunk,
\* is in order.
LEMMA PrefixOrdered ==
  ASSUME NEW t \in Seq(Chunks), Shape(t), NEW w \in Seq(Chunks), Len(w) <= Len(t),
         \A i \in DOMAIN w : w[i] = t[i],
         \A i \in DOMAIN w : EndsAnswer(w[i].kind) => i = Len(w)
  PROVE  Ordered(w)
<1> SUFFICES ASSUME NEW i \in DOMAIN w
             PROVE  /\ (i = 1) <=> w[i].kind \in {"headers", "json"}
                    /\ w[i].kind = "end" => w[i - 1].kind = "terminal"
                    /\ w[i].kind = "terminal" => i + 1 >= Len(w)
  BY Zenon DEF Ordered
<1>1. i \in DOMAIN t /\ i \in 1..Len(w) /\ Len(w) \in Nat /\ w[i] = t[i] /\ DOMAIN w = 1..Len(w)
  OBVIOUS
<1>2. ShapeAt(t, i)
  BY <1>1, Zenon DEF Shape
<1>3. /\ (i = 1) <=> w[i].kind \in {"headers", "json"}
      /\ w[i].kind = "end" => i > 1 /\ t[i - 1].kind = "terminal"
      /\ w[i].kind = "terminal" => t[i + 1].kind = "end"
  BY <1>1, <1>2, Zenon DEF ShapeAt
<1>4. i > 1 => w[i - 1] = t[i - 1]
  BY <1>1
<1>5. ASSUME i + 1 < Len(w) PROVE t[i + 1].kind # "end"
  <2>1. i + 1 \in DOMAIN w /\ i + 1 # Len(w)
    BY <1>1, <1>5
  <2>2. w[i + 1] = t[i + 1] /\ ~EndsAnswer(w[i + 1].kind)
    BY <2>1, Zenon
  <2> QED
    BY <2>2, Zenon DEF EndsAnswer
<1>6. w[i].kind = "terminal" => i + 1 >= Len(w)
  BY <1>1, <1>3, <1>5
<1> QED
  BY <1>3, <1>4, <1>6, Zenon

\* A completed write moves the chunk being written to the wire, and preserves the order.
LEMMA WriteOrder == IInv /\ OrderInv /\ WriteSucceeds => OrderInv'
<1> SUFFICES ASSUME IInv, OrderInv, WriteSucceeds PROVE OrderInv'
  OBVIOUS
<1> DEFINE w == session.writing
           q == session.write_queue
           n == Len(wire)
           sent == wire \o Pending(session)
<1>1. /\ w # NoWrite /\ ~session.closed /\ wire' = Append(wire, w)
      /\ session' = written_ok(session, w.kind)
  BY Zenon DEF WriteSucceeds
<1>2. /\ session \in Sessions /\ wire \in Seq(Chunks) /\ w \in Chunks /\ q \in Seq(Chunks)
      /\ <<w>> \in Seq(Chunks)
  BY DEF IInv, TypeInv, Sessions
<1>3. GoesOn(session, sent) /\ \A i \in DOMAIN wire : ~EndsAnswer(wire[i].kind)
  BY <1>1 DEF OrderInv
<1>4. sent = (wire \o <<w>>) \o q /\ wire' = wire \o <<w>> /\ sent = wire' \o q
  <2>1. Pending(session) = <<w>> \o q
    BY <1>1 DEF Pending
  <2>2. (wire \o <<w>>) \o q = wire \o (<<w>> \o q)
    BY <1>2, ChunksAssociate, Zenon
  <2>3. wire' = wire \o <<w>>
    BY <1>1, <1>2, AppendIsConcat, Zenon
  <2> QED
    BY <2>1, <2>2, <2>3, Zenon
<1> HIDE DEF sent
<1>5. /\ wire' \in Seq(Chunks) /\ Len(wire') = n + 1 /\ n \in Nat
      /\ wire'[n + 1] = w /\ \A i \in 1..n : wire'[i] = wire[i]
  BY <1>1, <1>2
<1>6. /\ sent \in Seq(Chunks) /\ Len(sent) = Len(wire') + Len(q) /\ Len(q) \in Nat
      /\ \A i \in 1..Len(wire') : sent[i] = wire'[i]
      /\ \A i \in 1..Len(q) : sent[Len(wire') + i] = q[i]
  BY <1>2, <1>4, <1>5
<1>6a. Len(wire') \in Nat
  BY <1>5, SMTT(60)
<1>6b. DOMAIN wire' = 1..Len(wire') /\ DOMAIN sent = 1..Len(sent) /\ DOMAIN q = 1..Len(q)
  BY <1>2, <1>5, <1>6, SMTT(60)
<1>7. \A i \in DOMAIN wire' : EndsAnswer(wire'[i].kind) => i = Len(wire') /\ EndsAnswer(w.kind)
  BY <1>2, <1>3, <1>5
<1>8. Ordered(wire')
  <2>1. Len(wire') <= Len(sent) /\ \A i \in DOMAIN wire' : wire'[i] = sent[i]
    <3>1. Len(wire') <= Len(sent)
      BY <1>6, <1>6a, SMTT(60)
    <3> QED
      BY <1>6, <1>6b, <3>1, Zenon
  <2>2. Shape(sent)
    BY <1>3, Zenon DEF GoesOn
  <2>3. \A i \in DOMAIN wire' : EndsAnswer(wire'[i].kind) => i = Len(wire')
    BY <1>7, Zenon
  <2> DEFINE x == wire'
  <2>4. x \in Seq(Chunks)
    BY <1>5, Zenon
  <2> HIDE DEF x
  <2>5. Len(x) <= Len(sent) /\ (\A i \in DOMAIN x : x[i] = sent[i])
        /\ \A i \in DOMAIN x : EndsAnswer(x[i].kind) => i = Len(x)
    BY <2>1, <2>3, Zenon DEF x
  <2>6. Ordered(x)
    BY <1>6, <2>2, <2>4, <2>5, PrefixOrdered, Zenon
  <2> QED
    BY <2>6, Zenon DEF x, Ordered
<1>9. CASE EndsAnswer(w.kind)
  <2> DEFINE u == [session EXCEPT !.writing = NoWrite]
  <2>1. session' = close(u)
    BY <1>1, <1>9 DEF written_ok
  <2>2. u \in Sessions
    BY <1>2, NoWriteGood, Zenon DEF Sessions
  <2> HIDE DEF u
  <2>3. session'.closed
    BY <2>1, <2>2, CloseCloses, Zenon
  <2> QED
    BY <1>8, <2>3 DEF OrderInv
<1>10. CASE ~EndsAnswer(w.kind)
  <2>1. session' = do_write(session)
    BY <1>1, <1>10, Zenon DEF written_ok
  <2>2. \A i \in DOMAIN q : q[i].kind # "none"
    <3> SUFFICES ASSUME NEW i \in DOMAIN q PROVE q[i].kind # "none"
      BY Zenon
    <3>1. i \in 1..Len(q) /\ Len(wire') + i \in DOMAIN sent /\ sent[Len(wire') + i] = q[i]
      <4>1. i \in 1..Len(q)
        BY <1>6b, Zenon
      <4>2. Len(wire') + i \in 1..(Len(wire') + Len(q))
        <5>1. PICK m \in Nat : m = Len(wire')
          BY <1>6a, Zenon
        <5>2. PICK k \in Nat : k = Len(q)
          BY <1>6, Zenon
        <5> QED
          BY <4>1, <5>1, <5>2
      <4> QED
        BY <1>6, <1>6b, <4>1, <4>2, Zenon
    <3>2. ShapeAt(sent, Len(wire') + i)
      BY <1>3, <3>1, Zenon DEF GoesOn, Shape
    <3> QED
      BY <3>1, <3>2, Zenon DEF ShapeAt
  <2>3. Pending(session') = q /\ (session'.writing = NoWrite => session'.write_queue = <<>>)
    BY <1>2, <2>1, <2>2, DoWritePending, Zenon
  <2>4. /\ session'.response_started = session.response_started
        /\ session'.json_response_started = session.json_response_started
        /\ session'.stream_mode = session.stream_mode
    BY <1>2, <2>1, DoWriteTakes, NoWriteGood, Zenon
  <2>5. GoesOn(session', sent)
    BY <1>3, <2>3, <2>4, Zenon DEF GoesOn
  <2>6. GoesOn(session', wire' \o Pending(session'))
    BY <1>4, <2>3, <2>5, Zenon
  <2> QED
    BY <1>7, <1>8, <1>10, <2>6 DEF OrderInv
<1> QED
  BY <1>9, <1>10, Zenon

\* Reading the request, and answering at once or submitting it, preserves the order.
LEMMA ReadOrder == IInv /\ OrderInv /\ (AnswerAtOnce \/ StartInfer) => OrderInv'
<1> SUFFICES ASSUME IInv, OrderInv, AnswerAtOnce \/ StartInfer PROVE OrderInv'
  BY Zenon
<1>1. pc = "reading" /\ Running /\ wire' = wire /\ Fresh /\ session \in Sessions
  <2>1. pc = "reading" /\ Running /\ wire' = wire
    <3>1. CASE AnswerAtOnce
      BY <3>1, SMTT(60) DEF AnswerAtOnce
    <3>2. CASE StartInfer
      BY <3>2, ZenonT(60) DEF StartInfer
    <3> QED
      BY <3>1, <3>2, Zenon
  <2> QED
    BY <2>1, Zenon DEF IInv, StartInv, TypeInv
<1>2. /\ ~session.closed /\ wire = <<>> /\ GoesOn(session, wire \o Pending(session))
      /\ Ordered(wire) /\ \A i \in DOMAIN wire : ~EndsAnswer(wire[i].kind)
  BY <1>1, Zenon DEF Fresh, OrderInv
<1>3. CASE StartInfer
  <2>1. PICK stream \in BOOLEAN :
          session' = [session EXCEPT !.stream_mode = stream, !.timer = TRUE]
    BY <1>3, Zenon DEF StartInfer
  <2>2. /\ session'.writing = NoWrite /\ session'.write_queue = <<>>
        /\ ~session'.response_started /\ ~session'.json_response_started
        /\ session'.stream_mode = stream
    BY <1>1, <2>1, Zenon DEF Sessions, Fresh
  <2>3. wire' \o Pending(session') = <<>>
    <3>1. Pending(session') = <<>>
      BY <2>2, Zenon DEF Pending
    <3> QED
      BY <1>1, <1>2, <3>1
  <2>4. Shape(<<>>)
    BY DEF Shape
  <2>5. GoesOn(session', <<>>)
    BY <2>2, <2>4 DEF GoesOn
  <2> QED
    BY <1>1, <1>2, <2>3, <2>5, Zenon DEF OrderInv
<1>4. CASE AnswerAtOnce
  <2>1. PICK code \in Int : session' = send_json_response(session, Status(code))
    <3>1. \A t \in Targets, h \in BOOLEAN : handle_get(t, h) \in Int
      BY DEF handle_get, handle_health
    <3> QED
      BY <1>4, <3>1 DEF AnswerAtOnce
  <2>2. Status(code) \in Answers
    BY DEF Status, Answers
  <2>3. wire \in Seq(Chunks)
    BY Zenon DEF IInv, TypeInv
  <2>4. CASE ~session.stream_mode
    <3>1. GoesOn(session', wire \o Pending(session'))
      BY <1>1, <1>2, <2>1, <2>2, <2>3, <2>4, JsonOrder, Zenon
    <3> QED
      BY <1>1, <1>2, <3>1, Zenon DEF OrderInv
  <2> QED
    BY <1>1, <2>4, ZenonT(60) DEF IInv, StartInv
<1> QED
  BY <1>3, <1>4, Zenon

\* Every step preserves the order.
LEMMA NextOrder == IInv /\ OrderInv /\ [Next]_vars => OrderInv'
<1> SUFFICES ASSUME IInv, OrderInv, [Next]_vars PROVE OrderInv'
  OBVIOUS
<1>0. session \in Sessions /\ request \in Snaps
  BY Zenon DEF IInv, TypeInv
<1>1. CASE OnStateUpdate
  BY <1>1, UpdateOrder, Zenon
<1>2. CASE WriteSucceeds
  BY <1>2, WriteOrder, Zenon
<1>3. CASE AnswerAtOnce \/ StartInfer
  BY <1>3, ReadOrder
<1>4. CASE OnAccept
  <2>1. wire' = wire /\ session' = [session EXCEPT !.registered = TRUE]
    BY <1>4 DEF OnAccept
  <2>2. SameWrites(session, session') /\ session'.closed = session.closed
    BY <1>0, <2>1, Zenon DEF Sessions, SameWrites
  <2> QED
    BY <1>0, <2>1, <2>2, SamePending
<1>5. CASE ReadFails
  <2>1. wire' = wire /\ session' = close(session)
    BY <1>5, Zenon DEF ReadFails
  <2> QED
    BY <1>0, <2>1, CloseCloses, ClosedOrder, Zenon
<1>6. CASE FinishStart
  <2>1. wire' = wire /\ (session' = session \/ session' = arm_disconnect_watch(session))
    BY <1>6, Zenon DEF FinishStart
  <2>2. SameWrites(session, session') /\ session'.closed = session.closed
    BY <1>0, <2>1, ArmArms DEF SameWrites
  <2> QED
    BY <1>0, <2>1, <2>2, SamePending, Zenon
<1>7. CASE OnPeerWait
  <2> DEFINE fired == [session EXCEPT !.armed = FALSE]
  <2>1. /\ fired \in Sessions /\ SameWrites(session, fired) /\ fired.closed = session.closed
    BY <1>0, Zenon DEF Sessions, SameWrites
  <2>2. /\ wire' = wire
        /\ session' = fired \/ on_disconnect(fired) \/ session' = arm_disconnect_watch(fired)
    BY <1>7, Zenon DEF OnPeerWait
  <2> HIDE DEF fired
  <2>3. CASE on_disconnect(fired)
    <3>1. session'.closed
      BY <2>1, <2>3, WatchStopped, CloseCloses, ZenonT(60) DEF on_disconnect
    <3> QED
      BY <2>2, <3>1, ClosedOrder, Zenon
  <2>4. CASE session' = fired \/ session' = arm_disconnect_watch(fired)
    <3>1. SameWrites(session, session') /\ session'.closed = session.closed
      BY <2>1, <2>4, ArmArms DEF SameWrites
    <3> QED
      BY <1>0, <2>2, <3>1, SamePending, ZenonT(60)
  <2> QED
    BY <2>2, <2>3, <2>4, Zenon
<1>8. CASE TimerFires
  <2>1. wire' = wire /\ session' = [session EXCEPT !.timer = FALSE]
    BY <1>8 DEF TimerFires
  <2>2. SameWrites(session, session') /\ session'.closed = session.closed
    BY <1>0, <2>1, Zenon DEF Sessions, SameWrites
  <2> QED
    BY <1>0, <2>1, <2>2, SamePending, Zenon
<1>9. CASE WriteFails
  <2> DEFINE u == [session EXCEPT !.writing = NoWrite]
  <2>1. wire' = wire /\ on_disconnect(u) /\ u \in Sessions
    BY <1>0, <1>9, NoWriteGood, Zenon DEF WriteFails, Sessions
  <2> HIDE DEF u
  <2>2. session'.closed
    BY <2>1, WatchStopped, CloseCloses, Zenon DEF on_disconnect
  <2> QED
    BY <2>1, <2>2, ClosedOrder, Zenon
<1>10. CASE Stop
  <2>1. wire' = wire /\ (on_disconnect(session) \/ session' = session)
    BY <1>10, Zenon DEF Stop
  <2>2. CASE on_disconnect(session)
    <3>1. session'.closed
      BY <1>0, <2>2, WatchStopped, CloseCloses, ZenonT(60) DEF on_disconnect
    <3> QED
      BY <2>1, <3>1, ClosedOrder, Zenon
  <2>3. CASE session' = session
    BY <2>1, <2>3, Zenon DEF OrderInv
  <2> QED
    BY <2>1, <2>2, <2>3, Zenon
<1>11. CASE RuntimeMoves \/ Observe \/ PeerActs \/ UNCHANGED vars
  <2>1. wire' = wire /\ session' = session
    BY <1>11, Zenon DEF RuntimeMoves, Observe, PeerActs, vars
  <2> QED
    BY <2>1, Zenon DEF OrderInv
<1> QED
  BY <1>1, <1>2, <1>3, <1>4, <1>5, <1>6, <1>7, <1>8, <1>9, <1>10, <1>11, ZenonT(60) DEF Next

\* Nothing was sent on the accepted connection.
LEMMA InitOrder == Init => OrderInv
<1> SUFFICES ASSUME Init PROVE OrderInv
  OBVIOUS
<1>1. /\ wire = <<>> /\ session.writing = NoWrite /\ session.write_queue = <<>>
      /\ ~session.response_started /\ ~session.json_response_started /\ ~session.stream_mode
  BY Zenon DEF Init, NewSession
<1>2. wire \o Pending(session) = <<>>
  <2>1. Pending(session) = <<>>
    BY <1>1, Zenon DEF Pending
  <2> QED
    BY <1>1, <2>1
<1>3. Shape(<<>>) /\ Ordered(wire)
  BY <1>1 DEF Shape, Ordered
<1>4. GoesOn(session, <<>>)
  BY <1>1, <1>3, Zenon DEF GoesOn
<1> QED
  BY <1>1, <1>2, <1>3, <1>4, SMTT(60) DEF OrderInv

\* What reaches the client is one well-formed answer that tells the state the
\* request ended in, however the updates of several threads are ordered.
THEOREM OneAnswerHolds == Spec => []OneAnswer
<1>1. IInv /\ OrderInv => OneAnswer
  <2> SUFFICES ASSUME IInv, OrderInv, NEW i \in DOMAIN wire,
                      wire[i].kind \in {"terminal", "json"}, has_active_request
               PROVE  wire[i].answer.outcome.state = request.state
    BY Zenon DEF OneAnswer, OrderInv, Ordered
  <2>1. wire[i] \in Good(request)
    BY SMTT(60) DEF IInv, TypeInv, ActiveInv
  <2>2. wire[i].answer.outcome = Outcome(request)
    BY <2>1 DEF Good, serialize_infer_response, serialize_terminal_event
  <2> QED
    BY <2>2, SMTT(60) DEF Outcome
<1>2. Init => IInv /\ OrderInv
  BY InitInv, InitOrder, Zenon
<1>3. IInv /\ OrderInv /\ [Next]_vars => (IInv /\ OrderInv)'
  BY NextInv, NextOrder
<1> QED
  BY <1>1, <1>2, <1>3, PTL DEF Spec
============================================================================
