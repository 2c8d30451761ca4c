--------------------------- MODULE Http1Transport ---------------------------
(***************************************************************************)
(* server_transport.rs, with serve_http1 and TrackedResponseBody of        *)
(* http_server.rs: one connection, from protocol detection through the     *)
(* requests of a keep-alive HTTP/1.1 connection.  Http1Activity couples    *)
(* the service and the response body to the deadlines of the I/O adapter.  *)
(*                                                                         *)
(* All of it runs in the connection's task, which Hyper drives: `task` is  *)
(* the step of Hyper's poll loop (external) that comes next.  Time is not  *)
(* modelled: a timer that is polled may have expired, and `fresh` records  *)
(* that its deadline was set after the present phase began and after the   *)
(* last bytes arrived.                                                     *)
(***************************************************************************)
EXTENDS Naturals, Sequences

CONSTANTS
    Scripts,            \* what a client may send, sequences of bytes
    MaxFrames           \* bound on the frames of a response body

Preface == <<"P", "R">> \* H2_PREFACE; an HTTP/1.1 head may share its beginning
HeadLength == 2         \* bytes of a request head

VARIABLES
    script, sent, taken, \* the client's bytes; how many it sent; were read
    protocol,           \* "detecting", "Http1" or "Http2"
    prefix, delivered,  \* bytes to replay; bytes Hyper has received
    consumed,           \* bytes Hyper has parsed
    phase, finished,    \* ActivityState
    readPhase, fresh, armed, \* the read timer: its phase; see above; was polled
    task, woken, again, \* the task; a wakeup is due; Hyper makes another pass
    message,            \* Hyper: "idle", "handling", "ready" or "writing"
    frames, unsent,     \* frames left in the body; buffered pieces of output
    closed              \* why the connection was closed, or "no"

vars == <<script, sent, taken, protocol, prefix, delivered, consumed, phase, finished,
          readPhase, fresh, armed, task, woken, again, message, frames, unsent, closed>>
client == <<script, sent>>
bytes == <<taken, prefix, delivered>>
timer == <<readPhase, fresh, armed>>
reply == <<message, frames, unsent>>

Timed(p) == p \in {"READING_HEAD", "KEEP_ALIVE"}
Open(step) == protocol = "Http1" /\ closed = "no" /\ task = step

Init ==
    /\ script \in Scripts /\ sent = 0 /\ taken = 0
    /\ protocol = "detecting" /\ prefix = <<>> /\ delivered = <<>> /\ consumed = 0
    /\ phase = "READING_HEAD" /\ finished = FALSE
    /\ readPhase = "READING_HEAD" /\ fresh = TRUE /\ armed = FALSE
    /\ task = "parse" /\ woken = FALSE /\ again = FALSE
    /\ message = "idle" /\ frames = 0 /\ unsent = 0
    /\ closed = "no"

ClientSends ==
    /\ sent < Len(script) /\ closed = "no"
    /\ sent' = sent + 1
    /\ woken' = TRUE
    /\ UNCHANGED <<script, bytes, protocol, consumed, phase, finished, timer, task,
                   again, reply, closed>>

-----------------------------------------------------------------------------
(* detect_protocol *)

\* One byte at a time, until the bytes differ from the preface or are all of it.
detect_protocol ==
    /\ protocol = "detecting" /\ closed = "no"
    /\ \/ /\ sent > taken
          /\ taken' = taken + 1
          /\ prefix' = Append(prefix, script[taken + 1])
          /\ protocol' = CASE prefix' # SubSeq(Preface, 1, Len(prefix')) -> "Http1"
                           [] prefix' = Preface -> "Http2"
                           [] OTHER -> "detecting"
          /\ UNCHANGED closed
       \/ /\ sent = taken
          /\ closed' = "detection"
          /\ UNCHANGED <<taken, prefix, protocol>>
    /\ UNCHANGED <<client, delivered, consumed, phase, finished, timer, task, woken, again, reply>>

-----------------------------------------------------------------------------
(* Http1Io::poll_read and its timer *)

\* The phase is noted, and the old deadline kept.
sync_phase_only == readPhase' = phase /\ UNCHANGED fresh

\* The deadline of the timer is reset when the phase has changed and has one.
sync_read_timer ==
    /\ readPhase' = phase
    /\ fresh' = ((phase # readPhase /\ Timed(phase)) \/ fresh)

\* PrefixedStream replays its prefix before it reads the socket.
PollReadBytes ==
    /\ Open("read")
    /\ \/ /\ prefix # <<>>
          /\ delivered' = delivered \o prefix
          /\ prefix' = <<>>
          /\ UNCHANGED taken
       \/ /\ prefix = <<>>
          /\ \E n \in taken + 1 .. sent :
                delivered' = delivered \o SubSeq(script, taken + 1, n) /\ taken' = n
          /\ UNCHANGED prefix
    \* observed_next_head_bytes, sync_read_timer and reset_read_timer
    /\ phase' = IF phase = "KEEP_ALIVE" THEN "READING_HEAD" ELSE phase
    /\ readPhase' = phase'
    /\ fresh' = Timed(phase')
    /\ task' = IF message = "idle" THEN "parse" ELSE "write"
    /\ UNCHANGED <<client, protocol, consumed, finished, armed, woken, again, reply, closed>>

\* pending_read: nothing to read, and the timer is polled if the phase has one.
PollReadPending ==
    /\ Open("read") /\ prefix = <<>> /\ taken = sent
    /\ sync_read_timer
    /\ armed' = (armed \/ Timed(phase))
    /\ \/ task' = "write" /\ UNCHANGED closed
       \/ /\ Timed(phase) /\ readPhase = phase    \* it was not reset just now
          /\ closed' = phase /\ UNCHANGED task
    /\ UNCHANGED <<client, bytes, protocol, consumed, phase, finished, woken, again, reply>>

-----------------------------------------------------------------------------
(* The service and the response body *)

\* Hyper parses what it has.  A complete head starts a request.
request_started ==
    /\ Open("parse") /\ message = "idle" /\ Len(delivered) - consumed >= HeadLength
    /\ consumed' = consumed + HeadLength
    /\ finished' = FALSE
    /\ phase' = "IN_REQUEST" /\ fresh' = FALSE
    /\ message' = "handling"
    /\ task' = "write"
    /\ UNCHANGED <<client, bytes, protocol, readPhase, armed, woken, again, frames, unsent, closed>>

\* Otherwise it reads: for the rest of a head or, with nothing buffered during a
\* message, for a body or to notice that the client is gone.
ParsePartial ==
    /\ Open("parse")
    /\ message = "idle" => Len(delivered) - consumed < HeadLength
    /\ task' = IF message = "idle" \/ consumed = Len(delivered) THEN "read" ELSE "write"
    /\ UNCHANGED <<client, bytes, protocol, consumed, phase, finished, timer, woken, again,
                   reply, closed>>

HandlerReturns ==
    /\ closed = "no" /\ message = "handling"
    /\ message' = "ready"
    /\ woken' = TRUE
    /\ UNCHANGED <<client, bytes, protocol, consumed, phase, finished, timer, task, again,
                   frames, unsent, closed>>

\* track_response: the service's response has n frames; Hyper encodes its head.
track_response(n) ==
    /\ Open("write") /\ message = "ready"
    /\ message' = "writing"
    /\ frames' = n
    /\ unsent' = unsent + 1
    /\ finished' = (n = 0)
    /\ UNCHANGED <<client, bytes, protocol, consumed, phase, timer, task, woken, again, closed>>

\* TrackedResponseBody::poll_frame: Hyper takes the frames that are ready.  With
\* the last one the body is finished and Hyper turns to the next request.
PollFrames ==
    /\ Open("write") /\ message # "ready"
    /\ \E n \in 0 .. frames :
          /\ frames' = frames - n
          /\ unsent' = unsent + n
          /\ finished' = (finished \/ (n > 0 /\ frames = n))
    /\ again' = (message = "writing" /\ frames' = 0)
    /\ message' = IF again' THEN "idle" ELSE message
    /\ task' = "flush"
    /\ UNCHANGED <<client, bytes, protocol, consumed, phase, timer, woken, closed>>

-----------------------------------------------------------------------------
(* Http1Io::poll_write, poll_write_vectored and poll_flush *)

response_flushed ==
    /\ finished' = FALSE
    /\ IF finished
       THEN phase' = "KEEP_ALIVE" /\ fresh' = FALSE /\ woken' = TRUE
       ELSE UNCHANGED <<phase, fresh, woken>>

EndPass == task' = IF again THEN "parse" ELSE "asleep"

\* The kernel takes some of the output, and Hyper writes on; or none, and the
\* task sleeps until it can or until the response's deadline.
PollWrite ==
    /\ Open("flush") /\ unsent > 0
    /\ \/ /\ \E n \in 1 .. unsent : unsent' = unsent - n
          /\ response_flushed
          /\ UNCHANGED <<task, closed>>
       \/ /\ \/ EndPass /\ UNCHANGED closed
             \/ closed' = "write" /\ UNCHANGED task
          /\ UNCHANGED <<unsent, finished, phase, fresh, woken>>
    /\ UNCHANGED <<client, bytes, protocol, consumed, readPhase, armed, again, message, frames>>

PollFlush ==
    /\ Open("flush") /\ unsent = 0
    /\ response_flushed
    /\ EndPass
    /\ UNCHANGED <<client, bytes, protocol, consumed, readPhase, armed, again, reply, closed>>

\* The task runs again when it was woken, or when a timer, the socket or the
\* body it waits for is ready.
Wake ==
    /\ Open("asleep")
    /\ woken \/ (armed /\ Timed(readPhase)) \/ unsent > 0 \/ message = "writing"
    /\ task' = "parse"
    /\ woken' = FALSE
    /\ armed' = FALSE
    /\ UNCHANGED <<client, bytes, protocol, consumed, phase, finished, readPhase, fresh,
                   again, reply, closed>>

Next ==
    \/ ClientSends \/ detect_protocol
    \/ PollReadBytes \/ PollReadPending
    \/ request_started \/ ParsePartial \/ HandlerReturns \/ PollFrames \/ PollWrite \/ PollFlush \/ Wake
    \/ \E n \in 0 .. MaxFrames : track_response(n)

Spec == Init /\ [][Next]_vars
-----------------------------------------------------------------------------
(* Properties *)

\* The shape of the state.
TypeOK ==
    /\ sent \in 0 .. Len(script) /\ taken \in 0 .. sent
    /\ protocol \in {"detecting", "Http1", "Http2"}
    /\ phase \in {"READING_HEAD", "IN_REQUEST", "KEEP_ALIVE"}
    /\ readPhase \in {"READING_HEAD", "IN_REQUEST", "KEEP_ALIVE"}
    /\ task \in {"read", "parse", "write", "flush", "asleep"}
    /\ message \in {"idle", "handling", "ready", "writing"}
    /\ frames \in 0 .. MaxFrames /\ unsent \in Nat
    /\ closed \in {"no", "detection", "READING_HEAD", "KEEP_ALIVE", "write"}

\* The bytes that detection read ahead are replayed once and in order.
BytesInOrder == delivered \o prefix = SubSeq(script, 1, taken)

\* A connection is closed for want of a head or of a next request only by a
\* timer that was restarted in that very phase, never while its handler works;
\* and one that sleeps in such a phase has that timer running, so that an idle
\* client does not keep it for ever.
ReadTimersCurrent ==
    /\ Timed(closed) => closed = phase /\ readPhase = phase /\ fresh /\ message # "handling"
    /\ Open("asleep") /\ ~woken /\ unsent = 0 /\ message = "idle" =>
          Timed(phase) /\ readPhase = phase /\ fresh /\ armed

\* The keep-alive deadline closes only connections whose response has been
\* flushed: "Keep-alive idle time begins only after the response body has
\* finished and Hyper has flushed it" (Http1Activity).
KeepAliveAfterFlush == closed = "KEEP_ALIVE" => unsent = 0 /\ message = "idle"
=============================================================================
