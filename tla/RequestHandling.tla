--------------------------- MODULE RequestHandling ---------------------------
(***************************************************************************)
(* handle_req, handle_panics and finalize_and_track_response of            *)
(* http_server.rs, with telemetry.rs: the stages of a request, the guards  *)
(* it collects on its way (the active request, a stream slot, a Brotli     *)
(* lane, the Roc job), and the one record it leaves in the metrics and in  *)
(* the bounded access log.                                                 *)
(*                                                                         *)
(* A request's future may be dropped at any await, when its connection is  *)
(* lost; its Roc job then still owns clones of the active request and of   *)
(* the telemetry.  A stream's slot goes with its source; its lane may be   *)
(* with a Brotli worker, and comes back only when that worker is done.     *)
(* The executors are modelled in RocDispatch and BrotliExecutor, the file  *)
(* transfers and SSE sources elsewhere: here they are their outcomes.      *)
(***************************************************************************)
EXTENDS Naturals, FiniteSets

CONSTANTS
    Requests,
    MaxStreams,         \* max_sse_streams: permits of stream_slots, and lanes of the
                        \* Brotli executor
    LogEvents           \* buffer_events of the access log

VARIABLES
    req,                \* per request: see Fresh
    stopping,           \* ActiveRequests refuses new requests
    gauge, totals,      \* Metrics: requests in progress; finished ones
    logged, written, dropped, failed, \* the access log: queued events; counters
    writer,             \* write_access_log: "writing", "failing" or "exited"
    worker              \* LogWorker: "running", "stopping", "joined" or "detached"

vars == <<req, stopping, gauge, totals, logged, written, dropped, failed, writer, worker>>
metrics == <<gauge, totals, logged, written, dropped, failed, writer, worker>>

None == "none"
Fresh == [pc |-> "new", job |-> None, active |-> FALSE, slot |-> FALSE,
          lane |-> None,        \* "idle" with the request, "lent" to an operation of its
                                \* body, or "left": dropped, and not yet released
          error |-> None,       \* SseTransitionError, as the reason it is recorded with
          destination |-> None, rejection |-> None,
          status |-> 0,         \* 200 for any the host does not answer itself, 400
                                \* for its 4xx rejections but 406, 500, 503; 0: none yet
          finished |-> FALSE, completion |-> None]

\* Stages at which the future exists and has not produced its response.
InHandler == {"begin", "validate", "route", "dispatch", "roc", "file", "stream", "lane",
              "precommit", "uncommitted", "cancelled", "unwinding"}

\* Those of them at which it is suspended, and may be dropped.
Suspended == {"begin", "roc", "file", "precommit"}

SlotsHeld == Cardinality({r \in Requests : req[r].slot})
LanesHeld == Cardinality({r \in Requests : req[r].lane # None})

Init ==
    /\ req = [r \in Requests |-> Fresh]
    /\ stopping = FALSE
    /\ gauge = 0 /\ totals = 0
    /\ logged = 0 /\ written = 0 /\ dropped = 0 /\ failed = 0
    /\ writer = "writing" /\ worker = "running"

\* RequestTelemetry::reject and reject_for_destination
reject(x, destination, reason) ==
    [x EXCEPT !.destination = destination, !.rejection = reason]

\* SseBody drops its encoder, and a lane it has at hand with it, and then the
\* source with the slot.
DropBody(x) == [x EXCEPT !.slot = FALSE, !.lane = IF @ = "idle" THEN None ELSE @]

\* A future that is dropped while it starts a stream drops the source before the
\* lane, which others see released a moment later.
DropSource(x) == [x EXCEPT !.slot = FALSE, !.lane = IF @ = "idle" THEN "left" ELSE @]

-----------------------------------------------------------------------------
(* telemetry.rs *)

\* LogSender::send: a full queue drops the event, a writer that is gone fails it.
send ==
    CASE writer = "exited" -> failed' = failed + 1 /\ UNCHANGED <<logged, dropped>>
      [] writer # "exited" /\ logged < LogEvents ->
            logged' = logged + 1 /\ UNCHANGED <<dropped, failed>>
      [] OTHER -> dropped' = dropped + 1 /\ UNCHANGED <<logged, failed>>

\* Every call records.
finish_again(r, x, completion) ==
    /\ req' = [req EXCEPT ![r] = [x EXCEPT !.finished = TRUE, !.completion = completion]]
    /\ gauge' = gauge - 1
    /\ totals' = totals + 1
    /\ send
    /\ UNCHANGED <<written, writer, worker>>

\* RequestInner::finish: only the first call records; x is the request's new state.
finish(r, x, completion) ==
    IF x.finished
    THEN req' = [req EXCEPT ![r] = x] /\ UNCHANGED metrics
    ELSE /\ req' = [req EXCEPT ![r] = [x EXCEPT !.finished = TRUE, !.completion = completion]]
         /\ gauge' = gauge - 1
         /\ totals' = totals + 1
         /\ send
         /\ UNCHANGED <<written, writer, worker>>

\* The future or body of r is gone, with the guards that x no longer has.  The
\* last clone of its telemetry finishes it as dropped; a job that is still there
\* keeps one.
Gone(r, x) ==
    LET y == [x EXCEPT !.pc = "over", !.active = FALSE] IN
    IF y.job = None
    THEN finish(r, y, "BodyDropped")
    ELSE req' = [req EXCEPT ![r] = y] /\ UNCHANGED metrics

start_request(r) ==
    /\ req[r].pc = "new"
    /\ req' = [req EXCEPT ![r].pc = "begin"]
    /\ gauge' = gauge + 1
    /\ UNCHANGED <<stopping, totals, logged, written, dropped, failed, writer, worker>>

\* write_access_log: after a write error the rest of the queue is counted as failed.
write_access_log ==
    /\ logged > 0
    /\ logged' = logged - 1
    /\ \/ writer = "writing" /\ written' = written + 1 /\ UNCHANGED <<failed, writer>>
       \/ failed' = failed + 1 /\ writer' = "failing" /\ UNCHANGED written
    /\ UNCHANGED <<req, stopping, gauge, totals, dropped, worker>>

\* Telemetry::shutdown, when every other handle is gone: the sender is dropped.
shutdown ==
    /\ worker = "running" /\ stopping
    /\ \A r \in Requests : req[r].pc = "over" /\ req[r].job = None
    /\ worker' = "stopping"
    /\ UNCHANGED <<req, stopping, gauge, totals, logged, written, dropped, failed, writer>>

\* Without a sender, write_access_log empties the queue and returns.
WriterExits ==
    /\ worker # "running" /\ logged = 0 /\ writer # "exited"
    /\ writer' = "exited"
    /\ UNCHANGED <<req, stopping, gauge, totals, logged, written, dropped, failed, worker>>

\* LogWorker::stop joins a writer that has returned, and after
\* ACCESS_LOG_DRAIN_TIMEOUT leaves one that has not.
LogWorkerStop ==
    /\ worker = "stopping"
    /\ worker' = IF writer = "exited" THEN "joined" ELSE "detached"
    /\ UNCHANGED <<req, stopping, gauge, totals, logged, written, dropped, failed, writer>>

-----------------------------------------------------------------------------
(* handle_req *)

Step(r, x) == req' = [req EXCEPT ![r] = x] /\ UNCHANGED <<stopping, metrics>>
At(r, pc) == req[r].pc = pc
Goto(r, pc) == [req[r] EXCEPT !.pc = pc]

\* track_response and instrument: an empty body ends the record at once.  A
\* stream's body is empty only when finalize_response replaced it, for HEAD.
instrument(r, x) ==
    \/ finish(r, [DropBody(x) EXCEPT !.pc = "empty"], "EndOfStream")
    \/ req' = [req EXCEPT ![r] = [x EXCEPT !.pc = "body"]] /\ UNCHANGED metrics

\* finalize_and_track_response: a response that breaks HTTP's rules is dropped,
\* with the guards in its body, for a 500.
Respond(r, x, status) ==
    /\ \/ instrument(r, [x EXCEPT !.status = status])
       \/ instrument(r, [reject(DropBody(x), "HostRejection", "InvalidRocResponse") EXCEPT
                            !.status = 500])
    /\ UNCHANGED stopping

Reject(r, status, reason) ==
    Respond(r, [reject(req[r], "HostRejection", reason) EXCEPT !.slot = FALSE], status)

begin(r) ==
    /\ At(r, "begin")
    /\ IF stopping
       THEN Reject(r, 503, "Shutdown")
       ELSE Step(r, [Goto(r, "validate") EXCEPT !.active = TRUE])

\* validate_parts, admit_parts
validate(r) ==
    /\ At(r, "validate")
    /\ \/ Reject(r, 400, "InvalidHeaders")
       \/ Step(r, Goto(r, "route"))

\* Native routes, then the checks before a Roc handler.
route(r) ==
    /\ At(r, "route")
    /\ \/ Step(r, [Goto(r, "file") EXCEPT !.destination = "NativeFile"])
       \/ \E status \in {200, 503} :
             Respond(r, [req[r] EXCEPT !.destination = "NativeProbe"], status)
       \/ Respond(r, [req[r] EXCEPT !.destination = "NativeMetrics"], 200)
       \/ Reject(r, 400, "InvalidHeaders")
       \/ Reject(r, 400, "BodyTooLarge")
       \/ Step(r, Goto(r, "dispatch"))

\* try_submit
dispatch(r) ==
    /\ At(r, "dispatch")
    /\ \/ Reject(r, 503, "HandlerOverload")
       \/ stopping /\ Reject(r, 503, "Shutdown")
       \/ \E class \in {"queued", "running"} :
             Step(r, [Goto(r, "roc") EXCEPT !.job = class, !.destination = "Roc"])

\* A worker takes the queued job.
Claim(r) ==
    /\ req[r].job = "queued"
    /\ Step(r, [req[r] EXCEPT !.job = "running"])

\* QueuedRocJobGuard::cancel after handler_queue_timeout wins only while the
\* job is queued.
QueueTimeout(r) ==
    /\ At(r, "roc") /\ req[r].job = "queued"
    /\ Respond(r, [reject(req[r], "HostRejection", "HandlerOverload") EXCEPT !.job = None], 503)

\* The job runs to its end and sends its outcome, or loses it.  Without a
\* receiver nobody answers, and the job may drop the last clones.
JobEnds(r) ==
    /\ req[r].job = "running"
    /\ LET x == [req[r] EXCEPT !.job = None] IN
       IF At(r, "roc")
       THEN \/ Respond(r, x, 200)
            \/ \E reason \in {"RocPanic", "HostPanic", "InvalidRocResponse"} :
                  Respond(r, reject(x, "HostRejection", reason), 500)
            \/ Step(r, [x EXCEPT !.pc = "file", !.destination = "NativeFile"])
            \/ Step(r, [x EXCEPT !.pc = "stream"])
       ELSE IF At(r, "over")
            THEN finish(r, x, "BodyDropped") /\ UNCHANGED stopping
            ELSE Step(r, x)

\* NativeFiles::serve and record_file_failure
serve(r) ==
    /\ At(r, "file")
    /\ \/ Respond(r, req[r], 200)
       \/ \E f \in {<<503, "FileOverload">>, <<500, "InvalidRocResponse">>, <<500, "FileFailure">>} :
             Respond(r, reject(req[r], "NativeFile", f[2]), f[1])

\* A stream needs a slot.
stream(r) ==
    /\ At(r, "stream")
    /\ \/ Respond(r, req[r], 406)     \* no_acceptable_sse_content_coding
       \/ SlotsHeld = MaxStreams /\ Reject(r, 503, "HandlerOverload")
       \/ SlotsHeld < MaxStreams /\ Step(r, [Goto(r, "lane") EXCEPT !.slot = TRUE])

\* And, if it is to be compressed, a lane.
try_admit(r) ==
    /\ At(r, "lane")
    /\ \/ Step(r, Goto(r, "precommit"))
       \/ LanesHeld < MaxStreams /\ Step(r, [Goto(r, "precommit") EXCEPT !.lane = "idle"])
       \/ LanesHeld = MaxStreams /\ Reject(r, 503, "HandlerOverload")

\* The first item; an error, with which precommit drops the source and its slot;
\* or the shutdown, which drops the lane and leaves the source in its future.
precommit(r) ==
    /\ At(r, "precommit")
    /\ \/ Respond(r, req[r], 200)
       \/ \E error \in {"HandlerOverload", "Shutdown", "RocPanic", "InvalidRocResponse"} :
             /\ error = "Shutdown" => stopping
             /\ Step(r, [Goto(r, "uncommitted") EXCEPT !.slot = FALSE, !.error = error])
       \/ stopping /\ Step(r, [Goto(r, "cancelled") EXCEPT !.lane = None, !.error = "Shutdown"])

\* The lane is not dropped.
UncommittedKeepsLane(r) ==
    /\ req[r].pc \in {"uncommitted", "cancelled"}
    /\ LET status == IF req[r].error \in {"HandlerOverload", "Shutdown"} THEN 503 ELSE 500
       IN Reject(r, status, req[r].error)

\* What is left of the two is dropped, and the error is answered.
uncommitted(r) ==
    /\ req[r].pc \in {"uncommitted", "cancelled"}
    /\ LET status == IF req[r].error \in {"HandlerOverload", "Shutdown"} THEN 503 ELSE 500
       IN Respond(r, reject(DropBody(req[r]), "HostRejection", req[r].error), status)

\* A panic while the stream starts unwinds the source before the lane.
Unwind(r) ==
    /\ At(r, "precommit")
    /\ Step(r, [Goto(r, "unwinding") EXCEPT !.slot = FALSE])

\* handle_panics: the future unwound, dropping its guards.  A queued job is
\* cancelled by its guard.
handle_panics(r) ==
    /\ req[r].pc \in InHandler \ {"precommit"}
    /\ LET x == [DropBody(req[r]) EXCEPT !.active = FALSE,
                               !.job = IF req[r].job = "queued" THEN None ELSE @]
       IN Respond(r, reject(x, "HostRejection", "HostPanic"), 500)

-----------------------------------------------------------------------------
(* CompletionBody, TrackedResponseBody and the connection *)

\* poll_bounded_operation: the body's lane goes to an operation and comes back.
LendLane(r) ==
    /\ At(r, "body") /\ req[r].lane = "idle"
    /\ Step(r, [req[r] EXCEPT !.lane = "lent"])

OperationDone(r) ==
    /\ At(r, "body") /\ req[r].lane = "lent"
    /\ Step(r, [req[r] EXCEPT !.lane = "idle"])

\* The last frame, after which the tracked body keeps the active request until
\* it is polled again or dropped, the end, or an error.  The record is finished,
\* and a stream has dropped its encoder and its source; no operation runs then.
BodyEnds(r) ==
    /\ At(r, "body") /\ req[r].lane # "lent"
    /\ LET x == [DropBody(req[r]) EXCEPT !.pc = "ended"] IN
       \/ finish(r, x, "EndOfStream")
       \/ \E completion \in {"EndOfStream", "BodyFailure"} :
             finish(r, [x EXCEPT !.active = FALSE], completion)
    /\ UNCHANGED stopping

\* pending_body: the idle deadline.  The body keeps what it has until it is dropped.
BodyTimesOut(r) ==
    /\ At(r, "body")
    /\ finish(r, [req[r] EXCEPT !.pc = "ended", !.active = FALSE], "BodyFailure")
    /\ UNCHANGED stopping

\* The transport drops the response.  BrotliJob::drop releases the lane with a
\* result that it finds; otherwise the worker, which has the lane, will.
BodyDropped(r) ==
    /\ req[r].pc \in {"empty", "body", "ended"}
    /\ LET x == DropBody(req[r]) IN
       IF x.lane = "lent"
       THEN \E lane \in {None, "left"} : Gone(r, [x EXCEPT !.lane = lane])
       ELSE Gone(r, x)
    /\ UNCHANGED stopping

\* The connection is lost and the request's future with it.
FutureDropped(r) ==
    /\ req[r].pc \in Suspended
    /\ Gone(r, [DropSource(req[r]) EXCEPT !.job = IF @ = "queued" THEN None ELSE @])
    /\ UNCHANGED stopping

\* worker_loop and publish find the operation cancelled, or the drop comes to it.
LaneReleased(r) ==
    /\ req[r].lane = "left"
    /\ Step(r, [req[r] EXCEPT !.lane = None])

StopAdmission ==
    /\ ~stopping
    /\ stopping' = TRUE
    /\ UNCHANGED <<req, metrics>>

Next ==
    \/ \E r \in Requests :
          \/ start_request(r) \/ begin(r) \/ validate(r) \/ route(r) \/ dispatch(r)
          \/ Claim(r) \/ QueueTimeout(r) \/ JobEnds(r) \/ serve(r) \/ stream(r) \/ try_admit(r)
          \/ precommit(r) \/ uncommitted(r) \/ Unwind(r) \/ handle_panics(r)
          \/ LendLane(r) \/ OperationDone(r) \/ BodyEnds(r) \/ BodyTimesOut(r)
          \/ BodyDropped(r) \/ FutureDropped(r) \/ LaneReleased(r)
    \/ write_access_log \/ shutdown \/ WriterExits \/ LogWorkerStop \/ StopAdmission

Spec == Init /\ [][Next]_vars
-----------------------------------------------------------------------------
(* Properties *)

\* The shape of the state.
TypeOK ==
    /\ \A r \in Requests :
          /\ req[r].pc \in InHandler \cup {"new", "empty", "body", "ended", "over"}
          /\ req[r].job \in {None, "queued", "running"}
          /\ req[r].lane \in {None, "idle", "lent", "left"}
          /\ req[r].completion \in {None, "EndOfStream", "BodyFailure", "BodyDropped"}
    /\ gauge \in Nat /\ logged \in 0 .. LogEvents
    /\ worker \in {"running", "stopping", "joined", "detached"}

\* A request is in progress for the metrics from its start until its one record,
\* and has that record when it and its job are gone; every record's log event is
\* queued, written, counted as dropped or counted as failed; and none is still
\* queued when the writer was joined, as it may be when the writer was left.
RecordedOnce ==
    /\ gauge = Cardinality({r \in Requests : req[r].pc # "new" /\ ~req[r].finished})
    /\ totals = Cardinality({r \in Requests : req[r].finished})
    /\ \A r \in Requests : req[r].pc = "over" /\ req[r].job = None => req[r].finished
    /\ totals = logged + written + dropped + failed
    /\ worker = "joined" => totals = Cardinality(Requests) /\ logged = 0

\* A response that failed in the host is recorded with a reason, and no reason
\* is left on one that succeeded.  Two answers of the host have none: the 406 of
\* a stream whose codings the client refuses, and a probe's own 503.
FailuresLabelled ==
    \A r \in Requests : req[r].finished /\ req[r].status # 0 =>
        (req[r].rejection # None) <=>
           /\ req[r].status \in {400, 500, 503}
           /\ req[r].destination # "NativeProbe"

\* A stream slot is held only for a stream that is starting or being answered, and
\* a lane that its owner can use only with the slot, or for the moment in which a
\* stream that could not start is given up.  A request that is over has neither
\* slot nor job waiting, and a lane only until a Brotli worker releases it: so a
\* stream that has its slot finds no lane only while one is on its way back.
GuardsReturned ==
    /\ SlotsHeld <= MaxStreams /\ LanesHeld <= MaxStreams
    /\ \A r \in Requests : LET x == req[r] IN
          /\ x.slot => /\ x.pc \in {"lane", "precommit", "cancelled", "body", "ended"}
                       /\ x.status \in {0, 200}
          /\ x.lane \in {"idle", "lent"} => x.slot \/ x.pc \in {"uncommitted", "unwinding"}
          /\ x.lane = "left" => x.pc = "over"
          /\ x.pc = "over" => ~x.active /\ x.job # "queued"
          /\ x.pc = "lane" /\ LanesHeld = MaxStreams =>
                \E q \in Requests : req[q].lane # None /\ ~req[q].slot
=============================================================================
