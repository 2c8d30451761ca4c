---------------------------- MODULE OutboundHttp ----------------------------
(***************************************************************************)
(* http.rs and http_error.rs: requests that Roc handlers send to other     *)
(* servers.  Handlers on several threads share one client and its runtime, *)
(* which the first of them builds; each call has one deadline, from the    *)
(* admission to the end of the response, and a limit on the body.  After   *)
(* the last handler the server shuts the client down.                      *)
(*                                                                         *)
(* Admission itself is in BoundedGate, name resolution in AsyncBoundedGate *)
(* and the ownership of arguments and result in HostedCalls.  The other    *)
(* server sends a body of `total` pieces and may declare its length.       *)
(***************************************************************************)
EXTENDS Integers, FiniteSets

CONSTANTS
    Threads,
    MaxTotal,           \* bound on the size of a response body
    max_response_bytes,
    None

Phases == {"Connecting", "Exchanging", "ReadingResponseBody"}

VARIABLES
    shared,             \* OUTBOUND_HTTP: the number of the client, or None
    built,              \* clients that have been built
    runtime,            \* "none", "running", "joined" or "abandoned"
    call                \* each thread's call

vars == <<shared, built, runtime, call>>

Fresh == [pc |-> "build", permit |-> FALSE, client |-> None, total |-> 0, declared |-> None,
          received |-> 0, phase |-> None, hyper |-> FALSE, result |-> None, at_least |-> 0]

Init ==
    /\ shared = None /\ built = 0 /\ runtime = "none"
    /\ call = [t \in Threads |-> Fresh]

At(t, step) == call[t].pc = step
Set(t, new) == call' = [call EXCEPT ![t] = new]
\* The result is there; the client and then the permit are dropped.
Result(t, result) == Set(t, [call[t] EXCEPT !.pc = "drop", !.result = result])
Shared == UNCHANGED <<shared, built, runtime>>

-----------------------------------------------------------------------------
(* http_error.rs *)

\* What can be found in the chain of an error: Hyper's predicates, the kind of
\* an I/O error, and concrete types.
Errors == [hyper : {None, "canceled", "timeout", "parse", "closed"},
           io : {None, "Interrupted", "TimedOut", "InvalidData", "ConnectionReset",
                 "UnexpectedEof", "NotFound", "ConnectionRefused"},
           source : {None, "tls", "dns_failed", "dns_saturated"}]

is_closed_io(kind) == kind \in {"ConnectionReset", "UnexpectedEof"}

\* The first that applies, once it is known what counts as a timeout.
Classified(e, phase, timeout) ==
    LET connecting == phase = "Connecting" IN
    IF e.hyper = "canceled" \/ e.io = "Interrupted" THEN "Cancelled"
    ELSE IF timeout THEN "Timeout"
    ELSE IF e.source = "tls" THEN "TlsFailed"
    ELSE IF \/ e.hyper = "parse"
            \/ phase = "ReadingResponseBody" /\ e.io = "InvalidData" THEN "InvalidResponse"
    ELSE IF \/ e.hyper = "closed"
            \/ is_closed_io(e.io) /\ (~connecting \/ e.io = "UnexpectedEof") THEN "ConnectionClosed"
    ELSE IF connecting /\ e.source = "dns_saturated" THEN "Saturated"
    ELSE IF connecting /\ (e.source = "dns_failed" \/ e.io = "NotFound") THEN "DnsFailed"
    ELSE IF connecting /\ e.io # None THEN "ConnectFailed"
    ELSE CASE phase = "Connecting" -> "Other"
           [] phase = "Exchanging" -> "ExchangeFailed"
           [] phase = "ReadingResponseBody" -> "ResponseBodyFailed"

\* A timeout is a timeout, whatever it interrupted.
classify_any_timeout(e, phase) ==
    Classified(e, phase, e.hyper = "timeout" \/ e.io = "TimedOut")

classify(e, phase) ==
    Classified(e, phase, e.hyper = "timeout" \/ (phase # "Connecting" /\ e.io = "TimedOut"))

Fail(t, phase) ==
    \E e \in Errors :
        Set(t, [call[t] EXCEPT !.pc = "drop", !.phase = phase, !.hyper = (e.hyper = "timeout"),
                               !.result = classify(e, phase)])

-----------------------------------------------------------------------------
(* hosted_http_send_request *)

\* A request that cannot be built, or is not for http or https, goes nowhere.
build_hyper_request(t) ==
    /\ At(t, "build") /\ runtime \in {"none", "running"}
    /\ \/ Result(t, "InvalidRequest")
       \/ Set(t, [call[t] EXCEPT !.pc = "acquire"])
    /\ Shared

\* OUTBOUND_GATE.acquire, and what is left of the deadline.
acquire(t) ==
    /\ At(t, "acquire")
    /\ \/ Result(t, "Saturated")
       \/ Result(t, "Timeout")
       \/ Set(t, [call[t] EXCEPT !.pc = "lookup", !.permit = TRUE])
       \/ Set(t, [call[t] EXCEPT !.pc = "drop", !.permit = TRUE, !.result = "Timeout"])
    /\ Shared

\* Two threads may both find no client.
outbound_http_unlocked(t) ==
    /\ At(t, "lookup")
    /\ built' = IF shared = None \/ \E u \in Threads \ {t} : At(u, "lookup") THEN built + 1 ELSE built
    /\ shared' = IF built' > built THEN built' ELSE shared
    /\ runtime' = "running"
    /\ Set(t, [call[t] EXCEPT !.pc = "request", !.client = shared'])

\* Under the mutex: the first call builds the client, the others share it.
outbound_http(t) ==
    /\ At(t, "lookup")
    /\ built' = IF shared = None THEN built + 1 ELSE built
    /\ shared' = IF shared = None THEN built' ELSE shared
    /\ runtime' = "running"
    /\ Set(t, [call[t] EXCEPT !.pc = "request", !.client = shared'])

\* async_send_request up to the response's head.
SendRequest(t) ==
    /\ At(t, "request")
    /\ \/ Fail(t, "Connecting")
       \/ Fail(t, "Exchanging")
       \/ Result(t, "InvalidResponse")        \* a field that is not text
       \/ \E total \in 0 .. MaxTotal : \E declared \in {None, total} :
             LET c == [call[t] EXCEPT !.total = total, !.declared = declared]
             IN  IF declared # None /\ total > max_response_bytes
                 THEN Set(t, [c EXCEPT !.pc = "drop", !.result = "ResponseTooLarge",
                                       !.at_least = total])
                 ELSE Set(t, [c EXCEPT !.pc = "body"])
    /\ Shared

\* The body is cut at the limit.
ReadFrameTruncating(t) ==
    /\ At(t, "body") /\ call[t].received < call[t].total
    /\ \E n \in 1 .. call[t].total - call[t].received :
          LET received == call[t].received + n IN
          IF received > max_response_bytes THEN Result(t, "Ok")
          ELSE Set(t, [call[t] EXCEPT !.received = received])
    /\ Shared

\* The loop over the frames.
ReadFrame(t) ==
    /\ At(t, "body") /\ call[t].received < call[t].total
    /\ \E n \in 1 .. call[t].total - call[t].received :
          LET received == call[t].received + n IN
          IF received > max_response_bytes
          THEN Set(t, [call[t] EXCEPT !.pc = "drop", !.result = "ResponseTooLarge",
                                      !.at_least = received])
          ELSE Set(t, [call[t] EXCEPT !.received = received])
    /\ Shared

ReadEnd(t) ==
    /\ At(t, "body")
    /\ \/ call[t].received = call[t].total /\ Result(t, "Ok")
       \/ Fail(t, "ReadingResponseBody")
    /\ Shared

\* tokio::time::timeout drops the exchange where it is.
Deadline(t) ==
    /\ call[t].pc \in {"request", "body"}
    /\ Result(t, "Timeout")
    /\ Shared

\* The permit is back while the client is still held.
DropPermitFirst(t) ==
    /\ At(t, "drop") \/ At(t, "drop_permit")
    /\ Set(t, IF At(t, "drop") THEN [call[t] EXCEPT !.pc = "drop_permit", !.permit = FALSE]
              ELSE Fresh)
    /\ Shared

\* Locals are dropped in reverse order: the client, then the permit.  The call
\* has returned, and the handler may make another.
DropLocals(t) ==
    /\ At(t, "drop") \/ At(t, "drop_permit")
    /\ Set(t, IF At(t, "drop") THEN [call[t] EXCEPT !.pc = "drop_permit", !.client = None]
              ELSE Fresh)
    /\ Shared

-----------------------------------------------------------------------------
(* shutdown, after the last handler and the hook *)

Users == {t \in Threads : call[t].client # None}

\* Takes the client, and the runtime from it unless somebody else has it.
shutdown ==
    /\ runtime \in {"none", "running"}
    /\ \A t \in Threads : At(t, "build")
    /\ shared' = None
    /\ runtime' = IF shared # None /\ Users # {} THEN "abandoned" ELSE "joined"
    /\ UNCHANGED <<built, call>>

Next ==
    \/ \E t \in Threads :
          \/ build_hyper_request(t) \/ acquire(t) \/ outbound_http(t) \/ SendRequest(t)
          \/ ReadFrame(t) \/ ReadEnd(t) \/ Deadline(t) \/ DropLocals(t)
    \/ shutdown

Spec == Init /\ [][Next]_vars
-----------------------------------------------------------------------------
(* Properties *)

\* The shape of the state.
TypeOK ==
    /\ runtime \in {"none", "running", "joined", "abandoned"}
    /\ \A t \in Threads :
          /\ call[t].pc \in {"build", "acquire", "lookup", "request", "body", "drop",
                             "drop_permit"}
          /\ call[t].permit \in BOOLEAN
          /\ call[t].received \in 0 .. MaxTotal

\* One client serves all calls, and whoever has it has a permit, so that the
\* limit of the gate bounds its users.
ClientShared ==
    /\ built <= 1
    /\ \A t \in Users : call[t].client = shared /\ call[t].permit

\* A success is the whole response, never more than the limit; and a response is
\* called too large only if it is.
ResponseWhole ==
    \A t \in Threads :
        /\ call[t].received <= max_response_bytes
        /\ call[t].result = "Ok" => call[t].received = call[t].total
        /\ call[t].result = "ResponseTooLarge" =>
              call[t].at_least \in max_response_bytes + 1 .. call[t].total

\* An error says what had happened: a failure to resolve or to connect only
\* while connecting, a failure of the body only while it is read, and a time-out
\* of the connection attempt is not one of the call.
ErrorsNameTheirPhase ==
    \A t \in Threads : call[t].phase # None =>
        LET result == call[t].result
            phase == call[t].phase
        IN  /\ result \in {"Saturated", "DnsFailed", "ConnectFailed", "Other"} => phase = "Connecting"
            /\ result = "ExchangeFailed" => phase = "Exchanging"
            /\ result = "ResponseBodyFailed" => phase = "ReadingResponseBody"
            /\ result = "Timeout" =>
                  call[t].hyper \/ phase # "Connecting"
=============================================================================
