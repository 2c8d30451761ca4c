---------------------------- MODULE MCRequestPath ----------------------------
(***************************************************************************)
(* What happens to a request between the socket and the Roc executor: the  *)
(* connection, the target and the route, the stages of the handler, the    *)
(* framing of the response, and a streamed body with its compression       *)
(* lanes.  Each behaviour explores one of these parts: `part` names it,    *)
(* and the variables of the others are Off.  The compression executor is   *)
(* extended and rests in its initial state meanwhile.                      *)
(***************************************************************************)
EXTENDS BrotliExecutor, TLC

CONSTANTS MaxFrames, Requests

VARIABLES
    part,
    script, sent, taken, protocol, prefix, delivered, consumed, phase, finished,
    readPhase, fresh, armed, task, notified, again, message, frames, unsent, closed,
    slots, free, reserved, transport, waiter, mode, bodyPhase, hold, item, offset,
    codec, job, step, outcome, left, outstanding, polling, sender, frame, queue,
    acked, emitted, lost,
    req, stopping, gauge, totals, logged, written, dropped, failed, writer, worker,
    request, table, target, routed, given, backing, count,
    case, prepared, final

wireVars == <<script, sent, taken, protocol, prefix, delivered, consumed, phase,
              finished, readPhase, fresh, armed, task, notified, again, message,
              frames, unsent, closed>>
bodyVars == <<slots, free, reserved, transport, waiter, mode, bodyPhase, hold,
              item, offset, codec, job, step, outcome, left, outstanding, polling,
              sender, frame, queue, acked, emitted, lost>>
requestVars == <<req, stopping, gauge, totals, logged, written, dropped, failed,
                 writer, worker>>
targetVars == <<request, table, target, routed, given, backing, count>>
framingVars == <<case, prepared, final>>

\* Nothing tells one request from another.
Symmetry == Permutations(Requests)

-----------------------------------------------------------------------------
(* The cases considered *)

\* HTTP/1.1 clients that send up to three requests, pipelined or not, and an
\* HTTP/2 client.
Scripts == {<<"P", "O", "P", "O", "G", "E">>, <<"G", "E", "P">>, <<"P", "R">>}

\* A URI has a scheme only with an authority and a path; without one it has
\* either an authority or a path.
WellFormed(r) ==
    /\ r.scheme => r.authority # None /\ r.path # <<>>
    /\ r.scheme /\ r.version # "HTTP_2" => r.path # <<"*">>
    /\ ~r.scheme => (r.authority = None) # (r.path = <<>>)
Hosts == {"a", "A", "b", "bad"}
\* A Host field is its name and its value; any other has a name of one byte.
HostBytes(r, i) == IF i <= Len(r.hosts) THEN 4 + Len(r.hosts[i]) ELSE 0
Sized(r) == [r EXCEPT !.bytes = HostBytes(r, 1) + HostBytes(r, 2) + r.fields - Len(r.hosts)]
Targeted == {r \in [method : {"GET", "POST", "OPTIONS", "CONNECT"},
                    version : {"HTTP_10", "HTTP_11", "HTTP_2"}, scheme : BOOLEAN,
                    authority : Hosts \cup {None}, path : {<<>>, <<"">>, <<"a">>, <<"*">>},
                    query : {None},
                    hosts : UNION {[1 .. n -> Hosts \cup {""}] : n \in 0 .. 2},
                    fields : 1 .. 2, bytes : {0}] :
                /\ WellFormed(r) /\ Len(r.hosts) <= r.fields
                /\ (r.fields > 1 => Len(r.hosts) = 2 \/ r.hosts = <<"a">>)}
Plain == [method |-> "GET", version |-> "HTTP_11", scheme |-> FALSE, authority |-> None,
          path |-> <<"">>, query |-> None, hosts |-> <<"a">>, fields |-> 1, bytes |-> 5]
Paths == {<<"">>, <<"a">>, <<"b">>, <<"a", "">>, <<"a", "b">>, <<"a", "b", "c">>, <<"ab">>,
          <<"a", "b", "c", "d">>}
TargetCases ==
    [request : {Sized(r) : r \in Targeted}, table : {[exact |-> {}, prefixes |-> {<<"">>}]}]
    \cup [request : {[Plain EXCEPT !.path = p] : p \in Paths},
          table : [exact : {{}, {<<"a">>}, {<<"a", "b">>}},
                   prefixes : SUBSET {<<"">>, <<"a">>, <<"b">>, <<"a", "b">>, <<"ab">>}]]
    \* the limits: the query's part of a target, fields within or over the limit
    \* of their number and of their bytes
    \cup [request : {[Plain EXCEPT !.version = "HTTP_10", !.hosts = <<>>,
                            !.path = p, !.query = q, !.fields = n, !.bytes = b] :
                         p \in {<<"a", "b", "c">>, <<"a", "bc">>, <<"">>},
                         q \in {None, "", "q", "qqqq"}, n \in 1 .. 2, b \in {6, 38, 39}},
          table : {[exact |-> {}, prefixes |-> {<<"">>}]}]
    \* for Roc; a method of its own, no field at all
    \cup [request : {Sized(r) : r \in {r \in [method : {"GET", "PURGE", "OPTIONS", "CONNECT"},
                            version : {"HTTP_10", "HTTP_11", "HTTP_2"}, scheme : BOOLEAN,
                            authority : {"a", None}, path : {<<>>, <<"a">>, <<"*">>},
                            query : {None, "", "q"}, hosts : {<<>>, <<"">>, <<"b">>},
                            fields : 0 .. 1, bytes : {0}] :
                        /\ Len(r.hosts) <= r.fields /\ (r.query # None => r.path = <<"a">>)
                        /\ WellFormed(r)}},
          table : {[exact |-> {}, prefixes |-> {}]}]

\* -1 is an absent weight, length, position or date, <<>> an absent field.
Weights == {-1, 0, 5, 10}
NoAccept == [present |-> FALSE, zstd |-> -1, br |-> -1, gzip |-> -1, identity |-> -1, any |-> -1]
Accepts == [present : {TRUE}, zstd : Weights, br : Weights, gzip : {-1, 5},
            identity : Weights, any : {-1, 0, 5}]
FewAccepts == {NoAccept, [NoAccept EXCEPT !.present = TRUE, !.zstd = 10],
               [NoAccept EXCEPT !.present = TRUE, !.br = 0]}
Anything == <<FALSE, "*", "*">>
WeakTag == <<TRUE, "file", None>>
File == [kind |-> "file", method |-> "GET", length |-> 3, plain |-> TRUE, accept |-> NoAccept,
         range |-> <<>>, if_range |-> <<>>, if_match |-> <<>>, if_none_match |-> <<>>,
         if_unmodified_since |-> -1, if_modified_since |-> -1, modified |-> 5]
FramingCases ==
    \* ranges
    {[File EXCEPT !.method = m, !.length = n, !.range = r, !.if_range = i] :
        m \in {"GET", "HEAD"}, n \in 0 .. 4, r \in {<<>>} \cup ((-1 .. 4) \X (-1 .. 4)),
        i \in {<<>>, <<"garbage">>, <<"date", 4>>, <<"date", 5>>, <<"etag", WeakTag>>,
               <<"etag", <<FALSE, "file", None>>>>}}
    \* content coding
    \cup {[File EXCEPT !.method = m, !.length = n, !.plain = p, !.accept = a] :
        m \in {"GET", "HEAD"}, n \in 1 .. 2, p \in BOOLEAN, a \in Accepts}
    \* preconditions
    \cup {[File EXCEPT !.accept = a, !.if_match = im, !.if_none_match = in, !.range = r,
               !.if_unmodified_since = us, !.if_modified_since = ms, !.modified = md] :
        a \in FewAccepts, im \in {<<>>, Anything, WeakTag},
        in \in {<<>>, Anything, WeakTag, <<TRUE, "file", "zstd">>, <<FALSE, "file", "zstd">>,
                <<TRUE, "other", None>>},
        r \in {<<>>, <<1, 1>>}, us \in {-1, 4, 5}, ms \in {-1, 4, 5}, md \in {-1, 5}}
    \* responses of the application
    \cup [kind : {"application"}, method : {"GET", "HEAD", "CONNECT"},
          status : {101, 200, 204, 205, 206, 304, 404}, length : 0 .. 4, encoded : {1, 3},
          lengths : {<<>>, <<0>>, <<2>>, <<2, 2>>, <<2, 3>>}, plain : BOOLEAN, accept : FewAccepts]

-----------------------------------------------------------------------------
(* The parts *)

Http1 == INSTANCE Http1Transport WITH woken <- notified
Body == INSTANCE ResponseStream
            WITH MaxSlots <- 2, FrameBytes <- 2, MaxItem <- 3, Items <- 2,
                 phase <- bodyPhase, encoder <- codec
Handling == INSTANCE RequestHandling WITH MaxStreams <- 1, LogEvents <- 1
Targets == INSTANCE RequestConversion
            WITH Cases <- TargetCases, MaxTarget <- 6, MaxFields <- 1, MaxHeaderBytes <- 70,
                 Alphabet <- <<"", "a", "ab", "b">>, result <- routed
Framing == INSTANCE ResponseFraming
            WITH Cases <- FramingCases, MinCompression <- 2, MaxCompression <- 3

Off == <<>>
WireOff ==
    /\ script = Off /\ sent = Off /\ taken = Off /\ protocol = Off /\ prefix = Off
    /\ delivered = Off /\ consumed = Off /\ phase = Off /\ finished = Off
    /\ readPhase = Off /\ fresh = Off /\ armed = Off /\ task = Off /\ notified = Off
    /\ again = Off /\ message = Off /\ frames = Off /\ unsent = Off /\ closed = Off
BodyOff ==
    /\ slots = Off /\ free = Off /\ reserved = Off /\ transport = Off
    /\ waiter = Off /\ mode = Off /\ bodyPhase = Off /\ hold = Off /\ item = Off
    /\ offset = Off /\ codec = Off /\ job = Off /\ step = Off /\ outcome = Off
    /\ left = Off /\ outstanding = Off /\ polling = Off /\ sender = Off
    /\ frame = Off /\ queue = Off /\ acked = Off /\ emitted = Off /\ lost = Off
RequestOff ==
    /\ req = Off /\ stopping = Off /\ gauge = Off /\ totals = Off /\ logged = Off
    /\ written = Off /\ dropped = Off /\ failed = Off /\ writer = Off /\ worker = Off
TargetOff ==
    /\ request = Off /\ table = Off /\ target = Off /\ routed = Off /\ given = Off
    /\ backing = Off /\ count = Off
FramingOff ==
    /\ case = Off /\ prepared = Off /\ final = Off

PathInit ==
    /\ Init
    /\ \/ part = "lanes" /\ WireOff /\ BodyOff /\ RequestOff /\ TargetOff /\ FramingOff
       \/ part = "wire" /\ Http1!Init /\ BodyOff /\ RequestOff /\ TargetOff /\ FramingOff
       \/ part = "body" /\ Body!Init /\ WireOff /\ RequestOff /\ TargetOff /\ FramingOff
       \/ part = "request" /\ Handling!Init /\ WireOff /\ BodyOff /\ TargetOff /\ FramingOff
       \/ part = "target" /\ Targets!ConversionInit /\ WireOff /\ BodyOff /\ RequestOff /\ FramingOff
       \/ part = "framing" /\ Framing!Init /\ WireOff /\ BodyOff /\ RequestOff /\ TargetOff

PathNext ==
    \/ /\ part = "lanes" /\ Next
       /\ UNCHANGED <<part, wireVars, bodyVars, requestVars, targetVars, framingVars>>
    \/ /\ part = "wire" /\ Http1!Next
       /\ UNCHANGED <<part, vars, bodyVars, requestVars, targetVars, framingVars>>
    \/ /\ part = "body" /\ Body!Next
       /\ UNCHANGED <<part, vars, wireVars, requestVars, targetVars, framingVars>>
    \/ /\ part = "request" /\ Handling!Next
       /\ UNCHANGED <<part, vars, wireVars, bodyVars, targetVars, framingVars>>
    \/ /\ part = "target" /\ Targets!ConversionNext
       /\ UNCHANGED <<part, vars, wireVars, bodyVars, requestVars, framingVars>>
    \/ /\ part = "framing" /\ Framing!Next
       /\ UNCHANGED <<part, vars, wireVars, bodyVars, requestVars, targetVars>>

allVars == <<part, vars, wireVars, bodyVars, requestVars, targetVars, framingVars>>
PathSpec == PathInit /\ [][PathNext]_allVars
-----------------------------------------------------------------------------
(* Properties: those of the parts, each while its part is explored *)

\* Bytes read ahead by protocol detection are replayed in order, and deadlines
\* for the next head close only connections that wait for one.
ConnectionsTimed ==
    part = "wire" => Http1!TypeOK /\ Http1!BytesInOrder /\ Http1!ReadTimersCurrent

\* Frames of a streamed body and compression lanes: each is free or has one
\* owner, none is lost, and no body waits beside a free one.
StreamResourcesAccounted ==
    /\ part = "body" => Body!TypeOK /\ Body!FramesAccounted /\ Body!FrameWaiterNotStranded
    /\ LanesAccounted

\* An item of an event stream is acknowledged only when all of it is in frames.
AckedOnlyWhenFramed == part = "body" => Body!AckedOnlyWhenFramed

\* A request is counted and logged once, whatever becomes of it, and failures
\* are recorded as what they were.
RecordedOnce ==
    part = "request" => Handling!TypeOK /\ Handling!RecordedOnce /\ Handling!FailuresLabelled

\* What a request holds is given back when its response is over.
GuardsReturned == part = "request" => Handling!GuardsReturned

\* A request is served only with a sound target and by the route declared for
\* it; and what a handler is given of it stays in memory until it is released.
RequestsRouted ==
    part = "target" => /\ Targets!TargetsSound /\ Targets!RoutedAsDeclared
                       /\ Targets!PartsKeptWhileUsed /\ Targets!SameRequestEitherWay

\* A response is framed as its method and status require, selects the bytes that
\* were asked for and is encoded as the client accepts.
ResponsesFramed ==
    part = "framing" => /\ Framing!FramedOnce
                        /\ Framing!RangesExact
                        /\ Framing!NegotiatedAsAsked
=============================================================================
