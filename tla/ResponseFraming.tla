--------------------------- MODULE ResponseFraming ---------------------------
(***************************************************************************)
(* response.rs, the conditional requests, ranges and headers of            *)
(* file_server.rs, and the negotiation of compression.rs: how the response *)
(* to a file or of an application is framed.  prepare_and_stream and       *)
(* response_to_hyper build a response; finalize_response checks it again   *)
(* and turns one that breaks the rules into a 500.                         *)
(*                                                                         *)
(* These are functions of one request: the state holds it and, after the   *)
(* only step, the response.  A validator is <<weak, id, coding>>, a date   *)
(* a number of seconds, a header that is absent is Missing, and `plain`    *)
(* says that no other header rules compression out.                        *)
(***************************************************************************)
EXTENDS Naturals, Integers, Sequences, FiniteSets, FiniteSetsExt

CONSTANTS
    Cases,              \* requests for a file, and responses of the application
    MinCompression,     \* MIN_COMPRESSION_BYTES
    MaxCompression      \* MAX_BUFFERED_COMPRESSION_BYTES

VARIABLES case, prepared, final
vars == <<case, prepared, final>>

None == "none"
Missing == <<>>
Any == <<FALSE, "*", "*">>      \* the validator that matches everything
Unknown == -1           \* the length of a body that is not known in advance
Absent == -1            \* a length, a weight or a date that is not there
Pending == [status |-> -1]
Err == [status |-> 0]
Codings == <<"zstd", "br", "gzip">>

-----------------------------------------------------------------------------
(* compression.rs: AcceptedEncodings *)

\* from_headers: the weight of each coding; `accept` maps names to weights.  A
\* name that is not listed has the wildcard's weight, identity its own.
from_headers(accept) ==
    IF ~accept.present
    THEN [present |-> FALSE, zstd |-> 0, br |-> 0, gzip |-> 0, identity |-> 10, explicit |-> FALSE]
    ELSE LET wildcard == IF accept.any = Absent THEN 0 ELSE accept.any
             weight(name) == IF accept[name] = Absent THEN wildcard ELSE accept[name]
         IN [present |-> TRUE, zstd |-> weight("zstd"), br |-> weight("br"), gzip |-> weight("gzip"),
             identity |-> IF accept.identity # Absent THEN accept.identity
                          ELSE IF accept.any = 0 THEN 0 ELSE 10,
             explicit |-> accept.identity # Absent]

\* The first of the codings with the greatest weight.
preferred(e) ==
    LET best == Max({e[Codings[i]] : i \in 1 .. 3})
        first == Min({i \in 1 .. 3 : e[Codings[i]] = best})
    IN IF ~e.present \/ best = 0 \/ (e.explicit /\ e.identity > best) THEN None ELSE Codings[first]

preferred_streaming(e) ==
    CASE ~e.present -> "identity"
      [] e.present /\ e.br # 0 /\ ~(e.explicit /\ e.identity > e.br) -> "br"
      [] OTHER -> IF e.identity # 0 THEN "identity" ELSE "not_acceptable"

\* response_is_compressible: `plain` stands for what the headers say.
response_is_compressible(status, plain, length) ==
    length >= MinCompression /\ plain /\ status \notin {204, 205, 206, 304}

-----------------------------------------------------------------------------
(* file_server.rs: conditional requests and ranges *)

etag_condition_matches(candidate, current, weak) ==
    \/ candidate = Any
    \/ /\ candidate[2] = current[2] /\ candidate[3] = current[3]
       /\ weak \/ (~candidate[1] /\ ~current[1])

is_later(left, right) == left > right

\* precondition_status; a GET or HEAD, as serve lets no other method through.
precondition_status(c, etag) ==
    CASE c.if_match # Missing /\ ~etag_condition_matches(c.if_match, etag, FALSE) -> 412
      [] /\ c.if_match = Missing /\ c.if_unmodified_since # Absent /\ c.modified # Absent
         /\ is_later(c.modified, c.if_unmodified_since) -> 412
      [] OTHER ->
            IF c.if_none_match # Missing
            THEN IF etag_condition_matches(c.if_none_match, etag, TRUE) THEN 304 ELSE 0
            ELSE IF /\ c.if_modified_since # Absent /\ c.modified # Absent
                    /\ ~is_later(c.modified, c.if_modified_since)
                 THEN 304 ELSE 0

\* if_range_allows: a validator, a date or something else.
if_range_allows(c, etag) ==
    CASE c.if_range = Missing -> TRUE
      [] c.if_range # Missing /\ c.if_range[1] = "etag" ->
            ~c.if_range[2][1] /\ ~etag[1] /\ c.if_range[2] = etag
      [] c.if_range # Missing /\ c.if_range[1] = "date" ->
            c.modified # Absent /\ ~is_later(c.modified, c.if_range[2])
      [] OTHER -> FALSE

\* parse_range: "bytes=first-last", either of them possibly empty; what is not
\* one such range is ignored.
Ignore == [kind |-> "Ignore"]
Unsatisfiable == [kind |-> "Unsatisfiable"]
Selected(start, end) == [kind |-> "Range", start |-> start, end |-> end]
\* The last position is one too far.
parse_range_too_far(range, length) ==
    IF range = Missing \/ range[1] = Absent THEN Ignore
    ELSE IF range[1] >= length THEN Unsatisfiable
    ELSE Selected(range[1], IF range[2] = Absent THEN length ELSE Min({range[2], length}))

parse_range(range, length) ==
    IF range = Missing THEN Ignore
    ELSE LET first == range[1]
             last == range[2]
         IN CASE first = Absent /\ last = Absent -> Ignore
              [] first = Absent /\ last # Absent ->
                    IF last = 0 \/ length = 0 THEN Unsatisfiable
                    ELSE Selected(IF length > last THEN length - last ELSE 0, length - 1)
              [] first # Absent /\ first >= length -> Unsatisfiable
              [] first \in 0 .. length - 1 /\ last = Absent -> Selected(first, length - 1)
              [] OTHER -> IF first > last THEN Ignore ELSE Selected(first, Min({last, length - 1}))

\* prepare_and_stream, from the open file to the response; FileBody knows its
\* length unless it is encoded.
prepare_and_stream(c) ==
    LET eligible == c.range = Missing /\ response_is_compressible(200, c.plain, c.length)
        coding == IF eligible THEN preferred(from_headers(c.accept)) ELSE None
        etag == <<TRUE, "file", coding>>
        condition == precondition_status(c, etag)
        selected == IF if_range_allows(c, etag) THEN parse_range(c.range, c.length) ELSE Ignore
        response(status, length, body, range, encoding) ==
            [status |-> status, length |-> length, body |-> body, range |-> range,
             coding |-> encoding, etag |-> etag, vary |-> eligible]
        sent == IF selected.kind = "Range" THEN selected.end - selected.start + 1 ELSE c.length
        bodyless == c.method = "HEAD" \/ sent = 0
    IN CASE condition = 304 -> response(304, Absent, 0, Missing, coding)
         [] condition = 412 -> response(412, 0, 0, Missing, None)
         [] condition = 0 /\ selected.kind = "Unsatisfiable" ->
               response(416, 0, 0, <<Absent, c.length>>, coding)
         [] OTHER ->
               response(IF selected.kind = "Range" THEN 206 ELSE 200,
                        IF coding = None THEN sent ELSE Absent,
                        IF bodyless THEN 0 ELSE IF coding = None THEN sent ELSE Unknown,
                        IF selected.kind = "Range" THEN <<selected.start, selected.end>> ELSE Missing,
                        coding)

-----------------------------------------------------------------------------
(* response.rs *)

\* length_rule: "Forbidden", "Representation" or "error".
length_rule(status, method) ==
    CASE status \in 100 .. 199 -> "error"
      [] method = "CONNECT" /\ status \in 200 .. 299 -> "error"
      [] OTHER -> IF status \in {204, 304} THEN "Forbidden" ELSE "Representation"

\* one_content_length
one_content_length(lengths) ==
    IF lengths = <<>> THEN Absent ELSE lengths[1]
Conflicting(lengths) == \E i \in DOMAIN lengths : lengths[i] # lengths[1]

\* application_parts: what an application may return.
application_parts(c) ==
    LET rule == length_rule(c.status, c.method)
        supplied == one_content_length(c.lengths)
    IN IF \/ rule = "error" \/ Conflicting(c.lengths)
          \/ (rule = "Forbidden" \/ c.status = 205) /\ c.length # 0
          \/ rule = "Forbidden" /\ supplied # Absent
          \/ rule = "Representation" /\ supplied \notin {Absent, c.length}
       THEN Err
       ELSE [status |-> c.status, length |-> IF rule = "Forbidden" THEN Absent ELSE c.length,
             body |-> c.length, range |-> Missing, coding |-> None, etag |-> Missing, vary |-> FALSE]

\* response_to_hyper: a complete body is compressed if that makes it shorter;
\* c.encoded is the length the encoder (external) arrives at.
response_to_hyper(c) ==
    LET parts == application_parts(c)
        eligible == /\ parts # Err /\ c.length <= MaxCompression
                    /\ response_is_compressible(parts.status, c.plain, c.length)
        coding == preferred(from_headers(c.accept))
    IN CASE parts = Err -> Err
         [] parts # Err /\ eligible /\ coding # None /\ c.encoded < c.length ->
               [parts EXCEPT !.length = c.encoded, !.body = c.encoded, !.coding = coding, !.vary = TRUE]
         [] OTHER -> [parts EXCEPT !.vary = eligible]

\* finalize_response, for a HEAD: the length of the representation, or Absent,
\* or Unknown - 1 for an error.
HeadLength(supplied, body) ==
    CASE supplied # Absent /\ body = 0 -> supplied
      [] supplied # Absent /\ body # 0 -> IF supplied = body THEN supplied ELSE Unknown - 1
      [] OTHER -> IF body \in {0, Unknown} THEN Absent ELSE body

finalize_response(r, method) ==
    LET rule == length_rule(r.status, method) IN
    CASE rule = "error" \/ (r.status = 205 /\ r.body # 0) -> Err
      [] rule = "Forbidden" /\ (r.status # 205 \/ r.body = 0) ->
            IF r.length # Absent \/ r.body # 0 THEN Err ELSE r
      [] rule = "Representation" /\ method = "HEAD" /\ (r.status # 205 \/ r.body = 0) ->
            IF HeadLength(r.length, r.body) < Absent THEN Err
            ELSE [r EXCEPT !.length = HeadLength(r.length, r.body), !.body = 0]
      [] OTHER ->
            IF r.length # Absent /\ r.length # r.body THEN Err
            ELSE [r EXCEPT !.length = IF r.body = Unknown THEN Absent ELSE r.body]

\* safe_internal_server_error; its 25 bytes are one unit here.
safe_internal_server_error(method) ==
    finalize_response([status |-> 500, length |-> Absent, body |-> 1, range |-> Missing,
                       coding |-> None, etag |-> Missing, vary |-> FALSE], method)

-----------------------------------------------------------------------------

Respond(c) == IF c.kind = "file" THEN prepare_and_stream(c) ELSE response_to_hyper(c)
Final(c) ==
    LET response == IF Respond(c) = Err THEN Err ELSE finalize_response(Respond(c), c.method)
    IN IF response = Err THEN safe_internal_server_error(c.method) ELSE response

Init == case \in Cases /\ prepared = Pending /\ final = Pending

Answer ==
    /\ prepared = Pending
    /\ prepared' = Respond(case)
    /\ final' = Final(case)
    /\ UNCHANGED case

Next == Answer
Spec == Init /\ [][Next]_vars
-----------------------------------------------------------------------------
(* Properties *)

Answered == prepared # Pending

\* finalize_response never turns into a 500 what file_server.rs or
\* response_to_hyper built, and accepts the safe 500; the length it declares is
\* that of the body; a HEAD is answered like the GET, without the body.
FramedOnce ==
    Answered =>
        /\ final # Err
        /\ prepared # Err => final.status = prepared.status
        /\ IF case.method = "HEAD" THEN final.body = 0
           ELSE final.length = IF final.status \in {204, 304} THEN Absent ELSE final.body
        /\ case.method = "HEAD" =>
              final = [Final([case EXCEPT !.method = "GET"]) EXCEPT !.body = 0]

\* The positions of the file that a range asks for.
Wanted(range, length) ==
    {i \in 0 .. length - 1 :
        IF range[1] = Absent THEN i >= length - range[2]
        ELSE i >= range[1] /\ (range[2] # Absent => i <= range[2])}

\* A 206 carries exactly the positions that were asked for, of the file as it
\* is; a 416 means that it has none of them.
RangesExact ==
    Answered /\ case.kind = "file" =>
        /\ prepared.status = 206 =>
              /\ case.range # Missing /\ prepared.coding = None
              /\ prepared.range[1] .. prepared.range[2] = Wanted(case.range, case.length)
              /\ prepared.length = Cardinality(Wanted(case.range, case.length))
        /\ prepared.status = 416 => Wanted(case.range, case.length) = {}

Weight(accept, name) ==
    IF accept[name] # Absent THEN accept[name] ELSE Max({accept.any, 0})

\* A coding is chosen only if the client gave it weight, no other of the host's
\* has more, and identity was not asked for rather; a stream is sent as it is
\* only if the client did not forbid that; and a 304 stands for the
\* representation the client holds, in the coding it holds it.
NegotiatedAsAsked ==
    /\ Answered /\ prepared # Err /\ prepared.coding # None =>
          /\ case.accept.present /\ prepared.vary
          /\ Weight(case.accept, prepared.coding) > 0
          /\ \A i \in 1 .. 3 : Weight(case.accept, Codings[i]) <= Weight(case.accept, prepared.coding)
          /\ case.accept.identity <= Weight(case.accept, prepared.coding)
    /\ Answered /\ case.accept.present =>
          LET streamed == preferred_streaming(from_headers(case.accept)) IN
          /\ streamed = "br" => Weight(case.accept, "br") > 0
          /\ streamed = "identity" => case.accept.identity > 0
                                      \/ (case.accept.identity = Absent /\ case.accept.any # 0)
          /\ streamed = "not_acceptable" => Weight(case.accept, "br") = 0
    /\ Answered /\ case.kind = "file" /\ prepared.status = 304 =>
          case.if_none_match \in {Missing, Any} \/ case.if_none_match[3] = prepared.coding
=============================================================================
