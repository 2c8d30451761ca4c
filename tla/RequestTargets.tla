--------------------------- MODULE RequestTargets ---------------------------
(***************************************************************************)
(* request_target.rs, request_limits.rs and native_router.rs: what a       *)
(* request is about.  Its control data is validated, measured against the  *)
(* configured limits, and looked up in the native routes; what no route    *)
(* takes goes to Roc.  These are functions of one request; the state holds *)
(* a request and, after the only step, what becomes of it.                 *)
(*                                                                         *)
(* A path is the sequence of its segments: "/" is <<"">> and "/a/" is      *)
(* <<"a", "">>.  An authority is a model of its text: two of them may be   *)
(* equal but for the case of the host, and one does not parse.             *)
(***************************************************************************)
EXTENDS Naturals, Sequences, SequencesExt, FiniteSets, FiniteSetsExt

CONSTANTS
    Cases,              \* the requests and route tables considered
    MaxTarget,          \* max_target_bytes
    MaxFields, MaxHeaderBytes, \* max_header_fields; max_header_list_bytes
    Alphabet            \* the segments of the route table's paths, in text order

None == "none"
Asterisk == <<"*">>
Err == "invalid"

VARIABLES
    request,            \* its method, version and URI as Hyper parsed it: whether it
                        \* has a scheme, its authority or None, its path or <<>>
                        \* and its query or None; the values of its Host fields,
                        \* how many fields it has, and the bytes of all their
                        \* names and values
    table,              \* paths of the exact routes, prefixes of the static mounts
    target, result      \* the validated target; what becomes of the request

vars == <<request, table, target, result>>

-----------------------------------------------------------------------------
(* request_target.rs *)

HasPath(r) == r.path # <<>>

\* parse_authority: a host and a port, or an error.
parse_authority(text) == IF text = "bad" THEN Err ELSE text

\* ParsedAuthority::view and authorities_equal: hosts are compared without case.
Folded(authority) == IF authority = "A" THEN "a" ELSE authority
authorities_equal(left, right) == Folded(left) = Folded(right)

\* classify_target for HTTP/2
ClassifyHttp2(r) ==
    CASE r.method = "CONNECT" ->
            IF ~r.scheme /\ r.authority # None /\ ~HasPath(r) THEN "Authority" ELSE Err
      [] r.method # "CONNECT" /\ ~HasPath(r) -> Err
      [] r.method # "CONNECT" /\ r.path = Asterisk ->
            IF r.method = "OPTIONS" THEN "Asterisk" ELSE Err
      [] OTHER -> "Resource"

\* classify_target for HTTP/1.0 and HTTP/1.1
ClassifyHttp1(r) ==
    CASE r.scheme ->
            IF r.method # "CONNECT" /\ r.authority # None THEN "Resource" ELSE Err
      [] ~r.scheme /\ r.authority # None ->
            IF r.method = "CONNECT" /\ ~HasPath(r) THEN "Authority" ELSE Err
      [] ~r.scheme /\ r.authority = None /\ ~HasPath(r) -> Err
      [] ~r.scheme /\ r.authority = None /\ r.path = Asterisk ->
            IF r.method = "OPTIONS" THEN "Asterisk" ELSE Err
      [] OTHER -> IF r.method = "CONNECT" THEN Err ELSE "Resource"

classify_target(r) == IF r.version = "HTTP_2" THEN ClassifyHttp2(r) ELSE ClassifyHttp1(r)

\* parse_host_header: whether there is a field, and the authority it names.
parse_host_header(hosts) ==
    CASE hosts = <<>> -> [present |-> FALSE, authority |-> None]
      [] Len(hosts) = 1 /\ hosts[1] = "" -> [present |-> TRUE, authority |-> None]
      [] Len(hosts) = 1 /\ hosts[1] # "" /\ parse_authority(hosts[1]) # Err ->
            [present |-> TRUE, authority |-> parse_authority(hosts[1])]
      [] OTHER -> [present |-> TRUE, authority |-> Err]

\* validate_components: the kind of the target and the effective authority.
validate_components(r) ==
    LET kind == classify_target(r)
        uri == IF r.authority = None THEN None ELSE parse_authority(r.authority)
        host == parse_host_header(r.hosts)
        disagrees == /\ r.version = "HTTP_2" /\ host.present /\ uri # None
                     /\ (host.authority = None \/ ~authorities_equal(uri, host.authority))
    IN IF \/ kind = Err \/ uri = Err \/ host.authority = Err
          \/ r.version = "HTTP_11" /\ ~host.present
          \/ disagrees
       THEN [kind |-> Err, authority |-> None]
       ELSE [kind |-> kind, authority |-> IF uri # None THEN uri ELSE host.authority]

-----------------------------------------------------------------------------
(* request_limits.rs *)

PathBytes(path) == MapThenSumSet(LAMBDA i : 1 + Len(path[i]), DOMAIN path)

\* Only the path is measured.
path_len(r, kind) ==
    CASE kind = "Resource" -> IF HasPath(r) THEN PathBytes(r.path) ELSE 1
      [] kind = "Authority" -> Len(r.authority)
      [] kind = "Asterisk" -> 1

\* The bytes of path_and_query; a query counts with its question mark.
normalized_target_len(r, kind) ==
    CASE kind = "Resource" /\ HasPath(r) ->
            PathBytes(r.path) + (IF r.query = None THEN 0 ELSE 1 + Len(r.query))
      [] kind = "Resource" /\ ~HasPath(r) -> 1
      [] kind = "Authority" -> Len(r.authority)
      [] kind = "Asterisk" -> 1

DECODED_HEADER_FIELD_OVERHEAD == 32
decoded_header_list_bytes(r) == r.bytes + DECODED_HEADER_FIELD_OVERHEAD * r.fields

\* admit_parts
admit_parts(r, kind) ==
    LET long == normalized_target_len(r, kind) > MaxTarget
        large == r.fields > MaxFields \/ decoded_header_list_bytes(r) > MaxHeaderBytes
    IN CASE long -> "TargetTooLong"
         [] ~long /\ large -> "HeadersTooLarge"
         [] OTHER -> "ok"

-----------------------------------------------------------------------------
(* native_router.rs *)

\* RequestMetadata::resource_path
resource_path(r) == IF HasPath(r) THEN r.path ELSE <<"">>

\* The order of two paths' texts: that of the first segments that differ, when
\* no character of the alphabet is before "/".
TextBefore(p, q) ==
    LET place(segment) == CHOOSE i \in DOMAIN Alphabet : Alphabet[i] = segment
    IN \/ IsStrictPrefix(p, q)
       \/ \E n \in DOMAIN p \cap DOMAIN q :
             /\ SubSeq(p, 1, n - 1) = SubSeq(q, 1, n - 1)
             /\ place(p[n]) < place(q[n])

\* Shortest first.
ReverseSortedPrefixes(t) == SetToSortSeq(t.prefixes, LAMBDA p, q :
    PathBytes(p) < PathBytes(q) \/ (PathBytes(p) = PathBytes(q) /\ TextBefore(p, q)))

\* activate: the prefixes in the order in which route tries them, longest first
\* and those of one length by their text.
SortedPrefixes(t) == SetToSortSeq(t.prefixes, LAMBDA p, q :
    PathBytes(p) > PathBytes(q) \/ (PathBytes(p) = PathBytes(q) /\ TextBefore(p, q)))

\* The loop of route over one prefix: the path below it, or None.
StripPrefix(at, path) ==
    CASE at = <<"">> -> path
      [] at # <<"">> /\ path = at -> <<"">>
      [] at # <<"">> /\ IsStrictPrefix(at, path) -> SubSeq(path, Len(at) + 1, Len(path))
      [] OTHER -> <<>>

\* NativeRouter::route
route(t, path) ==
    IF path \in t.exact
    THEN [to |-> "exact", at |-> path, relative |-> <<"">>]
    ELSE LET order == SortedPrefixes(t)
             matching == {i \in DOMAIN order : StripPrefix(order[i], path) # <<>>}
         IN IF matching = {}
            THEN [to |-> "roc", at |-> <<>>, relative |-> <<>>]
            ELSE LET at == order[Min(matching)] IN
                 [to |-> "mount", at |-> at, relative |-> StripPrefix(at, path)]

-----------------------------------------------------------------------------
(* The order of handle_req *)

Pending == [to |-> "pending", at |-> <<>>, relative |-> <<>>]
Rejected(why) == [to |-> why, at |-> <<>>, relative |-> <<>>]

Init ==
    /\ \E c \in Cases : request = c.request /\ table = c.table
    /\ target = [kind |-> None, authority |-> None]
    /\ result = Pending

Handle ==
    /\ result = Pending
    /\ target' = validate_components(request)
    /\ result' =
          CASE target'.kind = Err -> Rejected("bad_request")
            [] target'.kind # Err /\ admit_parts(request, target'.kind) # "ok" ->
                  Rejected(admit_parts(request, target'.kind))
            [] target'.kind = "Resource" /\ admit_parts(request, target'.kind) = "ok" ->
                  route(table, resource_path(request))
            [] OTHER -> Rejected("roc")
    /\ UNCHANGED <<request, table>>

Next == Handle
Spec == Init /\ [][Next]_vars
-----------------------------------------------------------------------------
(* Properties *)

\* The form of a CONNECT target (RFC 9112, 3.2.3).
AuthorityForm(r) == ~r.scheme /\ r.authority # None /\ ~HasPath(r)

\* A target is accepted as what its method makes of its form, and with an
\* authority nobody can dispute: under HTTP/1.1 there is exactly one Host, and
\* under HTTP/2 a Host that is present says what :authority says.
TargetsSound ==
    result # Pending /\ target.kind # Err =>
        /\ (target.kind = "Authority") <=> request.method = "CONNECT"
        /\ request.method = "CONNECT" => AuthorityForm(request)
        /\ (target.kind = "Asterisk") => request.method = "OPTIONS" /\ request.path = Asterisk
        /\ (target.kind = "Resource") => request.path # Asterisk
        /\ Len(request.hosts) <= 1 /\ (request.version = "HTTP_11" => Len(request.hosts) = 1)
        /\ "bad" \notin {request.authority} \cup ToSet(request.hosts)
        /\ target.authority =
              IF request.authority # None THEN request.authority
              ELSE IF request.hosts \in {<<>>, <<"">>} THEN None ELSE request.hosts[1]
        /\ request.version = "HTTP_2" /\ request.authority # None /\ request.hosts # <<>> =>
              authorities_equal(request.authority, request.hosts[1])

\* The target as the client wrote it, of which a limit is stated.
Written(r, kind) ==
    CASE kind = "Resource" ->
            FoldLeft(LAMBDA text, segment : text \o "/" \o segment, "", resource_path(r))
            \o (IF r.query = None THEN "" ELSE "?" \o r.query)
      [] kind = "Authority" -> r.authority
      [] kind = "Asterisk" -> "*"

\* A mount takes a path when it is the path or an ancestor of it, at a segment's
\* boundary; the nearest one wins, and an exact route before any; nothing but a
\* resource is routed natively.  A valid request is refused for its size when,
\* and only when, its target with the query is over the limit of targets, or its
\* fields are over the limit of their number or of their bytes.
Mounts(t, path) == {p \in t.prefixes : p = <<"">> \/ p = path \/ IsStrictPrefix(p, path)}
RoutedAsDeclared ==
    LET path == resource_path(request) IN
    /\ result.to = "exact" => path \in table.exact
    /\ result.to = "mount" =>
          /\ path \notin table.exact /\ result.at \in Mounts(table, path)
          /\ \A p \in Mounts(table, path) : p # result.at => p = <<"">> \/ IsStrictPrefix(p, result.at)
          /\ result.at # <<"">> /\ path # result.at => result.at \o result.relative = path
    /\ result.to \in {"exact", "mount"} => target.kind = "Resource"
    /\ result.to = "roc" /\ target.kind = "Resource" =>
          path \notin table.exact /\ Mounts(table, path) = {}
    /\ result # Pending /\ target.kind # Err =>
          LET long == Len(Written(request, target.kind)) > MaxTarget IN
          /\ result.to = "TargetTooLong" <=> long
          /\ result.to = "HeadersTooLarge" <=>
                /\ ~long
                /\ \/ request.fields > MaxFields
                   \/ request.bytes + 32 * request.fields > MaxHeaderBytes
=============================================================================
