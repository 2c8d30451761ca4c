-------------------------- MODULE RequestConversion --------------------------
(***************************************************************************)
(* request_parts.rs with request_to_roc of http_server.rs: the request     *)
(* that a Roc handler is given.  Its strings are not copied: each is a     *)
(* descriptor into the parts of Hyper's request, which one slot of a       *)
(* resource heap keeps, with a count of the descriptors.  Roc, and the     *)
(* owner of the response, drop the strings one by one and in any order.    *)
(* When the heap is full the strings are copied.                           *)
(***************************************************************************)
EXTENDS RequestTargets

VARIABLES
    given,              \* the strings of the request that are still owned by somebody
    backing, count      \* the slot: "none", "live" or "freed"; its count

allVars == <<vars, given, backing, count>>

\* A text is a sequence, as a path is; an absent one is empty.
Text(value) == IF value = None THEN <<>> ELSE <<value>>
Empty == [text |-> <<>>, owner |-> "nobody"]
Seamless(text) == [text |-> text, owner |-> "backing"]
Copied(text) == [text |-> text, owner |-> "itself"]

\* method_to_tag: 2 is a method without a tag of its own.
Extension(r) == r.method \notin {"GET", "POST", "OPTIONS", "CONNECT"}

Names(r) == {<<"method_ext">>, <<"target_path">>, <<"target_query">>,
             <<"target_authority_host">>, <<"authority_host">>}
            \cup (1 .. r.fields) \X {"name", "value"}

-----------------------------------------------------------------------------
(* request_to_roc *)

\* A target without a path has the path "/", which is not a slice of the URI.
resource_path_is_backed(r) == HasPath(r)

StringsOf(r, t) == [name \in Names(r) |->
    CASE name = <<"method_ext">> -> IF Extension(r) THEN Seamless(Text(r.method)) ELSE Empty
      [] name = <<"target_path">> ->
            IF t.kind # "Resource" THEN Empty
            ELSE IF resource_path_is_backed(r) THEN Seamless(resource_path(r))
                 ELSE Copied(resource_path(r))
      [] name = <<"target_query">> ->
            IF t.kind = "Resource" /\ r.query # None THEN Seamless(Text(r.query)) ELSE Empty
      [] name = <<"target_authority_host">> ->
            IF t.kind = "Authority" THEN Seamless(Text(r.authority)) ELSE Empty
      [] name = <<"authority_host">> ->
            IF t.authority # None THEN Seamless(Text(t.authority)) ELSE Empty
      [] OTHER -> Seamless(name)]

One(condition) == IF condition THEN 1 ELSE 0

\* The query is a part of the path's string.
references_without_query(r, t) ==
    One(Extension(r)) + 2 * r.fields
    + One(t.kind = "Resource" /\ resource_path_is_backed(r))
    + One(t.kind = "Authority")
    + One(t.authority # None)

backing_references(r, t) ==
    One(Extension(r)) + 2 * r.fields
    + One(t.kind = "Resource" /\ resource_path_is_backed(r))
    + One(t.kind = "Resource" /\ r.query # None)
    + One(t.kind = "Authority")
    + One(t.authority # None)

\* request_to_roc_copied
CopiedStrings(r, t) == [name \in Names(r) |->
    LET text == CASE name = <<"method_ext">> -> IF Extension(r) THEN Text(r.method) ELSE <<>>
                  [] name = <<"target_path">> ->
                        IF t.kind = "Resource" THEN resource_path(r) ELSE <<>>
                  [] name = <<"target_query">> ->
                        IF t.kind = "Resource" THEN Text(r.query) ELSE <<>>
                  [] name = <<"target_authority_host">> ->
                        IF t.kind = "Authority" THEN Text(r.authority) ELSE <<>>
                  [] name = <<"authority_host">> -> Text(t.authority)
                  [] OTHER -> name
    IN IF text = <<>> THEN Empty ELSE Copied(text)]

ToRoc == result.to = "roc" /\ backing = "none" /\ given = <<>>

\* RequestPartsBacking::new, the descriptors, and install.
request_to_roc ==
    /\ ToRoc
    /\ given' = StringsOf(request, target)
    /\ count' = backing_references(request, target)
    /\ backing' = IF count' = 0 THEN "freed" ELSE "live"
    /\ UNCHANGED vars

\* The heap has no slot left.
request_to_roc_copied ==
    /\ ToRoc
    /\ given' = CopiedStrings(request, target)
    /\ UNCHANGED <<vars, backing, count>>

\* A string is released; the last descriptor frees the slot (route_dealloc).
Release(name) ==
    /\ name \in DOMAIN given
    /\ given' = [n \in DOMAIN given \ {name} |-> given[n]]
    /\ IF given[name].owner = "backing"
       THEN /\ count' = count - 1
            /\ backing' = IF count = 1 THEN "freed" ELSE backing
       ELSE UNCHANGED <<count, backing>>
    /\ UNCHANGED vars

ConversionInit == Init /\ given = <<>> /\ backing = "none" /\ count = 0
ConversionNext ==
    \/ Next /\ UNCHANGED <<given, backing, count>>
    \/ request_to_roc \/ request_to_roc_copied
    \/ \E name \in DOMAIN given : Release(name)

ConversionSpec == ConversionInit /\ [][ConversionNext]_allVars
-----------------------------------------------------------------------------
(* Properties *)

\* A string that somebody owns is in memory that is there, and the request's
\* parts are freed with the last of them, whatever the shape of the request and
\* the order of the releases.
PartsKeptWhileUsed ==
    LET borrowed == {name \in DOMAIN given : given[name].owner = "backing"}
    IN  /\ count = Cardinality(borrowed)
        /\ borrowed # {} <=> backing = "live"

\* A handler is given the same request whether or not its strings were copied:
\* what is not there is absent, and the authority is the one validation chose.
SameRequestEitherWay ==
    result.to = "roc" => LET s == StringsOf(request, target)
                             c == CopiedStrings(request, target)
                         IN  \A name \in Names(request) : s[name].text = c[name].text
=============================================================================
