----------------------------- MODULE RocMemory ------------------------------
(***************************************************************************)
(* Reference counted Roc values while a host function owns them: the run- *)
(* time half of roc_platform_abi.rs (RocStr, RocListWith, boxes, erased   *)
(* callables and the generated recursive decref).                         *)
(*                                                                         *)
(* A value is the set of the allocations it holds, each named by its path *)
(* (record fields and list items) from the root of the value.  The host   *)
(* works through a program of effects on the values it owns while one     *)
(* other owner, a second reference to one of those allocations held by    *)
(* the application on another thread, reads it and lets it go.  Counts    *)
(* change one atomic operation at a time.                                 *)
(*                                                                         *)
(* Small strings, empty lists and static data carry no count and are      *)
(* skipped by every operation below; they are values with an allocation   *)
(* missing, so only values whose allocations all exist are considered.    *)
(* The two items of a list stand for the part of the allocation that a    *)
(* seamless slice shows ("shown") and the part it does not ("hidden").    *)
(***************************************************************************)
EXTENDS Naturals, FiniteSets, Sequences, SequencesExt, AbiTypes

VARIABLES
    nodes,      \* every allocation of the values of this call, live or freed
    counts,     \* the reference counts of the live allocations
    sliced,     \* whether the lists of the arguments are seamless slices
    prog,       \* what each owner still has to do
    fault       \* an allocation was read or released after it was freed

memoryVars == <<nodes, counts, sliced, prog, fault>>

Owners == {"host", "other"}
Items == {"shown", "hidden"}

-----------------------------------------------------------------------------
(* Values of a shape *)

Prefixed(name, value) == {<<name>> \o n : n \in value}

RECURSIVE Values(_)
Values(shape) ==
    CASE shape.kind = "plain" -> {{}}
      [] shape.kind = "counted" -> {{<<>>}}
      [] shape.kind = "list" ->
            {{<<>>} \union UNION {Prefixed(i, v) : i \in Items} : v \in Values(shape.item)}
      [] shape.kind = "struct" ->
            LET Extend(f, vs) ==
                    {v \union Prefixed(f, w) : v \in vs, w \in Values(shape.fields[f])}
            IN  FoldSet(Extend, {{}}, DOMAIN shape.fields)
      [] shape.kind = "union" ->
            UNION {Values(shape.payloads[t]) : t \in DOMAIN shape.payloads}
                \union (IF shape.plainTags = {} THEN {} ELSE {{}})

\* The shape below a sequence of tags of nested unions.
RECURSIVE Under(_, _)
Under(shape, tags) ==
    IF tags = <<>> THEN shape
    ELSE IF Head(tags) \in shape.plainTags THEN Plain
    ELSE Under(shape.payloads[Head(tags)], Tail(tags))

-----------------------------------------------------------------------------
(* The allocations an operation on the value at a path touches *)

Below(path) == {n \in nodes : IsPrefix(path, n)}
Topmost(S) == {n \in S : ~ \E m \in S : IsStrictPrefix(m, n)}

\* allocation_items: everything the allocation owns, shown by the slice or not.
Owned(list) == Topmost(Below(list) \ {list})
\* as_slice: what this list shows.
Shown(S) == {n \in S : ~ sliced \/ ~ Contains(n, "hidden")}

-----------------------------------------------------------------------------
(* Effects.  A program of the host is a sequence of them. *)

Borrow(path) == <<[op |-> "borrow", at |-> path]>>
Release(path) == <<[op |-> "release", at |-> path]>>
\* RocListWith::decref, which never touches the items.
Shallow(path) == <<[op |-> "shallow", at |-> path]>>
\* for item in list.as_slice() { item.decref() }
ReleaseItems(path) == <<[op |-> "items", at |-> path]>>
\* if list.has_one_ref() { for item in list.allocation_items() { item.decref() } }
ReleaseItemsIfUnique(path) == <<[op |-> "items_if_unique", at |-> path]>>
\* The result is handed to Roc, which reads it and releases it.
Return(shape) == <<[op |-> "return", at |-> <<"result">>, shape |-> shape]>>

\* Drop one reference to each of some allocations, in an order that is fixed.
Decrements(S) == IF S = {} THEN <<>> ELSE <<[op |-> "decrement", each |-> S]>>

Continue(o, effects) == prog' = [prog EXCEPT ![o] = effects \o Tail(@)]
Fault(o) == fault' = TRUE /\ Continue(o, <<>>) /\ UNCHANGED <<nodes, counts, sliced>>
Doing(o, op) == ~fault /\ prog[o] # <<>> /\ Head(prog[o]).op = op
At(o) == Head(prog[o]).at
Live(n) == n \in DOMAIN counts

\* as_slice, as_str: read the value at the path.
BorrowValue(o) ==
    /\ Doing(o, "borrow")
    /\ IF \A n \in (IF o = "host" THEN Shown(Below(At(o))) ELSE Below(At(o))) : Live(n)
       THEN Continue(o, <<>>) /\ UNCHANGED <<nodes, counts, sliced, fault>>
       ELSE Fault(o)

\* Releases what containers own along with the containers.
ReleaseDeep(o) ==
    /\ Doing(o, "release")
    /\ Continue(o, Decrements(Below(At(o))))
    /\ UNCHANGED <<nodes, counts, sliced, fault>>

\* The generated decref of a record or tag union releases each of its parts.
ReleaseValue(o) ==
    /\ Doing(o, "release")
    /\ Continue(o, Decrements(Topmost(Below(At(o)))))
    /\ UNCHANGED <<nodes, counts, sliced, fault>>

\* fetch_sub(1); the owner that takes the last reference tears down what the
\* allocation is said to own and frees it.
Decrement(o, n, owned, then) ==
    IF ~Live(n) THEN Fault(o)
    ELSE /\ IF counts[n] = 1
            THEN /\ counts' = [m \in DOMAIN counts \ {n} |-> counts[m]]
                 /\ Continue(o, Decrements(owned) \o then)
            ELSE /\ counts' = [counts EXCEPT ![n] = @ - 1]
                 /\ Continue(o, then)
         /\ UNCHANGED <<nodes, sliced, fault>>

\* Frees an allocation and forgets what it owns.
DecrementAndFree(o) ==
    /\ Doing(o, "decrement")
    /\ LET each == Head(prog[o]).each
           n == CHOOSE n \in each : TRUE
       IN  Decrement(o, n, {}, Decrements(each \ {n}))

\* RocStr::decref, decref_box_with and release_with.
DecrementAndTearDown(o) ==
    /\ Doing(o, "decrement")
    /\ LET each == Head(prog[o]).each
           n == CHOOSE n \in each : TRUE
       IN  Decrement(o, n, Owned(n), Decrements(each \ {n}))

DecrementShallow(o) ==
    /\ Doing(o, "shallow")
    /\ IF At(o) \in nodes
       THEN Decrement(o, At(o), {}, <<>>)
       ELSE Continue(o, <<>>) /\ UNCHANGED <<nodes, counts, sliced, fault>>

ReleaseEachItem(o) ==
    /\ Doing(o, "items")
    /\ IF At(o) \in nodes /\ ~Live(At(o)) THEN Fault(o)
       ELSE /\ Continue(o, Decrements(Shown(Owned(At(o)))))
            /\ UNCHANGED <<nodes, counts, sliced, fault>>

ReleaseEachItemIfUnique(o) ==
    /\ Doing(o, "items_if_unique")
    /\ IF At(o) \in nodes /\ ~Live(At(o)) THEN Fault(o)
       ELSE /\ Continue(o, IF Live(At(o)) /\ counts[At(o)] = 1
                           THEN Decrements(Owned(At(o))) ELSE <<>>)
            /\ UNCHANGED <<nodes, counts, sliced, fault>>

ReturnResult(o) ==
    /\ Doing(o, "return")
    /\ \E value \in Values(Head(prog[o]).shape) :
          LET made == Prefixed("result", value)
          IN  /\ nodes' = nodes \union made
              /\ counts' = [n \in DOMAIN counts \union made |->
                               IF n \in made THEN 1 ELSE counts[n]]
    /\ Continue(o, Borrow(At(o)) \o Release(At(o)))
    /\ UNCHANGED <<sliced, fault>>

MemoryStep(o) ==
    \/ BorrowValue(o)
    \/ ReleaseValue(o)
    \/ DecrementAndTearDown(o)
    \/ DecrementShallow(o)
    \/ ReleaseEachItem(o)
    \/ ReleaseEachItemIfUnique(o)
    \/ ReturnResult(o)

\* A call whose arguments are one value of the shape, the host running the
\* given program and the other owner holding one more reference to one of the
\* allocations, or none.  Exclusive arguments have no other owner and no slices.
MemoryInit(shape, program, exclusive) ==
    \E value \in Values(shape), isSlice \in BOOLEAN :
    \E extra \in {{}} \union {{n} : n \in value} :
        /\ isSlice => \E n \in value : Contains(n, "hidden")
        /\ exclusive => ~isSlice /\ extra = {}
        /\ nodes = value
        /\ counts = [n \in value |-> IF n \in extra THEN 2 ELSE 1]
        /\ sliced = isSlice
        /\ prog = [host |-> program,
                   other |-> IF extra = {} THEN <<>>
                             ELSE LET n == CHOOSE n \in extra : TRUE
                                  IN  Borrow(n) \o Release(n)]
        /\ fault = FALSE

MemoryTypeOK ==
    /\ DOMAIN counts \subseteq nodes
    /\ \A n \in DOMAIN counts : counts[n] \in 1 .. 2
    /\ sliced \in BOOLEAN
    /\ fault \in BOOLEAN
=============================================================================
