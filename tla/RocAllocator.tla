----------------------------- MODULE RocAllocator -----------------------------
(***************************************************************************)
(* roc_alloc.rs, with the two host-owned allocations of request_body.rs    *)
(* (the body capability and the seamless chunk, which owns bytes that Roc  *)
(* reads in place) and the list builder that grows an ordinary one.        *)
(*                                                                         *)
(* Threads allocate, share, release and grow blocks concurrently, and the  *)
(* system allocator gives an address out again as soon as it is freed.     *)
(* Every access to shared state is a step: the ledger of the debug build   *)
(* (under its lock), each atomic counter, and the system allocator.        *)
(***************************************************************************)
EXTENDS Integers, FiniteSets, FiniteSetsExt

CONSTANTS
    Threads,            \* Roc workers and Tokio threads
    Addresses,          \* where the system allocator may put a block
    MaxRefs,            \* bound on the references to a block
    maximum_capacity,   \* of a list builder
    None

HostOwned == {"RequestBody", "SeamlessBytes"}
AllocationKind == HostOwned \union {"Ordinary"}

VARIABLES
    block,              \* the header and the count of the block at each address, or None
    ledger,             \* debug_allocations: what was recorded for each address, or None
    active, high_water, \* per host-owned kind
    peak,               \* history: the largest value `active` has had
    retained,           \* RETAINED_PAYLOAD_BYTES, in chunks
    op,                 \* what each thread is doing
    owned,              \* references that each thread holds
    fatal               \* the process aborted on an invariant of the allocator

vars == <<block, ledger, active, high_water, peak, retained, op, owned, fatal>>
counters == <<active, high_water, peak>>

Idle == [pc |-> "idle", at |-> None, then |-> "none", current |-> 0, observed |-> 0,
         length |-> 0, wanted |-> 0]

Init ==
    /\ block = [a \in Addresses |-> None]
    /\ ledger = [a \in Addresses |-> None]
    /\ active = [k \in HostOwned |-> 0]
    /\ high_water = active /\ peak = active
    /\ retained = 0
    /\ op = [t \in Threads |-> Idle]
    /\ owned = [t \in Threads |-> [a \in Addresses |-> 0]]
    /\ fatal = FALSE

At(t, step) == ~fatal /\ op[t].pc = step
Kind(t) == block[op[t].at].kind
Goto(t, step) == op' = [op EXCEPT ![t].pc = step]
\* The thread goes on to `step` if the check holds; otherwise the process aborts.
GotoIf(t, check, step) ==
    IF check THEN Goto(t, step) /\ UNCHANGED fatal
             ELSE fatal' = TRUE /\ UNCHANGED op

-----------------------------------------------------------------------------
(* allocate *)

\* The system allocator finds room for a block, whose header is written.  An
\* ordinary one is for a list builder, which writes the count: for as much as
\* the hint says, or for the first chunk when there was none.
allocate(t, kind, size) ==
    /\ At(t, "idle")
    /\ \E a \in Addresses, length \in IF kind = "Ordinary" THEN {0, size} ELSE {0} :
          /\ block[a] = None
          /\ block' = [block EXCEPT ![a] = [kind |-> kind, magic |-> "live", size |-> size,
                                            refs |-> IF kind = "Ordinary" THEN 1 ELSE 0]]
          /\ op' = [op EXCEPT ![t].pc = "register", ![t].at = a, ![t].length = length]
    /\ UNCHANGED <<ledger, counters, retained, owned, fatal>>

debug_register(t) ==
    /\ At(t, "register")
    /\ LET a == op[t].at
       IN  /\ ledger' = [ledger EXCEPT ![a] = [kind |-> block[a].kind, size |-> block[a].size]]
           /\ GotoIf(t, ledger[a] = None, IF Kind(t) = "Ordinary" THEN "build" ELSE "count")
    /\ UNCHANGED <<block, counters, retained, owned>>

\* update_high_water, in three steps
Count(t) ==
    /\ At(t, "count")
    /\ LET k == Kind(t)
       IN  /\ active' = [active EXCEPT ![k] = @ + 1]
           /\ peak' = [peak EXCEPT ![k] = IF active'[k] > @ THEN active'[k] ELSE @]
           /\ op' = [op EXCEPT ![t].pc = "load", ![t].current = active'[k]]
    /\ UNCHANGED <<block, ledger, high_water, retained, owned, fatal>>

LoadHighWater(t) ==
    /\ At(t, "load")
    /\ op' = [op EXCEPT ![t].pc = "compare", ![t].observed = high_water[Kind(t)]]
    /\ UNCHANGED <<block, ledger, counters, retained, owned, fatal>>

\* The high-water mark is stored without comparing it again.
StoreHighWater(t) ==
    /\ At(t, "compare")
    /\ high_water' = [high_water EXCEPT ![Kind(t)] =
                         IF op[t].current > op[t].observed THEN op[t].current ELSE @]
    /\ Goto(t, "write")
    /\ UNCHANGED <<block, ledger, active, peak, retained, owned, fatal>>

CompareExchange(t) ==
    /\ At(t, "compare")
    /\ LET k == Kind(t)
       IN  \/ /\ op[t].current <= op[t].observed
              /\ Goto(t, "write") /\ UNCHANGED high_water
           \/ /\ op[t].current > op[t].observed /\ high_water[k] = op[t].observed
              /\ high_water' = [high_water EXCEPT ![k] = op[t].current]
              /\ Goto(t, "write")
           \/ /\ op[t].current > op[t].observed /\ high_water[k] # op[t].observed
              /\ op' = [op EXCEPT ![t].observed = high_water[k]]
              /\ UNCHANGED high_water
    /\ UNCHANGED <<block, ledger, active, peak, retained, owned, fatal>>

\* seamless_chunk and register write the count and the payload; a chunk's bytes
\* are retained from now on.
WritePayload(t) ==
    /\ At(t, "write")
    /\ block' = [block EXCEPT ![op[t].at].refs = 1]
    /\ retained' = IF Kind(t) = "SeamlessBytes" THEN retained + 1 ELSE retained
    /\ owned' = [owned EXCEPT ![t][op[t].at] = 1]
    /\ op' = [op EXCEPT ![t] = Idle]
    /\ UNCHANGED <<ledger, counters, fatal>>

-----------------------------------------------------------------------------
(* References *)

\* validate_header, with the kind the ledger recorded
Valid(a) ==
    /\ block[a] # None /\ ledger[a] # None
    /\ block[a].magic = "live"
    /\ ledger[a].kind = block[a].kind /\ ledger[a].size = block[a].size

routed_roc_dealloc(t, a) == op' = [op EXCEPT ![t].pc = "validate", ![t].at = a,
                                             ![t].then = "dealloc"]

incref(t, a) ==
    /\ At(t, "idle") /\ owned[t][a] > 0 /\ block[a].refs < MaxRefs
    /\ block' = [block EXCEPT ![a].refs = @ + 1]
    /\ owned' = [owned EXCEPT ![t][a] = @ + 1]
    /\ UNCHANGED <<ledger, counters, retained, op, fatal>>

\* A value moves to another thread, with a Roc job or with a response.
HandOver(t, u, a) ==
    /\ At(t, "idle") /\ t # u /\ owned[t][a] > 0
    /\ owned' = [owned EXCEPT ![t][a] = @ - 1, ![u][a] = @ + 1]
    /\ UNCHANGED <<block, ledger, counters, retained, op, fatal>>

\* The block is released by any of the last two owners.
decref_racy(t, a) ==
    /\ At(t, "idle") /\ owned[t][a] > 0
    /\ block' = [block EXCEPT ![a].refs = @ - 1]
    /\ owned' = [owned EXCEPT ![t][a] = @ - 1]
    /\ IF block[a].refs <= 2 THEN routed_roc_dealloc(t, a) ELSE UNCHANGED op
    /\ UNCHANGED <<ledger, counters, retained, fatal>>

decref(t, a) ==
    /\ At(t, "idle") /\ owned[t][a] > 0
    /\ block' = [block EXCEPT ![a].refs = @ - 1]
    /\ owned' = [owned EXCEPT ![t][a] = @ - 1]
    /\ IF block[a].refs = 1 THEN routed_roc_dealloc(t, a) ELSE UNCHANGED op
    /\ UNCHANGED <<ledger, counters, retained, fatal>>

-----------------------------------------------------------------------------
(* roc_dealloc and roc_realloc *)

\* Both begin with the header; only an ordinary block may be reallocated.
validate_header(t) ==
    /\ At(t, "validate")
    /\ GotoIf(t, Valid(op[t].at) /\ (op[t].then = "realloc" => Kind(t) = "Ordinary"), "remove")
    /\ UNCHANGED <<block, ledger, counters, retained, owned>>

\* A block that is reallocated stays in the ledger.
debug_remove_dealloc(t) ==
    /\ At(t, "remove")
    /\ ledger' = IF op[t].then = "dealloc" THEN [ledger EXCEPT ![op[t].at] = None] ELSE ledger
    /\ block' = IF op[t].then = "dealloc" THEN [block EXCEPT ![op[t].at].magic = "dead"] ELSE block
    /\ Goto(t, IF op[t].then = "dealloc" THEN "finalize" ELSE "realloc")
    /\ UNCHANGED <<counters, retained, owned, fatal>>

debug_remove(t) ==
    /\ At(t, "remove")
    /\ ledger' = [ledger EXCEPT ![op[t].at] = None]
    /\ block' = IF op[t].then = "dealloc" THEN [block EXCEPT ![op[t].at].magic = "dead"] ELSE block
    /\ GotoIf(t, ledger[op[t].at] # None, IF op[t].then = "dealloc" THEN "finalize" ELSE "realloc")
    /\ UNCHANGED <<counters, retained, owned>>

\* drop_body_allocation and drop_seamless_bytes: the last reference is gone, and
\* the bytes of a chunk are no longer retained.
Finalize(t) ==
    /\ At(t, "finalize")
    /\ LET b == block[op[t].at]
           bytes == IF b.kind = "SeamlessBytes" THEN 1 ELSE 0
       IN  /\ retained' = retained - bytes
           /\ GotoIf(t, (b.kind \in HostOwned => b.refs = 0) /\ retained >= bytes, "uncount")
    /\ UNCHANGED <<block, ledger, counters, owned>>

deallocated(t) ==
    /\ At(t, "uncount")
    /\ LET k == Kind(t)
       IN  IF k = "Ordinary" THEN Goto(t, "free") /\ UNCHANGED <<active, fatal>>
           ELSE /\ active' = [active EXCEPT ![k] = @ - 1]
                /\ GotoIf(t, active[k] > 0, "free")
    /\ UNCHANGED <<block, ledger, high_water, peak, retained, owned>>

SystemFree(t) ==
    /\ At(t, "free")
    /\ block' = [block EXCEPT ![op[t].at] = None]
    /\ op' = [op EXCEPT ![t] = Idle]
    /\ UNCHANGED <<ledger, counters, retained, owned, fatal>>

\* The block stays or moves, and its header goes with it.
roc_realloc(t) ==
    /\ At(t, "realloc")
    /\ LET a == op[t].at
           grown == [block[a] EXCEPT !.size = op[t].wanted]
       IN  \E b \in Addresses :
              /\ b = a \/ block[b] = None
              /\ block' = [block EXCEPT ![a] = None, ![b] = grown]
              /\ op' = [op EXCEPT ![t].pc = "register", ![t].at = b]
    /\ UNCHANGED <<ledger, counters, retained, owned, fatal>>

-----------------------------------------------------------------------------
(* RocBytesBuilder: `length` bytes of a block of `size` *)

\* Room is made first if it is needed, twice as much as before if that is allowed.
extend(t, n) ==
    /\ At(t, "build")
    /\ LET required == op[t].length + n
           capacity == block[op[t].at].size
       IN  IF required > maximum_capacity THEN routed_roc_dealloc(t, op[t].at)
           ELSE op' = [op EXCEPT ![t].length = required,
                                 ![t].wanted = Min({Max({required, 2 * capacity}), maximum_capacity}),
                                 ![t].then = "realloc",
                                 ![t].pc = IF required > capacity THEN "validate" ELSE "build"]
    /\ UNCHANGED <<block, ledger, counters, retained, owned, fatal>>

\* The list is Roc's.  An empty one needs no block.
finish(t) ==
    /\ At(t, "build")
    /\ IF op[t].length = 0
       THEN routed_roc_dealloc(t, op[t].at) /\ UNCHANGED owned
       ELSE /\ owned' = [owned EXCEPT ![t][op[t].at] = 1]
            /\ op' = [op EXCEPT ![t] = Idle]
    /\ UNCHANGED <<block, ledger, counters, retained, fatal>>

Next == \E t \in Threads :
    \/ \E k \in HostOwned : allocate(t, k, 1)
    \/ \E n \in 1 .. maximum_capacity : allocate(t, "Ordinary", n)
    \/ debug_register(t) \/ Count(t) \/ LoadHighWater(t) \/ CompareExchange(t) \/ WritePayload(t)
    \/ \E a \in Addresses : incref(t, a) \/ decref(t, a) \/ \E u \in Threads : HandOver(t, u, a)
    \/ validate_header(t) \/ debug_remove(t) \/ Finalize(t) \/ deallocated(t) \/ SystemFree(t)
    \/ roc_realloc(t)
    \/ \E n \in 1 .. 2 : extend(t, n)
    \/ finish(t)

Spec == Init /\ [][Next]_vars
-----------------------------------------------------------------------------
(* Properties *)

\* The shape of the state.
TypeOK ==
    /\ \A a \in Addresses : block[a] # None =>
          block[a] \in [kind : AllocationKind, magic : {"live", "dead"},
                        size : 1 .. maximum_capacity, refs : 0 .. MaxRefs]
    /\ DOMAIN ledger = Addresses
    /\ owned \in [Threads -> [Addresses -> 0 .. MaxRefs]]
    /\ op \in [Threads -> [pc : {"idle", "register", "count", "load", "compare", "write",
                                 "validate", "remove", "finalize", "uncount", "free",
                                 "realloc", "build"},
                           at : Addresses \union {None}, then : {"none", "dealloc", "realloc"},
                           current : Nat, observed : Nat, length : 0 .. maximum_capacity,
                           wanted : 0 .. maximum_capacity]]

Working(a, steps) == \E t \in Threads : op[t].at = a /\ op[t].pc \in steps
Blocks(kinds) == {a \in Addresses : block[a] # None /\ block[a].kind \in kinds}

\* No check of the allocator fails, whichever thread is given an address that
\* another has just freed; and as long as anybody has a reference to a block,
\* every check of it (body_state_from_handle, validate_seamless_range) succeeds
\* and its count is the number of references.  A list that is being built fits
\* its block.
BlocksValid ==
    /\ ~fatal
    /\ \A a \in Addresses :
          LET references == MapThenSumSet(LAMBDA t : owned[t][a], Threads)
          IN  references > 0 => Valid(a) /\ block[a].refs = references
    /\ \A t \in Threads : op[t].pc = "build" =>
          Valid(op[t].at) /\ op[t].length <= block[op[t].at].size

\* The counters that the server reports, and by which rust_main decides that a
\* native resource was left behind, count exactly the blocks there are; the
\* ledger lists them; and the high-water mark is the maximum that was reached,
\* whatever the order in which its updates arrive.
BlocksCounted ==
    /\ \A k \in HostOwned :
          /\ active[k] = Cardinality({a \in Blocks({k}) : ~Working(a, {"register", "count", "free"})})
          /\ (\A t \in Threads : op[t].pc \in {"load", "compare"} => Kind(t) # k) =>
                high_water[k] = peak[k]
    /\ retained = Cardinality({a \in Blocks({"SeamlessBytes"}) :
                     ~Working(a, {"register", "count", "load", "compare", "write", "uncount", "free"})})
    /\ \A a \in Addresses : ledger[a] # None <=>
          /\ a \in Blocks(AllocationKind)
          /\ ~Working(a, {"register", "finalize", "uncount", "free", "realloc"})
    /\ (\A t \in Threads : op[t].pc = "idle" /\ \A a \in Addresses : owned[t][a] = 0) =>
          Blocks(AllocationKind) = {}
=============================================================================
