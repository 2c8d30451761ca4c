-------------------------- MODULE AsyncBoundedGate --------------------------
(***************************************************************************)
(* bounded_gate.rs and http.rs: the asynchronous gate in front of blocking *)
(* name resolution.  A request's future acquires a permit and moves it     *)
(* into the blocking closure; the request's timeout may drop the future at *)
(* any await, but a closure that has started cannot be cancelled.          *)
(* `shutdown` waits, for a bounded time, until every permit is back.       *)
(*                                                                         *)
(* Tokio's semaphore hands permits out in the order of its queue; one that *)
(* is returned goes to the front waiter even before that one is polled.    *)
(***************************************************************************)
EXTENDS Naturals, FiniteSets, Sequences, SequencesExt

CONSTANTS
    Requests,
    MaxActive,          \* max_active, at least one
    MaxWaiting          \* max_waiting

VARIABLES
    free,               \* permits of `active` that nobody has
    line,               \* the semaphore's queue: what each waiter still needs
    queued,             \* permits of `queued` that nobody has
    request,            \* each request's future
    closure,            \* each request's blocking closure
    stopping            \* shutdown: "no", "waiting", "drained" or "timed_out"

vars == <<free, line, queued, request, closure, stopping>>

Waiter(who, n) == [who |-> who, needs |-> n]
Shutdown == "shutdown"

Init ==
    /\ free = MaxActive /\ line = <<>> /\ queued = MaxWaiting
    /\ request = [r \in Requests |-> "none"]
    /\ closure = [r \in Requests |-> "none"]
    /\ stopping = "no"

\* Returned permits go to the waiters in order, the rest becomes free.
Give(n, waiters) ==
    LET missing[k \in 0 .. Len(waiters)] ==
            IF k = 0 THEN 0 ELSE missing[k - 1] + waiters[k].needs
        left(k) == LET before == IF n > missing[k - 1] THEN n - missing[k - 1] ELSE 0
                   IN  IF before >= waiters[k].needs THEN 0 ELSE waiters[k].needs - before
    IN  /\ line' = [k \in DOMAIN waiters |-> Waiter(waiters[k].who, left(k))]
        /\ free' = IF n > missing[Len(waiters)] THEN n - missing[Len(waiters)] ELSE 0

Place(who) == CHOOSE k \in DOMAIN line : line[k].who = who
Without(who) == RemoveAt(line, Place(who))

-----------------------------------------------------------------------------
(* AsyncBoundedGate::acquire, in the future of a request *)

acquire(r) ==
    /\ request[r] = "none" /\ closure[r] = "none" /\ stopping = "no"
    /\ CASE free > 0 ->
              free' = free - 1 /\ request' = [request EXCEPT ![r] = "permit"]
              /\ UNCHANGED <<line, queued>>
         [] free = 0 /\ queued = 0 -> UNCHANGED <<free, line, queued, request>>
         [] OTHER ->
              /\ queued' = queued - 1
              /\ line' = Append(line, Waiter(r, 1))
              /\ request' = [request EXCEPT ![r] = "waiting"]
              /\ UNCHANGED free
    /\ UNCHANGED <<closure, stopping>>

\* The future is polled once its permit was handed to it.
Acquired(r) ==
    /\ request[r] = "waiting" /\ line[Place(r)].needs = 0
    /\ line' = Without(r)
    /\ queued' = queued + 1
    /\ request' = [request EXCEPT ![r] = "permit"]
    /\ UNCHANGED <<free, closure, stopping>>

\* spawn_blocking: the closure owns the permit from here on.
SpawnBlocking(r) ==
    /\ request[r] = "permit"
    /\ request' = [request EXCEPT ![r] = "resolving"]
    /\ closure' = [closure EXCEPT ![r] = "running"]
    /\ UNCHANGED <<free, line, queued, stopping>>

\* The closure returns and drops its permit.
Resolved(r) ==
    /\ closure[r] = "running"
    /\ closure' = [closure EXCEPT ![r] = "none"]
    /\ request' = [request EXCEPT ![r] = IF @ = "resolving" THEN "none" ELSE @]
    /\ Give(free + 1, line)
    /\ UNCHANGED <<queued, stopping>>

\* A waiter that was handed a permit takes it along when it is dropped.
CancelKeepsPermit(r) ==
    /\ request[r] = "waiting"
    /\ request' = [request EXCEPT ![r] = "none"]
    /\ queued' = queued + 1
    /\ line' = Without(r)
    /\ UNCHANGED <<free, closure, stopping>>

\* The request's timeout drops its future, wherever it is.
Cancel(r) ==
    /\ request[r] # "none"
    /\ request' = [request EXCEPT ![r] = "none"]
    /\ CASE request[r] = "waiting" ->
              /\ queued' = queued + 1
              /\ Give(free + 1 - line[Place(r)].needs, Without(r))
         [] request[r] = "permit" -> Give(free + 1, line) /\ UNCHANGED queued
         [] OTHER -> UNCHANGED <<free, line, queued>>
    /\ UNCHANGED <<closure, stopping>>

-----------------------------------------------------------------------------
(* http::shutdown, after every hosted call has returned *)

wait_for_idle ==
    /\ stopping = "no"
    /\ \A r \in Requests : request[r] = "none"
    /\ stopping' = "waiting"
    /\ free' = 0
    /\ line' = Append(line, Waiter(Shutdown, MaxActive - free))
    /\ UNCHANGED <<queued, request, closure>>

wait_for_dns_shutdown ==
    /\ stopping = "waiting"
    /\ \/ line[Place(Shutdown)].needs = 0 /\ stopping' = "drained"
       \/ stopping' = "timed_out"
    /\ Give(MaxActive - line[Place(Shutdown)].needs, Without(Shutdown))
    /\ UNCHANGED <<queued, request, closure>>

Next ==
    \/ wait_for_idle \/ wait_for_dns_shutdown
    \/ \E r \in Requests : acquire(r) \/ Acquired(r) \/ SpawnBlocking(r)
                           \/ Resolved(r) \/ Cancel(r)

Spec == Init /\ [][Next]_vars
-----------------------------------------------------------------------------
(* Properties *)

\* The shape of the state.
TypeOK ==
    /\ free \in 0 .. MaxActive /\ queued \in 0 .. MaxWaiting
    /\ request \in [Requests -> {"none", "waiting", "permit", "resolving"}]
    /\ closure \in [Requests -> {"none", "running"}]
    /\ stopping \in {"no", "waiting", "drained", "timed_out"}
    /\ \A k \in DOMAIN line : line[k].needs \in 0 .. MaxActive

\* Every permit is free, with a future or a closure, or handed to a waiter,
\* also after futures were dropped: never more closures run than permitted, and
\* a wait that found the gate idle left none running.  No permit stays free
\* beside a waiter, and no dropped future keeps its place in the queue.
PermitsExact ==
    LET handed[k \in 0 .. Len(line)] ==
            IF k = 0 THEN 0
            ELSE handed[k - 1] + (IF line[k].who = Shutdown THEN MaxActive ELSE 1) - line[k].needs
        out == Cardinality({r \in Requests : closure[r] = "running"})
               + Cardinality({r \in Requests : request[r] = "permit"})
    IN  /\ free + out + handed[Len(line)] = MaxActive
        /\ free > 0 => \A k \in DOMAIN line : line[k].needs = 0
        /\ queued + Cardinality({r \in Requests : request[r] = "waiting"}) = MaxWaiting
        /\ stopping = "drained" => out = 0
=============================================================================
