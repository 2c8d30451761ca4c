---------------------------- MODULE HostResources ----------------------------
(***************************************************************************)
(* host_resource.rs, request_parts.rs and readiness.rs: a finite heap of   *)
(* native resources that Roc owns through reference-counted boxes.         *)
(*                                                                         *)
(* Threads run Roc handlers and hosted functions.  They copy, hand over    *)
(* and drop references, look resources up by a reference they own, and     *)
(* run the destructor when they drop the last one.  A resource is named by *)
(* its slot and generation; the resources here are readiness gates, one of *)
(* which the server may retain for a readiness route.                      *)
(***************************************************************************)
EXTENDS Naturals, FiniteSets, Sequences, SequencesExt

CONSTANTS
    Threads,
    Capacity,           \* slots of the heap, at least one
    MaxGeneration,      \* MAX_GENERATION
    MaxRefs             \* bound on the references a thread has to one resource

Slots == 1 .. Capacity
Resources == Slots \X (1 .. MaxGeneration)
None == <<0, 0>>

VARIABLES
    free,               \* HeapState.free, a stack
    generations,        \* HeapState.generations
    slots,              \* HeapState.slots
    active,             \* HeapState.active
    refcount,           \* the count in front of each slot's token
    occupant,           \* the resource a slot holds, None if uninitialised
    gate,               \* ReadinessGate.state of each resource
    held,               \* references each thread owns
    thread,             \* what each thread is doing, and to what
    lease,              \* the readiness route's reference
    draining,           \* begin_draining has run
    corrupt             \* route_dealloc answered Corrupt, or an assertion failed

vars == <<free, generations, slots, active, refcount, occupant, gate, held, thread,
          lease, draining, corrupt>>

heap == <<free, generations, slots, active>>
server == <<lease, draining>>

Run == [pc |-> "run", on |-> None]
At(t, pc) == thread[t].pc = pc
On(t) == thread[t].on
Go(t, pc, r) == thread' = [thread EXCEPT ![t] = [pc |-> pc, on |-> r]]

Init ==
    /\ free = [k \in Slots |-> Capacity + 1 - k]
    /\ generations = [i \in Slots |-> 0]
    /\ slots = [i \in Slots |-> "Free"]
    /\ active = 0
    /\ refcount = [i \in Slots |-> 0]
    /\ occupant = [i \in Slots |-> None]
    /\ gate = [r \in Resources |-> "NOT_READY"]
    /\ held = [t \in Threads |-> [r \in Resources |-> 0]]
    /\ thread = [t \in Threads |-> Run]
    /\ lease = None
    /\ draining = FALSE
    /\ corrupt = FALSE

-----------------------------------------------------------------------------
(* Creating a resource *)

Exhausted(i) == generations[i] + 1 > MaxGeneration
\* The slots `reserve` pops: it retires exhausted ones until it finds another.
Popped == LET usable == {k \in DOMAIN free : ~Exhausted(free[k])}
          IN  IF usable = {} THEN 1 ELSE CHOOSE k \in usable : \A j \in usable : j <= k

reserve(t) ==
    /\ At(t, "run") /\ free # <<>>
    /\ LET i == free[Popped]
           retired == {free[k] : k \in {j \in Popped .. Len(free) : Exhausted(free[j])}}
       IN  /\ free' = SubSeq(free, 1, Popped - 1)
           /\ IF Exhausted(i)
              THEN /\ slots' = [j \in Slots |-> IF j \in retired THEN "Retired" ELSE slots[j]]
                   /\ UNCHANGED <<generations, active, thread>>
              ELSE /\ slots' = [j \in Slots |-> CASE j = i -> "Reserved"
                                                  [] j \in retired -> "Retired"
                                                  [] OTHER -> slots[j]]
                   /\ generations' = [generations EXCEPT ![i] = @ + 1]
                   /\ active' = active + 1
                   /\ Go(t, "reserved", <<i, generations[i] + 1>>)
    /\ UNCHANGED <<refcount, occupant, gate, held, server, corrupt>>

\* commit, with its assertions.  A request's parts are then shared by `n`
\* strings, perhaps by none; other resources have n = 1.
commit(t, n, ready) ==
    /\ At(t, "reserved")
    /\ LET r == On(t)
           i == r[1]
       IN  /\ corrupt' = (corrupt \/ slots[i] # "Reserved" \/ generations[i] # r[2])
           /\ occupant' = [occupant EXCEPT ![i] = r]
           /\ gate' = [gate EXCEPT ![r] = IF ready THEN "READY" ELSE "NOT_READY"]
           /\ slots' = [slots EXCEPT ![i] = "Live"]
           /\ refcount' = [refcount EXCEPT ![i] = IF n = 0 THEN 1 ELSE n]
           /\ held' = [held EXCEPT ![t][r] = n]
           /\ IF n = 0 THEN Go(t, "release", r) ELSE Go(t, "run", None)
    /\ UNCHANGED <<free, generations, active, server>>

\* The cancelled slot still counts as active.
cancel_still_active(t) ==
    /\ At(t, "reserved")
    /\ slots' = [slots EXCEPT ![On(t)[1]] = "Free"]
    /\ free' = Append(free, On(t)[1])
    /\ Go(t, "run", None)
    /\ UNCHANGED <<generations, active, refcount, occupant, gate, held, server, corrupt>>

\* The reservation is dropped uncommitted: what it was for failed.
cancel_reservation(t) ==
    /\ At(t, "reserved")
    /\ LET i == On(t)[1]
       IN  IF slots[i] = "Reserved" /\ generations[i] = On(t)[2]
           THEN /\ slots' = [slots EXCEPT ![i] = "Free"]
                /\ active' = active - 1
                /\ free' = Append(free, i)
           ELSE UNCHANGED <<slots, active, free>>
    /\ Go(t, "run", None)
    /\ UNCHANGED <<generations, refcount, occupant, gate, held, server, corrupt>>

-----------------------------------------------------------------------------
(* References *)

\* Roc copies a reference it owns, or passes it on to another thread.
Copy(t, r) ==
    /\ At(t, "run") /\ held[t][r] \in 1 .. MaxRefs - 1
    /\ refcount' = [refcount EXCEPT ![r[1]] = @ + 1]
    /\ held' = [held EXCEPT ![t][r] = @ + 1]
    /\ UNCHANGED <<heap, occupant, gate, thread, server, corrupt>>

HandOver(t, u, r) ==
    /\ At(t, "run") /\ held[t][r] > 0 /\ u # t /\ held[u][r] < MaxRefs
    /\ held' = [held EXCEPT ![t][r] = @ - 1, ![u][r] = @ + 1]
    /\ UNCHANGED <<heap, refcount, occupant, gate, thread, server, corrupt>>

\* A reference becomes the argument of a hosted call, which owns it ...
Call(t, r) ==
    /\ At(t, "run") /\ held[t][r] > 0
    /\ held' = [held EXCEPT ![t][r] = @ - 1]
    /\ Go(t, "call", r)
    /\ UNCHANGED <<heap, refcount, occupant, gate, server, corrupt>>

\* HostResourceHeap::get.
Resolves(r) ==
    /\ refcount[r[1]] > 0
    /\ slots[r[1]] = "Live"
    /\ generations[r[1]] = r[2]

get(t) ==
    /\ At(t, "call")
    /\ Go(t, IF Resolves(On(t)) THEN "using" ELSE "stale", On(t))
    /\ UNCHANGED <<heap, refcount, occupant, gate, held, server, corrupt>>

\* Stores without looking at the state it replaces.
set_blindly(t, ready) ==
    /\ thread[t].pc \in {"using", "stale"}
    /\ gate' = IF At(t, "stale") THEN gate
               ELSE [gate EXCEPT ![occupant[On(t)[1]]] = IF ready THEN "READY" ELSE "NOT_READY"]
    /\ Go(t, "release", On(t))
    /\ UNCHANGED <<heap, refcount, occupant, held, server, corrupt>>

\* ... and releases it when it has used the resource: hosted_readiness_set.
\* A stopping gate refuses, and nothing is set when the lookup failed.
set(t, ready) ==
    /\ thread[t].pc \in {"using", "stale"}
    /\ gate' = IF At(t, "stale") THEN gate
               ELSE [gate EXCEPT ![occupant[On(t)[1]]] =
                        CASE @ = "STOPPING" -> "STOPPING"
                          [] ready -> "READY"
                          [] OTHER -> "NOT_READY"]
    /\ Go(t, "release", On(t))
    /\ UNCHANGED <<heap, refcount, occupant, held, server, corrupt>>

Drop(t, r) ==
    /\ At(t, "run") /\ held[t][r] > 0
    /\ held' = [held EXCEPT ![t][r] = @ - 1]
    /\ Go(t, "release", r)
    /\ UNCHANGED <<heap, refcount, occupant, gate, server, corrupt>>

\* decref_box: whoever takes the count to zero frees the box.
decref(t) ==
    /\ At(t, "release")
    /\ LET i == On(t)[1]
       IN  /\ refcount' = [refcount EXCEPT ![i] = IF @ > 0 THEN @ - 1 ELSE 0]
           /\ corrupt' = (corrupt \/ refcount[i] = 0)
           /\ IF refcount[i] = 1 THEN Go(t, "dealloc", On(t)) ELSE Go(t, "run", None)
    /\ UNCHANGED <<heap, occupant, gate, held, server>>

\* route_dealloc up to the unlock: the resource is taken out of its slot.
BeginClosing(t) ==
    /\ At(t, "dealloc")
    /\ LET i == On(t)[1]
       IN  IF slots[i] # "Live" \/ refcount[i] # 0 \/ occupant[i] # <<i, generations[i]>>
           THEN corrupt' = TRUE /\ Go(t, "run", None) /\ UNCHANGED <<slots, occupant, gate>>
           ELSE /\ slots' = [slots EXCEPT ![i] = "Closing"]
                /\ occupant' = [occupant EXCEPT ![i] = None]
                /\ gate' = [gate EXCEPT ![<<i, generations[i]>>] = "NOT_READY"]
                /\ Go(t, "closing", <<i, generations[i]>>)
                /\ UNCHANGED corrupt
    /\ UNCHANGED <<free, generations, active, refcount, held, server>>

\* The resource has been dropped, without the lock: the slot is free again.
FinishClosing(t) ==
    /\ At(t, "closing")
    /\ LET i == On(t)[1]
       IN  /\ corrupt' = (corrupt \/ slots[i] # "Closing" \/ generations[i] # On(t)[2])
           /\ slots' = [slots EXCEPT ![i] = "Free"]
           /\ active' = active - 1
           /\ free' = Append(free, i)
    /\ Go(t, "run", None)
    /\ UNCHANGED <<generations, refcount, occupant, gate, held, server>>

-----------------------------------------------------------------------------
(* The server's readiness route *)

\* The reference is kept without being counted.
retain_uncounted(t, r) ==
    /\ At(t, "run") /\ held[t][r] > 0 /\ Resolves(r)
    /\ lease = None /\ ~draining
    /\ lease' = r
    /\ UNCHANGED <<heap, refcount, occupant, gate, held, thread, draining, corrupt>>

\* ReadinessLease::retain, at startup, from the configuration's reference.
retain(t, r) ==
    /\ At(t, "run") /\ held[t][r] > 0 /\ Resolves(r)
    /\ lease = None /\ ~draining
    /\ lease' = r
    /\ refcount' = [refcount EXCEPT ![r[1]] = @ + 1]
    /\ UNCHANGED <<heap, occupant, gate, held, thread, draining, corrupt>>

\* begin_stopping on the route's gate, when the drain begins.
begin_stopping ==
    /\ lease # None /\ ~draining
    /\ draining' = TRUE
    /\ gate' = IF Resolves(lease)
               THEN [gate EXCEPT ![occupant[lease[1]]] = "STOPPING"] ELSE gate
    /\ UNCHANGED <<heap, refcount, occupant, held, thread, lease, corrupt>>

\* The server has stopped and drops its routes.
DropLease(t) ==
    /\ At(t, "run") /\ lease # None /\ draining
    /\ lease' = None
    /\ Go(t, "release", lease)
    /\ UNCHANGED <<heap, refcount, occupant, gate, held, draining, corrupt>>

Next ==
    \/ begin_stopping
    \/ \E t \in Threads :
          \/ reserve(t) \/ cancel_reservation(t) \/ get(t) \/ decref(t)
          \/ BeginClosing(t) \/ FinishClosing(t) \/ DropLease(t)
          \/ \E n \in 0 .. MaxRefs, ready \in BOOLEAN : commit(t, n, ready)
          \/ \E ready \in BOOLEAN : set(t, ready)
          \/ \E r \in Resources :
                \/ Copy(t, r) \/ Call(t, r) \/ Drop(t, r) \/ retain(t, r)
                \/ \E u \in Threads : HandOver(t, u, r)

Spec == Init /\ [][Next]_vars
-----------------------------------------------------------------------------
(* Properties *)

\* The shape of the state.
TypeOK ==
    /\ free \in Seq(Slots) /\ active \in 0 .. Capacity
    /\ generations \in [Slots -> 0 .. MaxGeneration]
    /\ slots \in [Slots -> {"Free", "Reserved", "Live", "Closing", "Retired"}]
    /\ occupant \in [Slots -> Resources \union {None}]
    /\ gate \in [Resources -> {"NOT_READY", "READY", "STOPPING"}]
    /\ lease \in Resources \union {None}
    /\ \A t \in Threads : thread[t].on \in Resources \union {None}

\* A reference always names its own resource, in its slot, until it is given
\* up: a call with a reference it owns is never told that it is stale, never
\* works on the slot's next resource, and never outlives the resource.
ReferenceResolves ==
    /\ \A t \in Threads :
          /\ ~At(t, "stale")
          /\ \A r \in Resources : held[t][r] > 0 => Resolves(r) /\ occupant[r[1]] = r
          /\ thread[t].pc \in {"call", "using", "release"} =>
                Resolves(On(t)) /\ occupant[On(t)[1]] = On(t)
    /\ lease # None => Resolves(lease) /\ occupant[lease[1]] = lease

\* The heap's books balance however its users interleave: no destructor runs
\* twice, no assertion fails and nothing is found corrupt; each slot in the free
\* stack is free and there once; `active` counts the others; and a slot whose
\* generations are used up never comes back.
SlotsAccounted ==
    /\ ~corrupt
    /\ \A k \in DOMAIN free : slots[free[k]] = "Free"
    /\ \A i \in Slots : slots[i] = "Free" => \E k \in DOMAIN free : free[k] = i
    /\ IsInjective(free)
    /\ active = Cardinality({i \in Slots : slots[i] \in {"Reserved", "Live", "Closing"}})
    /\ \A i \in Slots : slots[i] = "Retired" => generations[i] = MaxGeneration

\* From the moment the drain begins the readiness route answers not ready,
\* whatever handlers that still run set, and although the application may have
\* dropped its own references.
DrainingNeverReady ==
    draining /\ lease # None => Resolves(lease) /\ gate[occupant[lease[1]]] = "STOPPING"
=============================================================================
