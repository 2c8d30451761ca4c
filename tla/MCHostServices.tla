--------------------------- MODULE MCHostServices ---------------------------
(***************************************************************************)
(* What the host does for Roc handlers besides answering requests: hosted  *)
(* calls and the memory they own, the allocator, SQLite, host resources,   *)
(* the two gates, commands and outbound requests.  These parts share no    *)
(* state, so each behaviour explores one of them: `service` names it, and  *)
(* the variables of the others are Off.  The synchronous gate is extended  *)
(* rather than instantiated, as its theorems are about it; it rests in its *)
(* initial state meanwhile.                                                *)
(***************************************************************************)
EXTENDS BoundedGate

CONSTANTS Threads, Workers, Txns, Execs, Descendants, Addresses, Connection, Query, NoValue

VARIABLES
    service,
    call, nodes, counts, sliced, prog, fault,
    available, leased, poolOpen, conn, txn, exec, handles, worker, woken,
    free, generations, slots, inUse, refcount, occupant, gate, held, thread, lease,
    draining, corrupt,
    permits, line, queued, request, closure, stopping,
    mode, pc, child, descendant, reader, messages, status, output, result,
    block, ledger, blocks, high_water, peak, retained, op, owned, fatal,
    shared, built, runtime, sends

memoryVars == <<call, nodes, counts, sliced, prog, fault>>
sqliteVars == <<available, leased, poolOpen, conn, txn, exec, handles, worker, woken>>
heapVars == <<free, generations, slots, inUse, refcount, occupant, gate, held, thread,
              lease, draining, corrupt>>
resolutionVars == <<permits, line, queued, request, closure, stopping>>
commandVars == <<mode, pc, child, descendant, reader, messages, status, output, result>>
allocatorVars == <<block, ledger, blocks, high_water, peak, retained, op, owned, fatal>>
outboundVars == <<shared, built, runtime, sends>>

\* The arguments of these two have no second owner: see HostedCalls, and the run
\* of MCHttpHeaders.cfg.
Memory == INSTANCE HostedCalls
            WITH Exclusive <- {"hosted_http_send_request", "hosted_sqlite_start"}
Sqlite == INSTANCE SqlitePool
            WITH Conns <- {Connection}, Queries <- {Query}, CacheCapacity <- 1,
                 None <- NoValue
Heap == INSTANCE HostResources
            WITH Capacity <- 2, MaxGeneration <- 2, MaxRefs <- 2, active <- inUse
Resolution == INSTANCE AsyncBoundedGate WITH Requests <- Callers, free <- permits
Command == INSTANCE Commands
Allocator == INSTANCE RocAllocator
            WITH MaxRefs <- 2, maximum_capacity <- 3, None <- NoValue,
                 active <- blocks
Outbound == INSTANCE OutboundHttp
            WITH MaxTotal <- 2, max_response_bytes <- 1, None <- NoValue,
                 call <- sends

Off == <<>>
MemoryOff ==
    call = Off /\ nodes = Off /\ counts = Off /\ sliced = Off /\ prog = Off /\ fault = Off
SqliteOff ==
    /\ available = Off /\ leased = Off /\ poolOpen = Off /\ conn = Off /\ txn = Off
    /\ exec = Off /\ handles = Off /\ worker = Off /\ woken = Off
HeapOff ==
    /\ free = Off /\ generations = Off /\ slots = Off /\ inUse = Off /\ refcount = Off
    /\ occupant = Off /\ gate = Off /\ held = Off /\ thread = Off /\ lease = Off
    /\ draining = Off /\ corrupt = Off
ResolutionOff ==
    /\ permits = Off /\ line = Off /\ queued = Off /\ request = Off /\ closure = Off
    /\ stopping = Off
CommandOff ==
    /\ mode = Off /\ pc = Off /\ child = Off /\ descendant = Off /\ reader = Off
    /\ messages = Off /\ status = Off /\ output = Off /\ result = Off
AllocatorOff ==
    /\ block = Off /\ ledger = Off /\ blocks = Off /\ high_water = Off /\ peak = Off
    /\ retained = Off /\ op = Off /\ owned = Off /\ fatal = Off
OutboundOff == shared = Off /\ built = Off /\ runtime = Off /\ sends = Off

ServicesInit ==
    /\ Init
    /\ \/ /\ service = "gate"
          /\ MemoryOff /\ SqliteOff /\ HeapOff /\ ResolutionOff
          /\ CommandOff /\ AllocatorOff /\ OutboundOff
       \/ /\ service = "memory" /\ Memory!Init
          /\ SqliteOff /\ HeapOff /\ ResolutionOff /\ CommandOff
          /\ AllocatorOff /\ OutboundOff
       \/ /\ service = "sqlite" /\ Sqlite!Init
          /\ MemoryOff /\ HeapOff /\ ResolutionOff /\ CommandOff
          /\ AllocatorOff /\ OutboundOff
       \/ /\ service = "heap" /\ Heap!Init
          /\ MemoryOff /\ SqliteOff /\ ResolutionOff /\ CommandOff
          /\ AllocatorOff /\ OutboundOff
       \/ /\ service = "resolution" /\ Resolution!Init
          /\ MemoryOff /\ SqliteOff /\ HeapOff /\ CommandOff
          /\ AllocatorOff /\ OutboundOff
       \/ /\ service = "command" /\ Command!Init
          /\ MemoryOff /\ SqliteOff /\ HeapOff /\ ResolutionOff
          /\ AllocatorOff /\ OutboundOff
       \/ /\ service = "allocator" /\ Allocator!Init
          /\ MemoryOff /\ SqliteOff /\ HeapOff /\ ResolutionOff
          /\ CommandOff /\ OutboundOff
       \/ /\ service = "outbound" /\ Outbound!Init
          /\ MemoryOff /\ SqliteOff /\ HeapOff /\ ResolutionOff
          /\ CommandOff /\ AllocatorOff

ServicesNext ==
    \/ /\ service = "gate" /\ Next
       /\ UNCHANGED <<service, memoryVars, sqliteVars, heapVars, resolutionVars,
                      commandVars, allocatorVars, outboundVars>>
    \/ /\ service = "memory" /\ Memory!Next
       /\ UNCHANGED <<service, vars, sqliteVars, heapVars, resolutionVars, commandVars,
                      allocatorVars, outboundVars>>
    \/ /\ service = "sqlite" /\ Sqlite!Next
       /\ UNCHANGED <<service, vars, memoryVars, heapVars, resolutionVars, commandVars,
                      allocatorVars, outboundVars>>
    \/ /\ service = "heap" /\ Heap!Next
       /\ UNCHANGED <<service, vars, memoryVars, sqliteVars, resolutionVars,
                      commandVars, allocatorVars, outboundVars>>
    \/ /\ service = "resolution" /\ Resolution!Next
       /\ UNCHANGED <<service, vars, memoryVars, sqliteVars, heapVars, commandVars,
                      allocatorVars, outboundVars>>
    \/ /\ service = "command" /\ Command!Next
       /\ UNCHANGED <<service, vars, memoryVars, sqliteVars, heapVars, resolutionVars,
                      allocatorVars, outboundVars>>
    \/ /\ service = "allocator" /\ Allocator!Next
       /\ UNCHANGED <<service, vars, memoryVars, sqliteVars, heapVars, resolutionVars,
                      commandVars, outboundVars>>
    \/ /\ service = "outbound" /\ Outbound!Next
       /\ UNCHANGED <<service, vars, memoryVars, sqliteVars, heapVars, resolutionVars,
                      commandVars, allocatorVars>>

allVars == <<service, vars, memoryVars, sqliteVars, heapVars, resolutionVars, commandVars,
             allocatorVars, outboundVars>>
ServicesSpec == ServicesInit /\ [][ServicesNext]_allVars
-----------------------------------------------------------------------------
(* Properties: those of the parts, each while its part is explored *)

\* No hosted call uses memory that has been freed, and no reference outlives its
\* block in the allocator.
NoUseAfterFree ==
    /\ service = "memory" => Memory!TypeOK /\ Memory!NoUseAfterFree
    /\ service = "allocator" => Allocator!TypeOK /\ Allocator!BlocksValid

\* Every allocation of a hosted call's arguments and result is freed in the end,
\* and the allocator's counters count what is there.
NothingLeaked ==
    /\ service = "memory" => Memory!NothingLeaked
    /\ service = "allocator" => Allocator!BlocksCounted

\* A SQLite connection has one owner, which leaves it as it must be found, and
\* goes back to the pool or is closed when that owner is gone.
ConnectionsLeased ==
    service = "sqlite" => /\ Sqlite!TypeOK
                          /\ Sqlite!ConnectionOwnedOnce
                          /\ Sqlite!ReadyForReuse
                          /\ Sqlite!LeasesReturned

\* No thread sleeps on the pool's or the gate's condition variable beside a
\* connection or a permit that is free, unless a wakeup is on its way.
NoWaiterStranded ==
    /\ service = "sqlite" => Sqlite!WaiterNotStranded
    /\ IInv             \* NoneStranded, with what its proof rests on

\* Slots of the resource heap and permits of name resolution are exact.
SlotsAndPermitsAccounted ==
    /\ service = "heap" => Heap!TypeOK /\ Heap!SlotsAccounted
    /\ service = "resolution" => Resolution!TypeOK /\ Resolution!PermitsExact

\* A reference owned by Roc or by a route resolves to the resource it was made
\* for, and a gate is not seen ready once the server drains.
ReferencesResolve ==
    service = "heap" => Heap!ReferenceResolves /\ Heap!DrainingNeverReady

\* A finished command leaves no child, no reader and no member of its group; an
\* outbound request that has returned has neither client nor permit, and brings
\* the whole response within its limit or an error that says what happened.
OperationsComplete ==
    /\ service = "command" => Command!TypeOK /\ Command!CommandLeavesNothing
    /\ service = "outbound" => /\ Outbound!TypeOK /\ Outbound!ClientShared
                               /\ Outbound!ResponseWhole /\ Outbound!ErrorsNameTheirPhase
=============================================================================
