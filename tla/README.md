# A TLA+ model of basic-webserver

basic-webserver is a Rust host that serves HTTP/1 and HTTP/2 on Tokio and runs
the application's synchronous Roc handlers on a fixed pool of threads.  This
directory models the host: which job runs, who is told about it, what a
cancelled, refused or late operation leaves behind, who owns the memory and the
native resources that cross the boundary to Roc, how a request becomes a framed
response, and how the server stops.  TLC checks the models on small instances;
for every size, TLAPS proves the safety properties of both executors, the
dispatch of requests, the server's lifecycle, event-stream transitions, request
bodies and the admission gate.

`PROJECT.json` maps each definition to the lines it models and lists the
components, the runs, the mutants that show each property can fail, the hazards
and the theorems.

## The system's parts

| Part | Source | Model |
|---|---|---|
| Fixed-worker executor | `roc_executor.rs` | `FixedExecutor`, abstractly `AdmissionControl` |
| Dispatch of a request to a handler | `http_server.rs` | `RocDispatch` |
| Server lifecycle, drain, hook, exit code | `http_server.rs`, `shutdown.rs` | `ServerLifecycle` |
| Stages of a request, metrics, access log | `http_server.rs`, `telemetry.rs` | `RequestHandling` |
| HTTP/1.1 connection and its deadlines | `server_transport.rs` | `Http1Transport` |
| Targets, limits, routes | `request_target.rs`, `request_limits.rs`, `native_router.rs` | `RequestTargets` |
| The request given to Roc | `request_parts.rs`, `http_server.rs` | `RequestConversion` |
| Framing, negotiation, file ranges | `response.rs`, `compression.rs`, `file_server.rs` | `ResponseFraming` |
| Streamed bodies, frame pool, HTTP/2 sender | `response_body.rs`, `http_server.rs` | `ResponseStream` |
| SSE transitions | `http_server.rs` | `SseSource` |
| Brotli lanes and workers | `brotli_executor.rs` | `BrotliExecutor` |
| Request bodies and file sinks | `request_body.rs`, `body_sink.rs` | `RequestBody` |
| Allocator, host-owned allocations | `roc_alloc.rs`, `request_body.rs` | `RocAllocator` |
| Ownership across the ABI | `roc_platform_abi.rs`, `abi/mod.rs` and the hosted functions | `AbiTypes`, `RocMemory`, `HostedCalls` |
| Host resources, readiness | `host_resource.rs`, `readiness.rs` | `HostResources` |
| SQLite pool and transactions | `sqlite.rs` | `SqlitePool` |
| Gates | `bounded_gate.rs`, used by `cmd.rs`, `http.rs`, `tcp.rs` | `BoundedGate`, `AsyncBoundedGate` |
| Commands | `cmd.rs` | `Commands` |
| Outbound HTTP | `http.rs`, `http_error.rs` | `OutboundHttp` |

How they interact: the accept loop gives every connection a task and a slot; a
connection gives every request a task and an `ActiveRequest`.  A request is
validated and routed; one that needs Roc code is converted, submits a job to the
executor and waits, with a queue timeout if all workers are taken, while a pump
task feeds its body to the handler.  The handler calls hosted functions, which
own their arguments, and may use SQLite, files, commands and outbound requests.
Its response is framed, perhaps compressed, and sent.  A stream keeps submitting
one job per transition, and a compressed one leases a lane and sends finite
operations to the Brotli workers.  Shutdown closes admission, refuses new
requests, waits for every `ActiveRequest` and connection up to a deadline, joins
the executor, runs the application's hook under a watchdog, and waits for what
name resolution has left running.

## Modules

### Jobs and threads

`AdmissionControl` says what the executor promises: at most `Workers + Waiting`
jobs, FIFO claims, withdrawal of a job only while it waits, no admission after
close.  `FixedExecutor` is the code: the ring, `outstanding`, the condition
variable (`wakeOne`, `wakeAll`, sleepers, spurious wakeups), notification *after*
the unlock, `JobRetirement` once per job, thread creation that can fail half-way,
and the owner's `shutdown` with its joins.  It implements `AdmissionControl`, and
the modules that use an executor are composed with that abstraction
(`Exec == INSTANCE AdmissionControl`).

`RocDispatch` follows one request per caller: `Submit`, `Refuse`, the timer
(`QueueTimeout`, then `Expire`, which succeeds only if `cancel_queued` still
finds the job), `DropGuard` and `DropReceiver` for a caller that leaves, and the
job's own steps in the code's order: skip or promote, run, expire the body
capability, drop the gauge, retire, send.

`ServerLifecycle` is the whole life of the process, one action per await or
statement of `run_server_with_listener`, `wait_for_idle`, `start_inner` and
`finish_shutdown`, with connections of both protocols, requests that answer
directly, run a handler, stream or transfer a file, signals, and the two
deadlines.

`SseSource` has the completion slot (idle, starting, queued, running, ready,
cancelled), the waker, the source's own state, the queue timer, the wake timer,
cancellation from the task and from shutdown, and the job that answers.

`BrotliExecutor` has the stack of available lanes, the cells (encoder, cancelled
flag, result, waker), the bounded channel, workers that publish and then wake, a
job's drop in its three separate steps, and the owner's drop.

### From the socket to the response

`Http1Transport` is one connection: detection of the protocol and replay of its
bytes, then Hyper's poll loop (external: `task` is its next step) around
`Http1Io`'s reads, writes and timers and the phases of `Http1Activity`.  A timer
has no clock; `fresh` says that its deadline was set in the present phase.

`RequestTargets` classifies and validates the target and the authority, applies
the limits (the bytes of the target with its query, the number of fields, and
their bytes with 32 more for each) and looks the path up, as functions of one
request.  Static mounts are tried in the order of `activate`, by length in bytes
and then by text.  The routing is compared with the declaration
(`RoutedAsDeclared`): the exact route, or else the nearest declared ancestor; and
a refusal for size with the length of the target as it was written.
`RequestConversion` extends it with the request that a
handler is given: which strings are slices of Hyper's request, the count that
keeps it alive, their release in any order, and the copy when the heap is full.

`RequestHandling` has the stages of `handle_req`, the guards a request collects
(active request, stream slot, lane, job), a future dropped at any await, panics,
and the one record it leaves in the metrics and in the bounded access log.  Slot
and lane are separate, and come back in the code's order: an event stream that
fails before its response is committed frees its slot with the source and its lane
a step later; a body that is dropped while a Brotli operation runs leaves the lane
with the worker.  So a stream that has a slot can be refused for want of a lane,
although there are as many lanes as slots (`max_sse_streams` of both), and
`GuardsReturned` says that this happens only while a lane is on its way back.
`FailuresLabelled` excepts the host's 406 for a stream whose codings the client
refuses, which the code records without a reason.  At the end
`Telemetry::shutdown` drops the sender, and `LogWorker::stop` joins the writer or,
at its deadline, leaves it with what is still queued.

`ResponseFraming` has preconditions, `If-Range`, ranges, `Accept-Encoding`,
length rules and finalization as functions of one request, checked against
independent definitions of the bytes asked for and of what a client accepts.

`ResponseStream` is one streamed body: the frame pool with its waiter, the phases
of an event stream with the encoder inline or on the executor, and
`send_h2_response` with h2's queue.  Bytes are counted in units.

`RequestBody` has the pump with its two biased selects, the bounded channel with
Tokio's hand-over of a freed permit to a waiting send (`slot`), `stop` in its
three steps for each of its callers, the reader inside `receive_with_limit`,
`read_all` and `write_file`, the staging file, and the watchdog.  Chunks are
ranges of byte numbers, so a lost or repeated one shows.

### Memory and services

`AbiTypes` states, for every type of the generated ABI, which counted
allocations a value holds.  `RocMemory` runs programs of ownership effects
(borrow, shallow and recursive release, seamless slices) one atomic operation at
a time beside a second owner on another thread.  `HostedCalls` gives the program
of each of the 60 hosted functions on every way through it, and of the host's
use of what Roc returns.

`RocAllocator` has the blocks, their headers, the ledger of the debug build, the
counters with their compare-and-exchange loop, and threads that allocate, share,
release and grow blocks at addresses that are reused at once.

`HostResources` is the heap of native resources with slots, generations and
reservations; its resources are readiness gates, which the server may lease.
`SqlitePool` has the pool, its condition variable, replacement of broken
connections, statement caches, executions and transactions, and destructors run
by whichever thread drops the last handle.  `BoundedGate` and `AsyncBoundedGate`
are the two admission gates with the calls, resolver threads and blocking
closures that hold their permits.  `Commands` has a child, descendants that may
leave its process group, the readers and the supervisor.  `OutboundHttp` has the
shared client, the single deadline, the limit on the response and the
classification of errors.

## Runs

| Run | Instance | Distinct states | Shows |
|---|---|---|---|
| `executors` | 2 workers, 1 waiting place, 4 jobs; 1 lane, 2 streams | 26,678 | accounting, order, wakeups, shutdown, refinement; leases last, operations complete |
| `roc_dispatch` | 3 requests, 1 worker, 1 waiting place | 147,801 | a refused handler never runs; nobody waits for ever |
| `server_lifecycle` | 2 connections, 1 slot, 2 requests | 631,756 | the hook runs alone, the first cause wins, shutdown ends |
| `sse_source` | 2 streams, 3 transitions, 1 worker | 196,477 | one transition at a time, kept wakeups, true timeouts |
| `request_body` | frames of 2 bytes, hard limit 3, 2 buffered chunks, 2 reads | 528,670 | whole bodies, whole files, kept drains, reads return |
| `host_services` | see below | 918,291 | memory, resources, permits, connections and processes are accounted for |
| `request_path` | see below | 1,072,728 | connections, routes, requests, framing and streams |
| `lifecycle_transfers`, `brotli_reuse`, `request_body_stop`, `http_headers`, `keep_alive` | | | violated: see Findings |

`host_services` and `request_path` put parts that share no state into one run:
a variable (`service`, `part`) chosen initially names the part that moves, the
variables of the others stay `<<>>`, and each property is the conjunction of the
parts' properties, guarded by that variable.  The parts do not interact there;
where they do interact, the composition is in the module itself (an executor in
`RocDispatch`, `SseSource` and `ServerLifecycle`; the request and its conversion;
gates and their users).

Bounds.  Each instance is the smallest in which every case happens: one more job
than the executor admits, so that refusal, queueing and reuse of a place all
occur; one connection slot fewer than connections; a second stream to take the
lane that a first one is still letting go; a body that passes the handler's
limit, and one that passes the hard limit.  In `host_services`: four callers for
two permits and two places; two threads and two addresses, so that a freed block
is given out again while its ledger entry is being removed; one connection for
two workers; two slots with two generations, so that one is exhausted; a child
with two descendants, one in the group and one outside; a response of two pieces
against a limit of one.  In `request_path`: up to three request heads, pipelined or
split, two frames per response; a pool of two frames and items larger than a
frame; files of up to four bytes with every range; every combination of two
hosts, a differently cased one and an invalid one in the target and in up to two
`Host` fields; targets and fields one byte within and over their limits, and
mounts of which two have the same length; two requests that compete for one slot
and one lane.  Those two requests are interchangeable, which is the only symmetry
used.  `MaxTickets`, `MaxOps`, `MaxReads`, `MaxRefs`, `MaxFrames`,
`MaxTotal`, `MaxItem` and `Items` bound counters and inputs and appear only in
guards and in the choice of inputs.

Fairness.  Threads that are ready to run are scheduled, and Tokio polls a woken
task: weak fairness on worker, owner and task steps.  The condition variable's
pending notification is delivered.  Timers expire.  Roc handlers return in
`FixedExecutor`, `RocDispatch` and `SseSource`, where the question is whether a
*finished* job's caller hears of it.  In `ServerLifecycle` nothing is assumed of
handlers, clients, file threads or the hook, because the deadlines exist for
those that hang.  In `RequestBody` the client may stall: the pump's idle timer and
the watchdog's deadline expire.  The two composed runs check safety only; that
nobody sleeps beside what they wait for is stated there as a safety property
(`NoWaiterStranded`, `ConnectionsTimed`, `StreamResourcesAccounted`).  Deadlock
is not checked where a call, a body or a connection simply ends.

Panics.  The host catches handler panics, which its release profile
(`panic = "abort"`) turns into an abort; the caught ones are those of other builds.

## Findings

Each has a run in which TLC finds the violation.

* `TransfersDrained` (`file_server.rs` 308-312): a transfer's lease releases the
  request before its gauge, in a thread nobody joins, so the assertion at
  `http_server.rs` 3046-3050 can fail in a debug build.
* `LeasedForLifetime` (`brotli_executor.rs` 557-573): between the store of the
  cancelled flag and the look at the result the lane can pass to another stream,
  whose completion the first job's drop then takes.  With one lane the slot,
  which a stream returns only after its job, prevents it (`executors`).
* `StopWakesReader` (`request_body.rs` 165-168): with one buffered chunk, the
  default (`platform/Server.roc` 48), the permit of an empty channel can belong to
  a send of the pump that is about to be abandoned, so the wakeup is lost and
  `write_file` never returns.  With two buffered chunks every
  read returns (`request_body`).
* `NoUseAfterFree` (`http.rs` 596-599): an outbound request releases its headers
  one by one and then their list, which frees them under an application that
  still holds the list; the generated ABI's header and `cmd.rs` 86-89 say why a
  container must be released as a whole.  `host_services` therefore considers
  this function only with arguments that have no second owner (`Exclusive`).
* `KeepAliveAfterFlush` (`server_transport.rs` 326): a partial write after the
  last frame counts as the flush, so the keep-alive deadline can run, and close
  the connection, while the rest of the response is buffered.

Met while modelling, and not stated as properties:

* `sqlite.rs` 1181-1192: `release_bindings` looks at the count and then
  decrements it; two owners that release at once can both see another owner, and
  the elements of the list are leaked.  `hosted_sqlite_start` is `Exclusive` too.
* `cmd.rs` 460-469: the readers are joined after the group is killed; a
  descendant that left the group and keeps the pipes open delays the call past
  what `platform/Cmd.roc` 159 calls "the total deadline".  `CommandLeavesNothing`
  says that nobody else can.  When `try_wait` fails, `wait_for_exit` returns
  without terminating the group.
* `http_server.rs` 2713-2714: a wait for capacity that returns zero drops the
  pooled frame and goes on with the next one (`GrantedZero`, recorded in `lost`);
  the frame returns to its pool, but its bytes are not sent.
* `http_server.rs` 2302: the `body_idle_timeout` of requests shadows the one of
  responses in the Roc branch of `handle_req`.
* `request_parts.rs` 87-89: `resource_path_is_backed` also holds for an absolute
  URI with an empty path and a query, whose path `/` is the static string of the
  comment at `http_server.rs` 965-966.  It is then counted against the backing
  though it does not lie in it; the counts stay consistent.
* `platform/Sqlite.roc` 434: a transaction is rolled back when the last reference
  to it is dropped, and a statement prepared in it is such a reference.

## Proofs

Each module below proves an invariant `IInv` inductive (`InitHolds`, one lemma
per action or group of alike actions, `StepHolds`, `Invariance`) and derives the
properties from it.  Every `IInv` was first checked with TLC on the instance of
the component's run; that of the Brotli executor, which the runs have with at most
two streams, also on two lanes with three streams (21.8 million states).

| Module | For any | Theorems |
|---|---|---|
| `FixedExecutorProofs` | finite non-empty set of workers, waiting places, jobs | `CapacityIsExact`, `QueueIsSound`, `ExecutorImplementsAdmission` |
| `RocDispatchProofs` | finite set of requests, workers, waiting places | `RefusedRequestsNeverRun`, `CompletionsNeverLost`, `GaugesAndResources` |
| `SseSourceProofs` | streams, transitions, workers, waiting places | `SlotNeverShared`, `WakeupsNeverLost`, `TimedOutTransitionsNeverRun` |
| `ServerLifecycleProofs` | finite set of connections, slots, requests, jobs | `HookNeverShares`, `IdleNeverMissed`, `FirstCauseKept`, `SlotsNeverLost` |
| `RequestBodyProofs` | limits, chunk and frame sizes, channel capacity, declared lengths, reads | `BodyNeverLosesBytes`, `PublishesExactly`, `DrainNeverCancelled` |
| `BrotliExecutorProofs` | streams, lanes, finite set of workers, operations | `LanesNeverLost`; for one lane `OneLaneLeasedForLifetime` |
| `BoundedGateProofs` | finite set of callers, limits | `GateIsExact`, `NoSleeperStranded` |

These are all the invariants of the runs `executors`, `roc_dispatch`,
`sse_source`, `server_lifecycle` and `request_body`, the refinement of
`AdmissionControl`, and the parts of `host_services` and `request_path` about the
gate and the Brotli executor.  Why none of them is inductive alone:

`FixedExecutorProofs`.  `IInv` adds `TicketsPlaced` (every ticket in the ring or
in a worker's hands was handed out before, and no two workers execute the same
one, which is what makes a claim or a retirement change the count by exactly one)
and `OwnerProgress` (what a worker's state and the owner's say of each other, so
that joined implies every worker has exited, and a worker exits only when it sees
a stopping executor with an empty ring).  The refinement maps `running` to the
jobs held by unretired workers.  `AdmissionQueueLemmas` states what admitting,
claiming and withdrawing do to a ring, once for the executor and for those who
use its abstraction.

`RocDispatchProofs`.  That a refused request never runs needs to know where its
job is.  `JobsPlaced` ties tickets, ring and `running` to the jobs; `CallersKnow`
says what a caller, its oneshot and its job know of each other (a job that was
withdrawn is gone, a skipped one had lost its receiver).  The bound on the active
gauge is the hard part: a job admitted as Active is counted before a worker has
it, so the bound rests on `WorkersLeft`, the executor's promise that there is a
worker left for every Active entry and for all ahead of it.

`SseSourceProofs`.  `JobsFit` and `TasksFit` say in which state of the slot a job
and a task can be, and `NoJobLeft` that a task about to submit, or one that has
withdrawn its job, has none: so the slot's assertions hold and a timed-out
transition cannot run later.  `WakersKept` is the argument about wakeups: a task
that looks or sleeps while its transition is under way has its waker registered,
or is answering the wake that took it.

`ServerLifecycleProofs`.  `Drained` records what each phase of the shutdown has
established and that nothing can undo it: once the tracker is closed and the count
was zero it stays zero, once the connection tasks are joined nobody sends a
request, once the runtime is dropped no task is left.  The hook's privacy is the
last of these.  `CauseKept` follows the cause from the first request to the
return, `SlotsCounted` the permits.

`RequestBodyProofs`.  The bytes on their way are the difference between what the
pump received and what the reader has: `Flow` says that the chunks in the channel
and in the pump's hands are a `Chain`, without gap or overlap, from the reader's
position to the pump's, with the last message last, as long as the body is not
stopped.  A body can be stopped between the reader's look at `terminal` and its
delivery, so `Taken` keeps what it took in order from then on.  `Transferred`
carries the count from each delivery to the staging file, and `Cancelled` ties the
pump's control to the first cause.  `ChainTail`, `ChainAppend`, `FrameChunks` and
the other lemmas say what the channel's operations do to a chain.

`BrotliExecutorProofs`.  `OneOwner` and `NoneTwice` say that the pool, the
channel, the streams, the workers and the cells have each lane exactly once
between them, so that whoever takes a lane is the only one to have had it; `Takers`
that work which is not cancelled has a stream in flight on its lane.
`EncodersCounted` gives the assertions and the active count, `StopsLast` and the
pigeonhole principle that the channel is not full for an operation.  These hold in
spite of the finding `LeasedForLifetime`: the stream that takes another one's
completion becomes the owner of the lane.  On one lane the count of slots
(`OneSlot`) keeps all other streams away, and `OneLaneLeasedForLifetime` follows.

`BoundedGateProofs`.  The gate has one condition variable for both kinds of
waiter and wakes one of them, so `NoSleeperStranded` rests on a fact about the
*order* of calls: `CallsOrdered` says that the server waits for idle only when no
call is left.  `DropPermitNotifies` is the core, that giving a permit back
notifies a sleeper if one was not notified.  A resolver is named by the caller
that started it, so `Callers` is the set of calls that may be in progress,
resolvers left behind included.

The only assumptions are on the constants, as the table says: `Worker`,
`Request`, `Conn` and `Callers` are finite where the code counts them; sizes,
limits and bounds are natural numbers, at least one where the configuration asks
for it (workers, lanes, `max_active`, chunk size and buffered chunks); a declared
length within the hard limit, since a longer one is refused before the body is
made.

Only model-checked:

* Liveness (`EveryJobSettles`, `ShutdownReturns`, `EveryCallerAnswered`,
  `TransitionSettles`, `ShutdownTerminates`, `ReaderReturns`,
  `OperationCompletes`, `DropReturns`), which needs fairness and `ENABLED` and is
  beyond the prover.
* `RocMemory`, `HostedCalls` and what uses them, and the reference definitions of
  `RequestTargets` and `ResponseFraming`: recursive definitions and exhaustive
  comparison over inputs.
* The other parts of `host_services` (allocator, resources, SQLite, the
  asynchronous gate, commands, outbound requests) and of `request_path`
  (connection, stages, streamed body), for which no proof has been written.

## What the map covers

18,565 lines, of which 9,394, just over half, are the generated
`roc_platform_abi.rs`: of that file only the ownership of each type is modelled,
in one definition per type.  The other 9,171 are 44% of the 20,899 hand-written
lines of the host outside its unit tests.  What is left there is in the list
below.

## Not modelled

* Configuration: `from_roc` and the validation of limits, routes, roots and pool
  sizes are guards on constants; the models take valid configurations.
* Text: parsing of the characters of authorities and headers, SQL, the metrics
  page, log lines, error messages and their conversion to ABI values.
* The encoders, Hyper, h2, Tokio, SQLite, TLS and the operating system, which
  are modelled only as the code uses them and marked external.
* Layout: padding, alignment and pointer arithmetic of the ABI and the allocator,
  and the counters of the `benchmark-instrumentation` feature.
* Opening files below a root and copying their chunks, directories, standard
  streams, time and paths, beyond what they own and release.
* Windows job objects, socket options, HTTP/2 settings.
* Benchmarks (`allocation_benchmark.rs`, `benchmark_simulation.rs`).
