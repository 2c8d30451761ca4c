--------------------------- MODULE BrotliExecutor ---------------------------
(***************************************************************************)
(* The lanes of src/brotli_executor.rs: a compressed stream leases a lane, *)
(* submits one operation at a time to a fixed pool of threads, and polls   *)
(* the lane's cell for the completion.  The lane's ownership moves from    *)
(* the stream to the channel, to a worker, to the cell's result and back;  *)
(* whoever drops it releases it to the pool of available lanes.            *)
(*                                                                         *)
(* One action is one critical section or one access of an atomic.          *)
(***************************************************************************)
EXTENDS Integers, FiniteSets, Sequences

CONSTANTS
  Stream,     \* the compressed streams of a run, each of which comes once
  Lanes,      \* lane_count, which is also the number of stream slots
  Worker,
  MaxOps      \* bound: operations of one stream

ASSUME LanesAssumption == Lanes \in Nat \ {0} /\ IsFiniteSet(Worker) /\ MaxOps \in Nat

VARIABLES
  free_slots, \* permits of ServerContext.stream_slots
  available,  \* the stack of free lanes
  active,     \* counters.active
  channel,    \* the bounded channel of operations and Stop messages
  encoder,    \* per lane: encoder.is_some()
  cancelled,  \* per lane: cell.cancelled
  result,     \* per lane: cell.result.is_some()
  waker,      \* per lane: the stream whose waker the cell holds
  pc, lane,   \* per stream: where its task is, and its lane
  woken,      \* per stream: it was woken and not polled since
  ops,        \* per stream: operations submitted
  at, work,   \* per worker: where its loop is, and its lane
  stops,      \* Stop messages sent by the owner's drop
  joined,     \* the owner's drop returned
  panicked    \* a (debug) assertion, an expect or QueueInvariant was reached

cellVars == <<encoder, cancelled, result, waker>>
streamVars == <<pc, lane, woken, ops>>
workerVars == <<at, work>>
ownerVars == <<stops, joined>>
vars == <<free_slots, available, active, channel, cellVars, streamVars, workerVars,
          ownerVars, panicked>>

None == "none"
NoLane == -1
Stop == -2
Lane == 0 .. Lanes - 1

TypeOK ==
  /\ free_slots \in 0 .. Lanes
  /\ available \in Seq(Lane)
  /\ active \in 0 .. Lanes
  /\ channel \in Seq(Lane \cup {Stop}) /\ Len(channel) <= Lanes
  /\ {encoder, cancelled, result} \subseteq [Lane -> BOOLEAN]
  /\ waker \in [Lane -> Stream \cup {None}]
  /\ pc \in [Stream -> {"new", "admit", "admitted", "lane", "poll", "register", "recheck",
                        "asleep", "drop_waker", "drop_result", "retire", "push",
                        "source", "over"}]
  /\ lane \in [Stream -> Lane \cup {NoLane}]
  /\ woken \in [Stream -> BOOLEAN]
  /\ ops \in [Stream -> 0 .. MaxOps]
  /\ at \in [Worker -> {"receive", "received", "publish", "wake", "retire",
                        "push", "stopped"}]
  /\ work \in [Worker -> Lane \cup {NoLane}]
  /\ stops \in 0 .. Cardinality(Worker)
  /\ {joined, panicked} \subseteq BOOLEAN

Init ==
  /\ free_slots = Lanes
  /\ available = [i \in 1 .. Lanes |-> Lanes - i]
  /\ active = 0
  /\ channel = <<>>
  /\ encoder = [l \in Lane |-> FALSE]
  /\ cancelled = [l \in Lane |-> FALSE]
  /\ result = [l \in Lane |-> FALSE]
  /\ waker = [l \in Lane |-> None]
  /\ pc = [s \in Stream |-> "new"]
  /\ lane = [s \in Stream |-> NoLane]
  /\ woken = [s \in Stream |-> FALSE]
  /\ ops = [s \in Stream |-> 0]
  /\ at = [w \in Worker |-> "receive"]
  /\ work = [w \in Worker |-> NoLane]
  /\ stops = 0
  /\ joined = FALSE
  /\ panicked = FALSE

-----------------------------------------------------------------------------
(* release_lane, by whoever owns the lane: the encoder is destroyed and    *)
(* the lease retired, and only then is the lane available again.           *)

\* Mutant: the released lane keeps its encoder.
RetireKeepsEncoder(l) ==
  /\ active' = active - 1
  /\ panicked' = (panicked \/ active = 0)
  /\ UNCHANGED <<available, encoder>>

Retire(l) ==
  /\ encoder' = [encoder EXCEPT ![l] = FALSE]
  /\ active' = active - 1
  /\ panicked' = (panicked \/ active = 0)
  /\ UNCHANGED available

Push(l) ==
  /\ available' = Append(available, l)
  /\ UNCHANGED <<encoder, active, panicked>>

-----------------------------------------------------------------------------
(* The stream.                                                             *)

Goto(s, p) == pc' = [pc EXCEPT ![s] = p]

\* A stream needs a stream slot, or its response is refused as overloaded.
TakeSlot(s) ==
  /\ pc[s] = "new"
  /\ IF free_slots = 0
     THEN Goto(s, "over") /\ UNCHANGED free_slots
     ELSE Goto(s, "admit") /\ free_slots' = free_slots - 1
  /\ UNCHANGED <<available, active, channel, cellVars, lane, woken, ops,
                 workerVars, ownerVars, panicked>>

\* try_admit pops a lane, or the response is refused as overloaded.
TryAdmit(s) ==
  /\ pc[s] = "admit"
  /\ IF available = <<>>
     THEN Goto(s, "source") /\ UNCHANGED <<available, lane>>
     ELSE /\ available' = SubSeq(available, 1, Len(available) - 1)
          /\ lane' = [lane EXCEPT ![s] = available[Len(available)]]
          /\ Goto(s, "admitted")
  /\ UNCHANGED <<free_slots, active, channel, cellVars, woken, ops, workerVars,
                 ownerVars, panicked>>

\* The rest of try_admit counts the lease and resets the cell, asserting that
\* the lane kept neither an encoder nor a completion.
Prepare(s) ==
  LET l == lane[s] IN
  /\ pc[s] = "admitted"
  /\ active' = active + 1
  /\ encoder' = [encoder EXCEPT ![l] = TRUE]
  /\ cancelled' = [cancelled EXCEPT ![l] = FALSE]
  /\ waker' = [waker EXCEPT ![l] = None]
  /\ panicked' = (panicked \/ encoder[l] \/ result[l])
  /\ Goto(s, "lane")
  /\ UNCHANGED <<free_slots, available, channel, result, lane, woken, ops, workerVars, ownerVars>>

\* submit: the lane moves into the channel, which try_send must not find full.
Submit(s) ==
  /\ pc[s] = "lane"
  /\ ops[s] < MaxOps
  /\ ops' = [ops EXCEPT ![s] = @ + 1]
  /\ cancelled' = [cancelled EXCEPT ![lane[s]] = FALSE]
  /\ IF Len(channel) < Lanes
     THEN channel' = Append(channel, lane[s]) /\ Goto(s, "poll") /\ UNCHANGED panicked
     ELSE panicked' = TRUE /\ Goto(s, "retire") /\ UNCHANGED channel
  /\ UNCHANGED <<free_slots, available, active, encoder, result, waker, lane, woken,
                 workerVars, ownerVars>>

\* BrotliJob::poll takes the completion, and the lane with it.
PollTake(s) ==
  /\ pc[s] = "poll"
  /\ IF result[lane[s]]
     THEN result' = [result EXCEPT ![lane[s]] = FALSE] /\ Goto(s, "lane")
     ELSE Goto(s, "register") /\ UNCHANGED result
  /\ UNCHANGED <<free_slots, available, active, channel, encoder, cancelled, waker, lane,
                 woken, ops, workerVars, ownerVars, panicked>>

Register(s) ==
  /\ pc[s] = "register"
  /\ waker' = [waker EXCEPT ![lane[s]] = s]
  /\ Goto(s, "recheck")
  /\ UNCHANGED <<free_slots, available, active, channel, encoder, cancelled, result, lane,
                 woken, ops, workerVars, ownerVars, panicked>>

\* Mutant: the publish-before-register race is left open.
RecheckSkipped(s) ==
  /\ pc[s] = "recheck"
  /\ Goto(s, "asleep")
  /\ UNCHANGED <<free_slots, available, active, channel, cellVars, lane, woken,
                 ops, workerVars, ownerVars, panicked>>

\* "Close the publish-before-register race."
Recheck(s) ==
  /\ pc[s] = "recheck"
  /\ woken' = [woken EXCEPT ![s] = @ \/ result[lane[s]]]
  /\ Goto(s, "asleep")
  /\ UNCHANGED <<free_slots, available, active, channel, cellVars, lane, ops, workerVars,
                 ownerVars, panicked>>

\* The body is polled again, because it was woken or for another reason.
PollAgain(s) ==
  /\ pc[s] = "asleep"
  /\ woken' = [woken EXCEPT ![s] = FALSE]
  /\ Goto(s, "poll")
  /\ UNCHANGED <<free_slots, available, active, channel, cellVars, lane, ops, workerVars,
                 ownerVars, panicked>>

\* The body finished, failed or was dropped between two operations.
DropLane(s) ==
  /\ pc[s] = "lane"
  /\ Goto(s, "retire")
  /\ UNCHANGED <<free_slots, available, active, channel, cellVars, lane, woken, ops,
                 workerVars, ownerVars, panicked>>

\* BrotliJob::drop, while an operation is in flight: three accesses to the cell.
DropJob(s) ==
  /\ pc[s] = "asleep"
  /\ cancelled' = [cancelled EXCEPT ![lane[s]] = TRUE]
  /\ Goto(s, "drop_waker")
  /\ UNCHANGED <<free_slots, available, active, channel, encoder, result, waker, lane,
                 woken, ops, workerVars, ownerVars, panicked>>

DropWaker(s) ==
  /\ pc[s] = "drop_waker"
  /\ waker' = [waker EXCEPT ![lane[s]] = None]
  /\ Goto(s, "drop_result")
  /\ UNCHANGED <<free_slots, available, active, channel, encoder, cancelled, result, lane,
                 woken, ops, workerVars, ownerVars, panicked>>

DropResult(s) ==
  /\ pc[s] = "drop_result"
  /\ result' = [result EXCEPT ![lane[s]] = FALSE]
  /\ Goto(s, IF result[lane[s]] THEN "retire" ELSE "source")
  /\ UNCHANGED <<free_slots, available, active, channel, encoder, cancelled, waker, lane,
                 woken, ops, workerVars, ownerVars, panicked>>

\* Mutant: the lane is available before its lease is retired.
AvailableBeforeRetired(s) ==
  /\ \/ pc[s] = "retire" /\ Push(lane[s]) /\ Goto(s, "push")
     \/ pc[s] = "push" /\ Retire(lane[s]) /\ Goto(s, "source")
  /\ UNCHANGED <<free_slots, channel, cancelled, result, waker, lane, woken,
                 ops, workerVars, ownerVars>>

StreamReleases(s) ==
  /\ \/ pc[s] = "retire" /\ Retire(lane[s]) /\ Goto(s, "push")
     \/ pc[s] = "push" /\ Push(lane[s]) /\ Goto(s, "source")
  /\ UNCHANGED <<free_slots, channel, cancelled, result, waker, lane, woken, ops,
                 workerVars, ownerVars>>

\* The body drops its source, and the stream slot with it, after its lane.
DropSource(s) ==
  /\ pc[s] = "source"
  /\ Goto(s, "over")
  /\ free_slots' = free_slots + 1
  /\ UNCHANGED <<available, active, channel, cellVars, lane, woken, ops,
                 workerVars, ownerVars, panicked>>

-----------------------------------------------------------------------------
(* worker_loop.                                                            *)

WGoto(w, p) == at' = [at EXCEPT ![w] = p]

Receive(w) ==
  /\ at[w] = "receive"
  /\ channel # <<>>
  /\ channel' = Tail(channel)
  /\ IF Head(channel) = Stop
     THEN WGoto(w, "stopped") /\ UNCHANGED work
     ELSE WGoto(w, "received") /\ work' = [work EXCEPT ![w] = Head(channel)]
  /\ UNCHANGED <<free_slots, available, active, cellVars, streamVars, ownerVars, panicked>>

\* Cancelled work is skipped; other work is run with the lane's encoder.
Run(w) ==
  /\ at[w] = "received"
  /\ IF cancelled[work[w]]
     THEN WGoto(w, "retire") /\ UNCHANGED panicked
     ELSE WGoto(w, "publish") /\ panicked' = (panicked \/ ~encoder[work[w]])
  /\ UNCHANGED <<free_slots, available, active, channel, cellVars, streamVars, work, ownerVars>>

\* Mutant: only the check before the operation looks at the cancellation.
PublishUnchecked(w) ==
  /\ at[w] = "publish"
  /\ WGoto(w, "wake")
  /\ result' = [result EXCEPT ![work[w]] = TRUE]
  /\ UNCHANGED <<free_slots, available, active, channel, encoder, cancelled,
                 waker, streamVars, work, ownerVars, panicked>>

\* publish: under the result lock, a cancelled completion is dropped and any
\* other one stored.
Publish(w) ==
  /\ at[w] = "publish"
  /\ IF cancelled[work[w]]
     THEN WGoto(w, "retire") /\ UNCHANGED result
     ELSE WGoto(w, "wake") /\ result' = [result EXCEPT ![work[w]] = TRUE]
  /\ UNCHANGED <<free_slots, available, active, channel, encoder, cancelled, waker,
                 streamVars, work, ownerVars, panicked>>

\* Mutant: the worker releases the lane that its completion carries.
WakeJobReleases(w) ==
  /\ at[w] = "wake"
  /\ waker' = [waker EXCEPT ![work[w]] = None]
  /\ woken' = [s \in Stream |-> woken[s] \/ waker[work[w]] = s]
  /\ WGoto(w, "receive")
  /\ work' = [work EXCEPT ![w] = NoLane]
  /\ available' = Append(available, work[w])
  /\ UNCHANGED <<free_slots, active, channel, encoder, cancelled, result, pc,
                 lane, ops, ownerVars, panicked>>

WakeJob(w) ==
  /\ at[w] = "wake"
  /\ waker' = [waker EXCEPT ![work[w]] = None]
  /\ woken' = [s \in Stream |-> woken[s] \/ waker[work[w]] = s]
  /\ WGoto(w, "receive")
  /\ work' = [work EXCEPT ![w] = NoLane]
  /\ UNCHANGED <<free_slots, available, active, channel, encoder, cancelled, result, pc,
                 lane, ops, ownerVars, panicked>>

\* Mutant: skipped work is retired but its lane is not made available.
WorkerForgetsLane(w) ==
  /\ at[w] = "retire"
  /\ Retire(work[w])
  /\ WGoto(w, "receive")
  /\ work' = [work EXCEPT ![w] = NoLane]
  /\ UNCHANGED <<free_slots, channel, cancelled, result, waker, streamVars, ownerVars>>

WorkerReleases(w) ==
  /\ \/ at[w] = "retire" /\ Retire(work[w]) /\ WGoto(w, "push") /\ UNCHANGED work
     \/ /\ at[w] = "push" /\ Push(work[w]) /\ WGoto(w, "receive")
        /\ work' = [work EXCEPT ![w] = NoLane]
  /\ UNCHANGED <<free_slots, channel, cancelled, result, waker, streamVars, ownerVars>>

-----------------------------------------------------------------------------
(* ExecutorOwner::drop.  Every stream keeps the owner alive.               *)

SendStop ==
  /\ \A s \in Stream : pc[s] = "over"
  /\ stops < Cardinality(Worker)
  /\ Len(channel) < Lanes
  /\ channel' = Append(channel, Stop)
  /\ stops' = stops + 1
  /\ UNCHANGED <<free_slots, available, active, cellVars, streamVars, workerVars, joined, panicked>>

Join ==
  /\ stops = Cardinality(Worker)
  /\ \A w \in Worker : at[w] = "stopped"
  /\ ~joined
  /\ joined' = TRUE
  /\ UNCHANGED <<free_slots, available, active, channel, cellVars, streamVars, workerVars,
                 stops, panicked>>

-----------------------------------------------------------------------------
Task(s) ==
  \/ TakeSlot(s) \/ TryAdmit(s) \/ Prepare(s)
  \/ PollTake(s) \/ Register(s) \/ Recheck(s)
  \/ DropWaker(s) \/ DropResult(s) \/ StreamReleases(s) \/ DropSource(s)

WorkerLoop(w) == Receive(w) \/ Run(w) \/ Publish(w) \/ WakeJob(w) \/ WorkerReleases(w)

Next ==
  \/ \E s \in Stream : \/ Task(s) \/ Submit(s) \/ PollAgain(s) \/ DropLane(s)
                       \/ DropJob(s)
  \/ \E w \in Worker : WorkerLoop(w)
  \/ SendStop
  \/ Join
  \/ joined /\ UNCHANGED vars

Spec == Init /\ [][Next]_vars

\* Threads run and woken tasks are polled.  Nothing makes a stream that holds a
\* lane use it, or a client leave.
Fairness ==
  /\ \A s \in Stream :
       /\ WF_vars(Task(s))
       /\ WF_vars(woken[s] /\ PollAgain(s))
  /\ \A w \in Worker : WF_vars(WorkerLoop(w))
  /\ WF_vars(SendStop) /\ WF_vars(Join)

FairSpec == Spec /\ Fairness

-----------------------------------------------------------------------------
(* Properties.                                                             *)

InFlight == {"poll", "register", "recheck", "asleep"}

Leased == {l \in Lane : \A i \in DOMAIN available : available[i] # l}

StreamsOwning(l) ==
  {s \in Stream : lane[s] = l /\ pc[s] \in {"admitted", "lane", "retire", "push"}}

WorkersOwning(l) ==
  {w \in Worker : work[w] = l /\ at[w] \in {"received", "publish", "retire", "push"}}

\* Every lane has one owner: the pool, a stream, the channel, a worker or its
\* own completion.  So no lane is lost or released twice, whichever of poll,
\* drop and publish wins the cell.
LaneOwnedOnce ==
  \A l \in Lane :
    Cardinality({i \in DOMAIN available : available[i] = l})
      + Cardinality({i \in DOMAIN channel : channel[i] = l})
      + Cardinality(StreamsOwning(l)) + Cardinality(WorkersOwning(l))
      + (IF result[l] THEN 1 ELSE 0) = 1

\* "Publish availability only after retiring the previous lease": the active
\* counter never counts a lane that is in the pool, so its high-water mark
\* cannot exceed the number of lanes.
NoFalseHighWater == active <= Cardinality(Leased)

\* A completion in a cell has a job that will poll or drop it: it is never
\* stranded, with its lane, by a cancellation that races the publication.
CompletionHasTaker ==
  \A l \in Lane :
    result[l] => \E s \in Stream :
                   lane[s] = l /\ pc[s] \in InFlight \cup {"drop_waker", "drop_result"}

\* No assertion fails: a reused lane kept no encoder and no completion, running
\* work finds its encoder, the active count does not underflow, and the
\* channel, as long as there are lanes, is never full for an operation.
NoInvalidState == ~panicked

\* Together: lanes are neither lost nor released twice, are counted as active
\* only while leased, leave no completion behind and never trip an assertion.
LanesAccounted ==
  TypeOK /\ LaneOwnedOnce /\ NoFalseHighWater /\ CompletionHasTaker /\ NoInvalidState

\* Once every stream is over, dropping the executor returns, with every lane
\* back in the pool and none active.
DropReturns ==
  (\A s \in Stream : pc[s] = "over")
    ~> (joined /\ active = 0 /\ Leased = {})

\* "A compressed stream leases one lane for its lifetime": while its operation
\* is in flight, its lane is not available and no other stream uses it.
LeasedForLifetime ==
  \A s \in Stream :
    pc[s] \in InFlight =>
      /\ lane[s] \in Leased
      /\ \A t \in Stream \ {s} :
           lane[t] = lane[s] => pc[t] \in {"drop_waker", "drop_result", "source", "over"}

\* An operation in flight completes, or its stream goes away: no wakeup is lost
\* between poll's registration and publish.
OperationCompletes ==
  \A s \in Stream : pc[s] \in InFlight ~> pc[s] \notin InFlight
=============================================================================
