--------------------------- MODULE FixedExecutor ---------------------------
(***************************************************************************)
(* The fixed-worker execution domain of src/roc_executor.rs: a ring of     *)
(* admitted jobs and an outstanding count behind one mutex, a condition    *)
(* variable the workers sleep on, and worker threads that claim the head   *)
(* of the ring and run it outside the lock.                                *)
(*                                                                         *)
(* A job is its ticket.  One action is one critical section of the mutex   *)
(* or one notification; what the job itself does is left to the modules    *)
(* that extend this one.                                                   *)
(***************************************************************************)
EXTENDS Integers, FiniteSets, Sequences

CONSTANTS
  Worker,     \* the worker threads
  Waiting,    \* `waiting`: admitted jobs beyond one per worker
  MaxTickets  \* bound: how many jobs are ever submitted

ASSUME WorkerAssumption == IsFiniteSet(Worker) /\ Worker # {}
ASSUME BoundsAssumption == Waiting \in Nat /\ MaxTickets \in Nat

NumWorkers == Cardinality(Worker)
Capacity == NumWorkers + Waiting
Ticket == 0 .. MaxTickets - 1
Class == {"Active", "Queued"}
NoTicket == -1
RemoveAt(s, i) == SubSeq(s, 1, i - 1) \o SubSeq(s, i + 1, Len(s))

VARIABLES
  queue,        \* State.queue: entries [ticket, class], head first
  outstanding,  \* State.outstanding
  next_ticket,  \* State.next_ticket
  stopping,     \* State.stopping
  wakeOne,      \* notify_one calls whose thread has unlocked but not notified yet
  wakeAll,      \* notify_all calls in the same situation
  pc,           \* where each worker thread is
  holds,        \* the job each worker thread has claimed
  owner         \* the thread that owns the FixedExecutor

execVars ==
  <<queue, outstanding, next_ticket, stopping, wakeOne, wakeAll, pc, holds,
    owner>>

\* Worker threads whose job still counts against the capacity.
Unretired == {w \in Worker : pc[w] = "executing"}

TypeOK ==
  /\ queue \in Seq([ticket : Ticket, class : Class])
  /\ outstanding \in Nat
  /\ next_ticket \in 0 .. MaxTickets
  /\ stopping \in BOOLEAN
  /\ wakeOne \in Nat
  /\ wakeAll \in Nat
  /\ pc \in [Worker -> {"unborn", "scanning", "asleep", "executing",
                        "publishing", "exited"}]
  /\ holds \in [Worker -> Ticket \cup {NoTicket}]
  /\ owner \in {"spawning", "unwinding", "failed", "running", "joining", "joined"}

Init ==
  /\ queue = <<>>
  /\ outstanding = 0
  /\ next_ticket = 0
  /\ stopping = FALSE
  /\ wakeOne = 0
  /\ wakeAll = 0
  /\ pc = [w \in Worker |-> "unborn"]
  /\ holds = [w \in Worker |-> NoTicket]
  /\ owner = "spawning"

-----------------------------------------------------------------------------
(* The owner: new, shutdown and stop_admission.                            *)

\* Mutant of SetStopping: the sleepers are not notified.
SetStoppingQuietly == stopping' = TRUE /\ UNCHANGED wakeAll

\* `stop`: the flag under the lock, then one notify_all after it.
SetStopping ==
  /\ stopping' = TRUE
  /\ wakeAll' = wakeAll + 1

\* `new` starts one thread; it returns to its caller after the last one.
Spawn(w) ==
  /\ owner = "spawning"
  /\ pc[w] = "unborn"
  /\ pc' = [pc EXCEPT ![w] = "scanning"]
  /\ owner' = IF \A v \in Worker \ {w} : pc[v] # "unborn"
              THEN "running" ELSE "spawning"
  /\ UNCHANGED <<queue, outstanding, next_ticket, stopping, wakeOne, wakeAll,
                 holds>>

\* A thread cannot be started: stop the ones that run, then join them.
SpawnFails ==
  /\ owner = "spawning"
  /\ owner' = "unwinding"
  /\ SetStopping
  /\ UNCHANGED <<queue, outstanding, next_ticket, wakeOne, pc, holds>>

\* `shutdown` consumes the executor: stop, then join every worker.
Shutdown ==
  /\ owner = "running"
  /\ owner' = "joining"
  /\ SetStopping
  /\ UNCHANGED <<queue, outstanding, next_ticket, wakeOne, pc, holds>>

Join ==
  /\ owner \in {"unwinding", "joining"}
  /\ \A w \in Worker : pc[w] \in {"unborn", "exited"}
  /\ owner' = IF owner = "unwinding" THEN "failed" ELSE "joined"
  /\ UNCHANGED <<queue, outstanding, next_ticket, stopping, wakeOne, wakeAll,
                 pc, holds>>

\* `stop_admission` through a handle.  The server calls it once, before
\* `shutdown`.
StopAdmission ==
  /\ owner = "running"
  /\ ~stopping
  /\ SetStopping
  /\ UNCHANGED <<queue, outstanding, next_ticket, wakeOne, pc, holds, owner>>

-----------------------------------------------------------------------------
(* Handles: try_submit and cancel_queued.                                  *)

\* Handles exist once `new` has returned the executor.
HasHandles == owner \in {"running", "joining", "joined"}

\* Mutant of AdmissionClass: off by one, as if the new job were not counted.
AdmissionClassAtMost == IF outstanding <= NumWorkers THEN "Active" ELSE "Queued"

AdmissionClass == IF outstanding < NumWorkers THEN "Active" ELSE "Queued"

\* Mutants of Accept: the stopping check is forgotten, ...
AcceptWhileStopping ==
  /\ HasHandles
  /\ outstanding # Capacity
  /\ next_ticket < MaxTickets
  /\ queue' = Append(queue, [ticket |-> next_ticket, class |-> AdmissionClass])
  /\ next_ticket' = next_ticket + 1
  /\ outstanding' = outstanding + 1
  /\ wakeOne' = wakeOne + 1
  /\ UNCHANGED <<stopping, wakeAll, pc, holds, owner>>

\* ... the new job is put in front, ...
AcceptInFront ==
  /\ HasHandles
  /\ ~stopping
  /\ outstanding # Capacity
  /\ next_ticket < MaxTickets
  /\ queue' = <<[ticket |-> next_ticket, class |-> AdmissionClass]>> \o queue
  /\ next_ticket' = next_ticket + 1
  /\ outstanding' = outstanding + 1
  /\ wakeOne' = wakeOne + 1
  /\ UNCHANGED <<stopping, wakeAll, pc, holds, owner>>

\* ... no worker is notified.
AcceptQuietly ==
  /\ HasHandles
  /\ ~stopping
  /\ outstanding # Capacity
  /\ next_ticket < MaxTickets
  /\ queue' = Append(queue, [ticket |-> next_ticket, class |-> AdmissionClass])
  /\ next_ticket' = next_ticket + 1
  /\ outstanding' = outstanding + 1
  /\ UNCHANGED <<stopping, wakeOne, wakeAll, pc, holds, owner>>

\* The accepting path of `try_submit`; the notify_one follows the unlock.  The
\* refusals, Stopping and Full, change nothing.
Accept ==
  /\ HasHandles
  /\ ~stopping
  /\ outstanding # Capacity
  /\ next_ticket < MaxTickets
  /\ queue' = Append(queue, [ticket |-> next_ticket, class |-> AdmissionClass])
  /\ next_ticket' = next_ticket + 1
  /\ outstanding' = outstanding + 1
  /\ wakeOne' = wakeOne + 1
  /\ UNCHANGED <<stopping, wakeAll, pc, holds, owner>>

\* Mutant of CancelQueued: the capacity is not given back.
CancelKeepsCapacity(t) ==
  \E i \in DOMAIN queue :
    /\ queue[i].ticket = t
    /\ queue[i].class = "Queued"
    /\ queue' = RemoveAt(queue, i)
    /\ UNCHANGED <<outstanding, next_ticket, stopping, wakeOne, wakeAll, pc, holds,
                   owner>>

\* `cancel_queued` finds the ticket.  Callers only pass the ticket of a job
\* that was admitted as Queued.
CancelQueued(t) ==
  \E i \in DOMAIN queue :
    /\ queue[i].ticket = t
    /\ queue[i].class = "Queued"
    /\ queue' = RemoveAt(queue, i)
    /\ outstanding' = outstanding - 1
    /\ UNCHANGED <<next_ticket, stopping, wakeOne, wakeAll, pc, holds, owner>>

-----------------------------------------------------------------------------
(* Worker threads: worker_loop, retire_job and the condition variable.     *)

Claim(w) ==
  /\ pc[w] = "scanning"
  /\ queue # <<>>
  /\ holds' = [holds EXCEPT ![w] = Head(queue).ticket]
  /\ queue' = Tail(queue)
  /\ pc' = [pc EXCEPT ![w] = "executing"]
  /\ UNCHANGED <<outstanding, next_ticket, stopping, wakeOne, wakeAll, owner>>

\* Mutant of Exit: the stopping flag is looked at before the ring.
ExitBeforeDrained(w) ==
  /\ pc[w] = "scanning"
  /\ stopping
  /\ pc' = [pc EXCEPT ![w] = "exited"]
  /\ UNCHANGED <<queue, outstanding, next_ticket, stopping, wakeOne, wakeAll,
                 holds, owner>>

Exit(w) ==
  /\ pc[w] = "scanning"
  /\ queue = <<>>
  /\ stopping
  /\ pc' = [pc EXCEPT ![w] = "exited"]
  /\ UNCHANGED <<queue, outstanding, next_ticket, stopping, wakeOne, wakeAll,
                 holds, owner>>

Sleep(w) ==
  /\ pc[w] = "scanning"
  /\ queue = <<>>
  /\ ~stopping
  /\ pc' = [pc EXCEPT ![w] = "asleep"]
  /\ UNCHANGED <<queue, outstanding, next_ticket, stopping, wakeOne, wakeAll,
                 holds, owner>>

\* A condition variable may return without a notification.
SpuriousWake(w) ==
  /\ pc[w] = "asleep"
  /\ pc' = [pc EXCEPT ![w] = "scanning"]
  /\ UNCHANGED <<queue, outstanding, next_ticket, stopping, wakeOne, wakeAll,
                 holds, owner>>

\* Mutant of Retire: the guard's drop retires the job once more.
RetireTwice(w) ==
  /\ pc[w] = "executing"
  /\ pc' = [pc EXCEPT ![w] = "publishing"]
  /\ outstanding' = outstanding - 2
  /\ wakeAll' = IF stopping /\ outstanding' = 0 THEN wakeAll + 1 ELSE wakeAll
  /\ UNCHANGED <<queue, next_ticket, stopping, wakeOne, holds, owner>>

\* `retire_job`, before the job publishes its result or when the guard drops.
Retire(w) ==
  /\ pc[w] = "executing"
  /\ pc' = [pc EXCEPT ![w] = "publishing"]
  /\ outstanding' = outstanding - 1
  /\ wakeAll' = IF stopping /\ outstanding' = 0 THEN wakeAll + 1 ELSE wakeAll
  /\ UNCHANGED <<queue, next_ticket, stopping, wakeOne, holds, owner>>

\* `execute` returns to the loop.
Return(w) ==
  /\ pc[w] = "publishing"
  /\ pc' = [pc EXCEPT ![w] = "scanning"]
  /\ holds' = [holds EXCEPT ![w] = NoTicket]
  /\ UNCHANGED <<queue, outstanding, next_ticket, stopping, wakeOne, wakeAll,
                 owner>>

\* notify_one reaches one sleeper, any of them, or nobody if none sleeps.
NotifyOne ==
  /\ wakeOne > 0
  /\ wakeOne' = wakeOne - 1
  /\ \/ /\ \A w \in Worker : pc[w] # "asleep"
        /\ pc' = pc
     \/ \E w \in Worker :
          /\ pc[w] = "asleep"
          /\ pc' = [pc EXCEPT ![w] = "scanning"]
  /\ UNCHANGED <<queue, outstanding, next_ticket, stopping, wakeAll, holds,
                 owner>>

NotifyAll ==
  /\ wakeAll > 0
  /\ wakeAll' = wakeAll - 1
  /\ pc' = [w \in Worker |-> IF pc[w] = "asleep" THEN "scanning" ELSE pc[w]]
  /\ UNCHANGED <<queue, outstanding, next_ticket, stopping, wakeOne, holds,
                 owner>>

-----------------------------------------------------------------------------
WorkerLoop(w) == Claim(w) \/ Exit(w) \/ Sleep(w) \/ Retire(w) \/ Return(w)
Notify == NotifyOne \/ NotifyAll
OwnerStep ==
  (\E w \in Worker : Spawn(w)) \/ SpawnFails \/ Shutdown \/ Join \/ StopAdmission

\* Nothing is left to do once the executor is joined.
Terminated == owner \in {"failed", "joined"} /\ UNCHANGED execVars

Next ==
  \/ OwnerStep
  \/ Accept
  \/ \E t \in Ticket : CancelQueued(t)
  \/ \E w \in Worker : WorkerLoop(w) \/ SpuriousWake(w)
  \/ Notify
  \/ Terminated

Spec == Init /\ [][Next]_execVars

\* Threads are scheduled and the jobs they run return.  Callers and the owner
\* need not submit, cancel or stop anything.
Fairness ==
  /\ \A w \in Worker : WF_execVars(WorkerLoop(w))
  /\ WF_execVars(NotifyOne)
  /\ WF_execVars(NotifyAll)
  /\ WF_execVars(Join)

FairSpec == Spec /\ Fairness

-----------------------------------------------------------------------------
(* Properties.                                                             *)

\* `outstanding` is exactly the jobs in the ring and the jobs being executed,
\* and "at most `workers + waiting` jobs can be admitted at once": every path
\* that gives capacity back (retire, guard drop, cancel_queued) does so once.
CapacityExact ==
  /\ outstanding = Len(queue) + Cardinality(Unretired)
  /\ outstanding <= Capacity

\* A job admitted as Active never waits for another job's execution: with the
\* jobs ahead of it each worker still has at most one job to run.  This is why
\* try_submit may report it active, and start no queue timeout, although no
\* worker has claimed it.
ActiveHasWorker ==
  \A i \in DOMAIN queue :
    queue[i].class = "Active" => Cardinality(Unretired) + i <= NumWorkers

\* Jobs are claimed in the order they were admitted: cancelling one in the
\* middle of the ring never lets a later job overtake an earlier one.
ClaimedInOrder ==
  /\ \A i, j \in DOMAIN queue : i < j => queue[i].ticket < queue[j].ticket
  /\ \A w \in Worker, i \in DOMAIN queue :
       pc[w] = "executing" => holds[w] < queue[i].ticket

\* "Stop admission, drain every accepted job, and join every worker": when
\* shutdown returns, no admitted job is left in the ring or half executed.
ShutdownDrained ==
  owner = "joined" =>
    /\ outstanding = 0
    /\ queue = <<>>
    /\ \A w \in Worker : pc[w] = "exited"

\* The ring's discipline: a job admitted as Active has a worker, jobs are claimed
\* in the order of their admission, and shutdown leaves none behind.
QueueSound == TypeOK /\ ActiveHasWorker /\ ClaimedInOrder /\ ShutdownDrained

\* shutdown, and a failed start, eventually return.
ShutdownReturns ==
  (owner \in {"unwinding", "joining"}) ~> (owner \in {"failed", "joined"})

\* The executor implements AdmissionControl: jobs wait in the ring, run from
\* the claim to the retirement, and are never admitted after `stop`.
Admission == INSTANCE AdmissionControl WITH
  Workers <- NumWorkers,
  running <- {holds[w] : w \in Unretired},
  open <- ~stopping

ImplementsAdmission == Admission!Spec

\* Every admitted job is eventually run and retired, or cancelled: no wakeup
\* is lost between try_submit's unlock and its notify_one.
EveryJobSettles == Admission!EveryJobSettles

-----------------------------------------------------------------------------
(* The inductive invariant.                                                *)

\* No ticket is given out twice or held by two workers.
TicketsPlaced ==
  /\ \A i \in DOMAIN queue : queue[i].ticket < next_ticket
  /\ \A w \in Worker : pc[w] \in {"executing", "publishing"} =>
       holds[w] \in Ticket /\ holds[w] < next_ticket
  /\ \A v, w \in Worker :
       pc[v] = "executing" /\ pc[w] = "executing" /\ v # w => holds[v] # holds[w]

\* What the owner's progress and a worker's exit say about the rest.
OwnerProgress ==
  /\ owner \in {"unwinding", "failed", "joining", "joined"} => stopping
  /\ owner \in {"spawning", "unwinding", "failed"} => next_ticket = 0
  /\ owner \in {"running", "joining", "joined"} =>
       \A w \in Worker : pc[w] # "unborn"
  /\ owner = "joined" => \A w \in Worker : pc[w] = "exited"
  /\ \A w \in Worker : pc[w] = "exited" => stopping /\ queue = <<>>

IInv ==
  /\ TypeOK
  /\ CapacityExact
  /\ ActiveHasWorker
  /\ ClaimedInOrder
  /\ TicketsPlaced
  /\ OwnerProgress
=============================================================================
