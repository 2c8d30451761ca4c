----------------------------- MODULE SseSource -----------------------------
(***************************************************************************)
(* The transitions of server-sent-event streams: `SseCompletionSlot`,      *)
(* `RocSseItemSource`, `ShutdownSseItemSource` and the Sse arm of          *)
(* `execute_roc_job` in src/http_server.rs, over AdmissionControl.         *)
(*                                                                         *)
(* A stream's task polls its source; a transition of the stream is a job   *)
(* on the executor.  The two share the completion slot (a mutex) and an    *)
(* AtomicWaker.  One action is one critical section or one wake.           *)
(***************************************************************************)
EXTENDS Integers, FiniteSets, Sequences

CONSTANTS Stream, Workers, Waiting, MaxTickets

ASSUME SourceAssumption == MaxTickets \in Nat

VARIABLES
  queue, running, next_ticket, open,  \* the executor
  requested,      \* the server's shutdown was requested
  slot,           \* SseCompletionState of each stream
  waker,          \* the AtomicWaker holds the task's waker
  woken,          \* the task was woken and not polled since
  pc,             \* where each stream's task is
  source,         \* where the stream's Roc callable is
  parked,         \* wake_parked
  primed,         \* primed_item.is_some()
  committed,      \* precommit returned and the response body exists
  queued_ticket,
  error,          \* the error that ended the stream
  job,            \* the jobs, by ticket
  of,             \* the stream each job belongs to
  was_queued,     \* the jobs admitted as Queued
  panicked        \* an assertion, expect or panic of this code was reached

Exec == INSTANCE AdmissionControl

execVars == <<queue, running, next_ticket, open>>
slotVars == <<slot, waker, woken>>
sourceVars == <<pc, source, parked, primed, committed, queued_ticket, error>>
jobVars == <<job, of, was_queued>>
vars == <<execVars, requested, slotVars, sourceVars, jobVars, panicked>>

NoTicket == -1
NoStream == "none"
OnWorker == {"claimed", "running", "finished", "skipped", "retired"}
Steps == {"emit", "park", "again", "end", "error"}

TypeOK ==
  /\ queue \in Seq([ticket : Exec!Ticket, class : Exec!Class])
  /\ running \subseteq Exec!Ticket
  /\ next_ticket \in 0 .. MaxTickets
  /\ {open, requested, panicked} \subseteq BOOLEAN
  /\ slot \in [Stream -> {"idle", "pending", "queued", "running", "ready", "cancelled"}]
  /\ {waker, woken, parked, primed, committed} \subseteq [Stream -> BOOLEAN]
  /\ pc \in [Stream -> {"asleep", "poll", "look", "submit", "relook", "expired",
                        "withdrawn", "cancelling", "over"}]
  /\ source \in [Stream -> {"source", "after_item", "job", "dropped"}]
  /\ queued_ticket \in [Stream -> Exec!Ticket \cup {NoTicket}]
  /\ error \in [Stream -> {"none", "admission", "timed_out", "cancelled", "step"}]
  /\ job \in [Exec!Ticket -> {"none", "queued", "withdrawn", "claimed", "running",
                              "finished", "skipped", "retired", "over"}]
  /\ of \in [Exec!Ticket -> Stream \cup {NoStream}]
  /\ was_queued \subseteq Exec!Ticket

Init ==
  /\ Exec!Init
  /\ requested = FALSE
  /\ slot = [s \in Stream |-> "idle"]
  /\ waker = [s \in Stream |-> FALSE]
  /\ woken = [s \in Stream |-> TRUE]
  /\ pc = [s \in Stream |-> "asleep"]
  /\ source = [s \in Stream |-> "source"]
  /\ parked = [s \in Stream |-> FALSE]
  /\ primed = [s \in Stream |-> FALSE]
  /\ committed = [s \in Stream |-> FALSE]
  /\ queued_ticket = [s \in Stream |-> NoTicket]
  /\ error = [s \in Stream |-> "none"]
  /\ job = [t \in Exec!Ticket |-> "none"]
  /\ of = [t \in Exec!Ticket |-> NoStream]
  /\ was_queued = {}
  /\ panicked = FALSE

-----------------------------------------------------------------------------
(* The stream's task: polling.                                             *)

\* AtomicWaker::wake takes the waker it finds.
Wake(s) ==
  /\ waker' = [waker EXCEPT ![s] = FALSE]
  /\ woken' = [woken EXCEPT ![s] = @ \/ waker[s]]

Goto(s, p) == pc' = [pc EXCEPT ![s] = p]

\* The task is polled: because it was woken, or for another reason.  It takes
\* the primed item; waits for its item to drain or its wake to come; or polls
\* the transition.  Once the shutdown is requested a poll cancels (CancelNow).
Poll(s) ==
  /\ pc[s] = "asleep"
  /\ ~requested
  /\ woken' = [woken EXCEPT ![s] = FALSE]
  /\ IF primed[s]
     THEN primed' = [primed EXCEPT ![s] = FALSE] /\ UNCHANGED pc
     ELSE /\ UNCHANGED primed
          /\ IF source[s] = "after_item" \/ parked[s]
             THEN UNCHANGED pc ELSE Goto(s, "poll")
  /\ UNCHANGED <<execVars, requested, slot, waker, source, parked,
                 committed, queued_ticket, error, jobVars, panicked>>

\* The wake timer of a parked stream elapses.
WakeTimer(s) ==
  /\ pc[s] = "asleep"
  /\ parked[s]
  /\ parked' = [parked EXCEPT ![s] = FALSE]
  /\ woken' = [woken EXCEPT ![s] = TRUE]
  /\ UNCHANGED <<execVars, requested, slot, waker, pc, source, primed,
                 committed, queued_ticket, error, jobVars, panicked>>

\* The body has flushed the item: item_drained parks the next source, and the
\* body polls again.
ItemDrained(s) ==
  /\ pc[s] = "asleep"
  /\ source[s] = "after_item"
  /\ ~primed[s]
  /\ source' = [source EXCEPT ![s] = "source"]
  /\ \E wait \in BOOLEAN : parked' = [parked EXCEPT ![s] = wait]
  /\ woken' = [woken EXCEPT ![s] = TRUE]
  /\ UNCHANGED <<execVars, requested, slot, waker, pc, primed, committed,
                 queued_ticket, error, jobVars, panicked>>

\* Mutant: the waker is registered by the poll that begins a transition only.
RegisterFirstPoll(s) ==
  /\ pc[s] = "poll"
  /\ waker' = [waker EXCEPT ![s] = @ \/ source[s] # "job"]
  /\ Goto(s, "look")
  /\ UNCHANGED <<execVars, requested, slot, woken, source, parked, primed,
                 committed, queued_ticket, error, jobVars, panicked>>

\* SseCompletionSlot::poll registers the waker before it takes the lock.
Register(s) ==
  /\ pc[s] = "poll"
  /\ waker' = [waker EXCEPT ![s] = TRUE]
  /\ Goto(s, "look")
  /\ UNCHANGED <<execVars, requested, slot, woken, source, parked, primed,
                 committed, queued_ticket, error, jobVars, panicked>>

\* A transition error ends the stream.
Fail(s, e) ==
  /\ error' = [error EXCEPT ![s] = e]
  /\ source' = [source EXCEPT ![s] = "dropped"]
  /\ Goto(s, "over")

\* A ready transition: an item, a wait of some or of no time, the end, or an
\* error (of the application, a wait or an item over its limit, a panic).
Advance(s, step) ==
  /\ committed' = [committed EXCEPT ![s] = TRUE]
  /\ CASE step = "emit" ->
            /\ source' = [source EXCEPT ![s] = "after_item"]
            /\ primed' = [primed EXCEPT ![s] = ~committed[s]]
            /\ Goto(s, "asleep")
            /\ UNCHANGED <<parked, error>>
       [] step \in {"park", "again"} ->
            /\ source' = [source EXCEPT ![s] = "source"]
            /\ parked' = [parked EXCEPT ![s] = step = "park"]
            /\ Goto(s, IF step = "again" THEN "poll" ELSE "asleep")
            /\ UNCHANGED <<primed, error>>
       [] step = "end" ->
            /\ source' = [source EXCEPT ![s] = "dropped"]
            /\ Goto(s, "over")
            /\ UNCHANGED <<parked, primed, error>>
       [] OTHER -> Fail(s, "step") /\ UNCHANGED <<parked, primed>>

\* The bound: a transition begins only if a ticket is left for it.
TicketLeft ==
  next_ticket + Cardinality({s \in Stream : pc[s] = "submit"}) < MaxTickets

\* `begin`, after the source was taken: both assert what they find.
Begin(s) ==
  /\ TicketLeft
  /\ slot[s] = "idle"
  /\ panicked' = (panicked \/ pc[s] = "relook" \/ source[s] # "source")
  /\ slot' = [slot EXCEPT ![s] = "pending"]
  /\ source' = [source EXCEPT ![s] = "job"]
  /\ Goto(s, "submit")
  /\ UNCHANGED <<parked, primed, committed, queued_ticket, error>>

\* The critical section of poll, and poll_transition's match on what it saw:
\* a queued job, whose queue timeout may have elapsed; a job that a worker has
\* or will have; or the result.
Look(s) ==
  /\ pc[s] \in {"look", "relook"}
  /\ \/ Begin(s)
     \/ /\ slot[s] = "queued"
        /\ \E elapsed \in {FALSE, queued_ticket[s] # NoTicket} :
             Goto(s, IF elapsed THEN "expired" ELSE "asleep")
        /\ UNCHANGED <<slot, source, parked, primed, committed,
                       queued_ticket, error, panicked>>
     \/ /\ slot[s] \in {"pending", "running"}
        /\ Goto(s, "asleep")
        /\ queued_ticket' = [queued_ticket EXCEPT ![s] = NoTicket]
        /\ UNCHANGED <<slot, source, parked, primed, committed, error,
                       panicked>>
     \/ /\ slot[s] = "ready"
        /\ slot' = [slot EXCEPT ![s] = "idle"]
        /\ queued_ticket' = [queued_ticket EXCEPT ![s] = NoTicket]
        /\ \E step \in Steps : Advance(s, step)
        /\ UNCHANGED panicked
  /\ UNCHANGED <<execVars, requested, waker, woken, jobVars>>

\* Mutant: the slot is not marked queued before the job can be claimed.
SubmitUnmarked(s) ==
  /\ pc[s] = "submit"
  /\ Exec!Admit
  /\ job' = [job EXCEPT ![next_ticket] = "queued"]
  /\ of' = [of EXCEPT ![next_ticket] = s]
  /\ IF Exec!AdmissionClass = "Queued"
     THEN /\ queued_ticket' = [queued_ticket EXCEPT ![s] = next_ticket]
          /\ was_queued' = was_queued \cup {next_ticket}
     ELSE UNCHANGED <<queued_ticket, was_queued>>
  /\ waker' = [waker EXCEPT ![s] = TRUE]
  /\ Goto(s, "relook")
  /\ UNCHANGED <<slot, requested, woken, source, parked, primed, committed,
                 error, panicked>>

\* Mutant: the ticket kept is the one after the job's.
SubmitNextTicket(s) ==
  /\ pc[s] = "submit"
  /\ Exec!Admit
  /\ job' = [job EXCEPT ![next_ticket] = "queued"]
  /\ of' = [of EXCEPT ![next_ticket] = s]
  /\ IF Exec!AdmissionClass = "Queued"
     THEN /\ slot' = [slot EXCEPT ![s] = "queued"]
          /\ queued_ticket' = [queued_ticket EXCEPT ![s] = next_ticket + 1]
          /\ was_queued' = was_queued \cup {next_ticket}
     ELSE UNCHANGED <<slot, queued_ticket, was_queued>>
  /\ waker' = [waker EXCEPT ![s] = TRUE]
  /\ Goto(s, "relook")
  /\ UNCHANGED <<requested, woken, source, parked, primed, committed,
                 error, panicked>>

\* start_advance, admitted: the slot is marked queued inside try_submit.
Submit(s) ==
  /\ pc[s] = "submit"
  /\ Exec!Admit
  /\ job' = [job EXCEPT ![next_ticket] = "queued"]
  /\ of' = [of EXCEPT ![next_ticket] = s]
  /\ IF Exec!AdmissionClass = "Queued"
     THEN /\ slot' = [slot EXCEPT ![s] = "queued"]
          /\ queued_ticket' = [queued_ticket EXCEPT ![s] = next_ticket]
          /\ was_queued' = was_queued \cup {next_ticket}
     ELSE UNCHANGED <<slot, queued_ticket, was_queued>>
  /\ waker' = [waker EXCEPT ![s] = TRUE]
  /\ Goto(s, "relook")
  /\ UNCHANGED <<requested, woken, source, parked, primed, committed,
                 error, panicked>>

\* Mutant: a refused submission forgets abort_begin.
RefusedKeepsSlot(s) ==
  /\ pc[s] = "submit"
  /\ ~open \/ Exec!Load = Exec!Capacity
  /\ Fail(s, "admission")
  /\ UNCHANGED <<execVars, requested, slot, waker, woken, parked, primed,
                 committed, queued_ticket, jobVars, panicked>>

\* start_advance, refused: abort_begin, and the source is dropped.
Refused(s) ==
  /\ pc[s] = "submit"
  /\ ~open \/ Exec!Load = Exec!Capacity
  /\ slot' = [slot EXCEPT ![s] = "idle"]
  /\ panicked' = (panicked \/ slot[s] # "pending")
  /\ Fail(s, "admission")
  /\ UNCHANGED <<execVars, requested, waker, woken, parked, primed,
                 committed, queued_ticket, jobVars>>

\* Mutant: the timeout is reported even if the job was already claimed.
ExpireRegardless(s) ==
  /\ pc[s] = "expired"
  /\ queued_ticket' = [queued_ticket EXCEPT ![s] = NoTicket]
  /\ Goto(s, "withdrawn")
  /\ IF queued_ticket[s] \in Exec!QueuedTickets
     THEN /\ Exec!Withdraw(queued_ticket[s])
          /\ job' = [job EXCEPT ![queued_ticket[s]] = "withdrawn"]
     ELSE UNCHANGED <<execVars, job>>
  /\ UNCHANGED <<requested, slotVars, source, parked, primed, committed, error, of,
                 was_queued, panicked>>

\* The queue timeout: the ticket is taken and cancel_queued tried.
Expire(s) ==
  /\ pc[s] = "expired"
  /\ queued_ticket' = [queued_ticket EXCEPT ![s] = NoTicket]
  /\ \/ /\ Exec!Withdraw(queued_ticket[s])
        /\ job' = [job EXCEPT ![queued_ticket[s]] = "withdrawn"]
        /\ Goto(s, "withdrawn")
     \/ /\ queued_ticket[s] \notin Exec!QueuedTickets
        /\ Goto(s, "asleep")
        /\ UNCHANGED <<execVars, job>>
  /\ UNCHANGED <<requested, slotVars, source, parked, primed, committed, error, of,
                 was_queued, panicked>>

\* completion.cancel after a withdrawn job.
TimedOut(s) ==
  /\ pc[s] = "withdrawn"
  /\ slot' = [slot EXCEPT ![s] = "cancelled"]
  /\ Wake(s)
  /\ Fail(s, "timed_out")
  /\ UNCHANGED <<execVars, requested, parked, primed, committed,
                 queued_ticket, jobVars, panicked>>

-----------------------------------------------------------------------------
(* The stream's task: cancellation.                                        *)

\* cancel_now: the client left, the body failed, or the shutdown was polled.
\* First everything the source owns, and its queued job; then the slot.
CancelNow(s) ==
  /\ pc[s] = "asleep"
  /\ Goto(s, "cancelling")
  /\ error' = [error EXCEPT ![s] = "cancelled"]
  /\ source' = [source EXCEPT ![s] = IF @ = "job" THEN "job" ELSE "dropped"]
  /\ parked' = [parked EXCEPT ![s] = FALSE]
  /\ primed' = [primed EXCEPT ![s] = FALSE]
  /\ queued_ticket' = [queued_ticket EXCEPT ![s] = NoTicket]
  /\ IF queued_ticket[s] \in Exec!QueuedTickets
     THEN /\ Exec!Withdraw(queued_ticket[s])
          /\ job' = [job EXCEPT ![queued_ticket[s]] = "withdrawn"]
     ELSE UNCHANGED <<execVars, job>>
  /\ UNCHANGED <<requested, slotVars, committed, of, was_queued, panicked>>

CancelSlot(s) ==
  /\ pc[s] = "cancelling"
  /\ slot' = [slot EXCEPT ![s] = "cancelled"]
  /\ Wake(s)
  /\ Goto(s, "over")
  /\ UNCHANGED <<execVars, requested, source, parked, primed, committed,
                 queued_ticket, error, jobVars, panicked>>

\* The shutdown is requested; every task polls it and is woken.
RequestShutdown ==
  /\ ~requested
  /\ requested' = TRUE
  /\ woken' = [s \in Stream |-> TRUE]
  /\ UNCHANGED <<execVars, slot, waker, sourceVars, jobVars, panicked>>

StopAdmission ==
  /\ requested
  /\ Exec!Close
  /\ UNCHANGED <<requested, slotVars, sourceVars, jobVars, panicked>>

-----------------------------------------------------------------------------
(* The job on a worker thread.                                             *)

ClaimJob(t) ==
  /\ Exec!Start
  /\ t = Head(queue).ticket
  /\ Cardinality({u \in Exec!Ticket : job[u] \in OnWorker}) < Workers
  /\ job' = [job EXCEPT ![t] = "claimed"]
  /\ UNCHANGED <<requested, slotVars, sourceVars, of, was_queued, panicked>>

\* start_running: a cancelled transition is skipped.  Its debug assertion: a
\* job admitted as Queued finds the slot marked queued, which mark_queued did
\* before the job could be claimed.
StartRunning(t) ==
  LET s == of[t] IN
  /\ job[t] = "claimed"
  /\ IF slot[s] = "cancelled"
     THEN /\ job' = [job EXCEPT ![t] = "skipped"]
          /\ UNCHANGED <<slot, waker, woken, panicked>>
     ELSE /\ job' = [job EXCEPT ![t] = "running"]
          /\ slot' = [slot EXCEPT ![s] = "running"]
          /\ Wake(s)
          /\ panicked' = (panicked \/ slot[s] # IF t \in was_queued THEN "queued"
                                                                 ELSE "pending")
  /\ UNCHANGED <<execVars, requested, sourceVars, of, was_queued>>

\* Mutant: the result is published before the job has retired.
RocReturnsPublishing(t) ==
  /\ job[t] = "running"
  /\ job' = [job EXCEPT ![t] = "finished"]
  /\ slot' = [slot EXCEPT ![of[t]] = IF @ = "cancelled" THEN @ ELSE "ready"]
  /\ Wake(of[t])
  /\ UNCHANGED <<execVars, requested, sourceVars, of, was_queued, panicked>>

RocReturns(t) ==
  /\ job[t] = "running"
  /\ job' = [job EXCEPT ![t] = "finished"]
  /\ UNCHANGED <<execVars, requested, slotVars, sourceVars, of, was_queued, panicked>>

\* A skipped job retires when its guard drops, and is over.
RetireJob(t) ==
  /\ job[t] \in {"finished", "skipped"}
  /\ Exec!Finish(t)
  /\ job' = [job EXCEPT ![t] = IF @ = "skipped" THEN "over" ELSE "retired"]
  /\ UNCHANGED <<requested, slotVars, sourceVars, of, was_queued, panicked>>

Complete(t) ==
  LET s == of[t] IN
  /\ job[t] = "retired"
  /\ job' = [job EXCEPT ![t] = "over"]
  /\ IF slot[s] = "cancelled"
     THEN UNCHANGED <<slotVars, panicked>>
     ELSE /\ slot' = [slot EXCEPT ![s] = "ready"]
          /\ Wake(s)
          /\ panicked' = (panicked \/ slot[s] # "running")
  /\ UNCHANGED <<execVars, requested, sourceVars, of, was_queued>>

-----------------------------------------------------------------------------
Task(s) ==
  \/ Register(s) \/ Look(s) \/ Submit(s) \/ Refused(s)
  \/ Expire(s) \/ TimedOut(s) \/ CancelSlot(s)

Worker(t) ==
  ClaimJob(t) \/ StartRunning(t) \/ RocReturns(t) \/ RetireJob(t) \/ Complete(t)

Finished == (\A s \in Stream : pc[s] = "over") /\ UNCHANGED vars

OutOfTickets == ~TicketLeft /\ UNCHANGED vars

Next ==
  \/ \E s \in Stream : \/ Poll(s) \/ WakeTimer(s) \/ ItemDrained(s) \/ Task(s)
                       \/ CancelNow(s)
  \/ \E t \in Exec!Ticket : Worker(t)
  \/ RequestShutdown
  \/ StopAdmission
  \/ Finished
  \/ OutOfTickets

Spec == Init /\ [][Next]_vars

\* Woken tasks are polled, workers claim jobs, and Roc transitions return.
\* Clients need not read and timers need not elapse.
Fairness ==
  /\ \A s \in Stream :
       /\ WF_vars(Task(s))
       /\ WF_vars(woken[s] /\ Poll(s))
       /\ WF_vars(requested /\ CancelNow(s))
  /\ \A t \in Exec!Ticket : WF_vars(Worker(t))

FairSpec == Spec /\ Fairness

-----------------------------------------------------------------------------
(* Properties.                                                             *)

\* None of the slot's assertions and panics is reached ("SSE completion
\* started from invalid state", "... finished from invalid state", the asserts
\* of begin and abort_begin, "parked SSE source exists", "SSE transition was
\* submitted"), however polls, timeouts, cancellation and workers interleave.
NoInvalidState == ~panicked

\* A stream has one transition at a time: the slot, which is reused for every
\* transition, is never shared by two jobs queued or on a worker.
OneTransition ==
  \A t, u \in Exec!Ticket :
    of[t] = of[u] /\ {job[t], job[u]} \subseteq OnWorker \cup {"queued"} => t = u

\* The slot is used by one transition at a time and only as its states allow.
TransitionsExclusive == TypeOK /\ NoInvalidState /\ OneTransition

\* A task that sleeps on a finished transition has been woken: poll registers
\* its waker before it looks at the slot, and start_running's wake, which takes
\* the waker, makes the task register it again.
WakeupKept ==
  \A s \in Stream : pc[s] = "asleep" /\ slot[s] = "ready" => woken[s]

\* A transition reported as timed out in the queue was never run, then or
\* later, and no job of that stream is left.
TimedOutNeverRuns ==
  \A t \in Exec!Ticket :
    of[t] # NoStream /\ error[of[t]] = "timed_out" =>
      job[t] \in {"withdrawn", "over"}

\* Every transition that was begun settles: its result reaches the task, or
\* the stream is cancelled.
TransitionSettles ==
  \A s \in Stream :
    slot[s] \in {"pending", "queued", "running", "ready"}
      ~> slot[s] \in {"idle", "cancelled"}
=============================================================================
