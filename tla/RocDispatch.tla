---------------------------- MODULE RocDispatch ----------------------------
(***************************************************************************)
(* How a request runs its handler on the executor: the dispatching part of *)
(* `handle_req` (submit, wait, queue timeout, the future dropped by its    *)
(* connection), `QueuedRocJobGuard`, and the Ordinary arm of               *)
(* `execute_roc_job` on the worker thread, in src/http_server.rs.  The     *)
(* executor is AdmissionControl, which FixedExecutor implements.           *)
(*                                                                         *)
(* Each request submits one job.  The caller and the worker meet in a      *)
(* oneshot channel: `receiver` is the caller's end, `result` what the      *)
(* worker's end has delivered.                                             *)
(***************************************************************************)
EXTENDS Integers, FiniteSets, Sequences

CONSTANTS Workers, Waiting, Request

\* Startup refuses a configuration without workers.
ASSUME DispatchAssumption ==
  /\ IsFiniteSet(Request)
  /\ Workers \in Nat \ {0} /\ Waiting \in Nat

VARIABLES
  queue, running, next_ticket, open,  \* the executor
  caller,             \* where each request's handle_req is
  ticket,             \* Submission.ticket
  class,              \* Submission.class, embedded in the job
  receiver,           \* the caller's end of the oneshot: "open" or "closed"
  job,                \* how far the request's job has got in execute_roc_job
  outcome,            \* what the handler returned, on the worker's side
  result,             \* what the oneshot carries to the caller
  expired,            \* BodyHandle::expire was called
  ran,                \* history: the Roc handler was entered
  active_handlers,    \* metrics gauge of ActiveHandler values
  queued_handlers     \* metrics gauge of Queued admissions

MaxTickets == Cardinality(Request)

Exec == INSTANCE AdmissionControl

execVars == <<queue, running, next_ticket, open>>
callerVars == <<caller, ticket, class, receiver>>
jobVars == <<job, outcome, result, expired, ran, active_handlers, queued_handlers>>
vars == <<execVars, callerVars, jobVars>>

NoTicket == -1
Waits == {"awaiting", "queued", "expiring"}
Answers == {"ok", "panic", "lost", "overloaded", "unavailable", "timed_out"}
OnWorker == {"claimed", "running", "finished", "retired"}

TypeOK ==
  /\ queue \in Seq([ticket : Exec!Ticket, class : Exec!Class])
  /\ running \subseteq Exec!Ticket
  /\ next_ticket \in 0 .. MaxTickets
  /\ open \in BOOLEAN
  /\ caller \in [Request -> {"new", "leaving", "gone"} \cup Waits \cup Answers]
  /\ ticket \in [Request -> Exec!Ticket \cup {NoTicket}]
  /\ class \in [Request -> Exec!Class \cup {"none"}]
  /\ receiver \in [Request -> {"open", "closed"}]
  /\ job \in [Request -> {"none", "queued", "dropped", "done"} \cup OnWorker]
  /\ outcome \in [Request -> {"none", "ok", "panic", "skipped"}]
  /\ result \in [Request -> {"none", "ok", "panic", "lost"}]
  /\ expired \in [Request -> BOOLEAN]
  /\ ran \in [Request -> BOOLEAN]
  /\ active_handlers \in Nat
  /\ queued_handlers \in Nat

Init ==
  /\ Exec!Init
  /\ caller = [r \in Request |-> "new"]
  /\ ticket = [r \in Request |-> NoTicket]
  /\ class = [r \in Request |-> "none"]
  /\ receiver = [r \in Request |-> "open"]
  /\ job = [r \in Request |-> "none"]
  /\ outcome = [r \in Request |-> "none"]
  /\ result = [r \in Request |-> "none"]
  /\ expired = [r \in Request |-> FALSE]
  /\ ran = [r \in Request |-> FALSE]
  /\ active_handlers = 0
  /\ queued_handlers = 0

-----------------------------------------------------------------------------
(* The caller.                                                             *)

Refuse(r) ==
  /\ caller[r] = "new"
  /\ \/ ~open /\ caller' = [caller EXCEPT ![r] = "unavailable"]
     \/ open /\ Exec!Load = Exec!Capacity /\ caller' = [caller EXCEPT ![r] = "overloaded"]
  /\ UNCHANGED <<execVars, ticket, class, receiver, jobVars>>

\* The job, its admission class and its gauge are built under the lock.  Only
\* a Queued admission gets a cancellation guard and a queue timeout.
Submit(r) ==
  /\ caller[r] = "new"
  /\ Exec!Admit
  /\ ticket' = [ticket EXCEPT ![r] = next_ticket]
  /\ class' = [class EXCEPT ![r] = Exec!AdmissionClass]
  /\ job' = [job EXCEPT ![r] = "queued"]
  /\ \/ /\ Exec!AdmissionClass = "Active"
        /\ caller' = [caller EXCEPT ![r] = "awaiting"]
        /\ active_handlers' = active_handlers + 1
        /\ UNCHANGED queued_handlers
     \/ /\ Exec!AdmissionClass = "Queued"
        /\ caller' = [caller EXCEPT ![r] = "queued"]
        /\ queued_handlers' = queued_handlers + 1
        /\ UNCHANGED active_handlers
  /\ UNCHANGED <<receiver, outcome, result, expired, ran>>

\* The timeout is polled after the receiver, so it fires on an empty channel;
\* the worker may act before the caller reaches `queued.cancel()`.
QueueTimeout(r) ==
  /\ caller[r] = "queued"
  /\ result[r] = "none"
  /\ caller' = [caller EXCEPT ![r] = "expiring"]
  /\ UNCHANGED <<execVars, ticket, class, receiver, jobVars>>

\* `cancel_queued` returned the job, which is dropped with its gauge.
Cancelled(r) ==
  /\ Exec!Withdraw(ticket[r])
  /\ job' = [job EXCEPT ![r] = "dropped"]
  /\ queued_handlers' = queued_handlers - 1
  /\ UNCHANGED <<ticket, class, receiver, outcome, result, expired, ran,
                 active_handlers>>

\* `cancel_queued` returned None.
NotCancelled(r) ==
  /\ ticket[r] \notin Exec!QueuedTickets
  /\ UNCHANGED <<execVars, ticket, class, receiver, jobVars>>

\* Mutant of Expire: whether the job was still queued is not looked at.
ExpireRegardless(r) ==
  /\ caller[r] = "expiring"
  /\ Cancelled(r) \/ NotCancelled(r)
  /\ caller' = [caller EXCEPT ![r] = "timed_out"]

Expire(r) ==
  /\ caller[r] = "expiring"
  /\ \/ Cancelled(r) /\ caller' = [caller EXCEPT ![r] = "timed_out"]
     \/ NotCancelled(r) /\ caller' = [caller EXCEPT ![r] = "awaiting"]

Receive(r) ==
  /\ caller[r] \in {"awaiting", "queued"}
  /\ result[r] # "none"
  /\ caller' = [caller EXCEPT ![r] = result[r]]
  /\ UNCHANGED <<execVars, ticket, class, receiver, jobVars>>

\* The connection drops the future at its await: first the armed guard ...
DropGuard(r) ==
  /\ caller[r] = "queued"
  /\ caller' = [caller EXCEPT ![r] = "leaving"]
  /\ Cancelled(r) \/ NotCancelled(r)

\* ... then the receiver.
DropReceiver(r) ==
  /\ caller[r] \in {"awaiting", "leaving"}
  /\ caller' = [caller EXCEPT ![r] = "gone"]
  /\ receiver' = [receiver EXCEPT ![r] = "closed"]
  /\ UNCHANGED <<execVars, ticket, class, jobVars>>

-----------------------------------------------------------------------------
(* execute_roc_job on a worker thread.                                     *)

\* A thread that is still publishing an earlier result claims nothing.
ClaimJob(r) ==
  /\ Exec!Start
  /\ ticket[r] = Head(queue).ticket
  /\ Cardinality({q \in Request : job[q] \in OnWorker}) < Workers
  /\ job' = [job EXCEPT ![r] = "claimed"]
  /\ UNCHANGED <<callerVars, outcome, result, expired, ran, active_handlers,
                 queued_handlers>>

\* Mutant of Abandoned: the completion's receiver is not looked at.
AbandonedIfQueued(r) == class[r] = "Queued"

\* `was_queued && job.completion.is_closed()`
Abandoned(r) == class[r] = "Queued" /\ receiver[r] = "closed"

\* Mutant of SkipJob: the admission is dropped here and again at the return.
SkipJobTwice(r) ==
  /\ job[r] = "claimed"
  /\ Abandoned(r)
  /\ job' = [job EXCEPT ![r] = "finished"]
  /\ outcome' = [outcome EXCEPT ![r] = "skipped"]
  /\ result' = [result EXCEPT ![r] = "lost"]
  /\ queued_handlers' = queued_handlers - 1
  /\ UNCHANGED <<execVars, callerVars, expired, ran, active_handlers>>

\* A queued job whose caller has left is not run: `return` drops the job, and
\* with it the sender, then the retirement, then the admission.
SkipJob(r) ==
  /\ job[r] = "claimed"
  /\ Abandoned(r)
  /\ job' = [job EXCEPT ![r] = "finished"]
  /\ outcome' = [outcome EXCEPT ![r] = "skipped"]
  /\ result' = [result EXCEPT ![r] = "lost"]
  /\ UNCHANGED <<execVars, callerVars, expired, ran, active_handlers,
                 queued_handlers>>

\* Mutant of RunRoc: `promote` keeps the queued gauge.
RunRocStillQueued(r) ==
  /\ job[r] = "claimed"
  /\ ~Abandoned(r)
  /\ job' = [job EXCEPT ![r] = "running"]
  /\ ran' = [ran EXCEPT ![r] = TRUE]
  /\ IF class[r] = "Queued" THEN active_handlers' = active_handlers + 1
                            ELSE UNCHANGED active_handlers
  /\ UNCHANGED <<execVars, callerVars, outcome, result, expired, queued_handlers>>

\* `promote` turns the queued gauge into the active one; then Roc is called.
RunRoc(r) ==
  /\ job[r] = "claimed"
  /\ ~Abandoned(r)
  /\ job' = [job EXCEPT ![r] = "running"]
  /\ ran' = [ran EXCEPT ![r] = TRUE]
  /\ IF class[r] = "Queued"
     THEN /\ queued_handlers' = queued_handlers - 1
          /\ active_handlers' = active_handlers + 1
     ELSE UNCHANGED <<queued_handlers, active_handlers>>
  /\ UNCHANGED <<execVars, callerVars, outcome, result, expired>>

\* Mutant of RocReturns: the body capability is not expired.
RocReturnsUnexpired(r) ==
  /\ job[r] = "running"
  /\ job' = [job EXCEPT ![r] = "finished"]
  /\ \E o \in {"ok", "panic"} : outcome' = [outcome EXCEPT ![r] = o]
  /\ active_handlers' = active_handlers - 1
  /\ UNCHANGED <<execVars, callerVars, result, expired, ran, queued_handlers>>

\* Roc returned or the panic was caught; the body capability expires and the
\* active gauge is released.
RocReturns(r) ==
  /\ job[r] = "running"
  /\ job' = [job EXCEPT ![r] = "finished"]
  /\ \E o \in {"ok", "panic"} : outcome' = [outcome EXCEPT ![r] = o]
  /\ expired' = [expired EXCEPT ![r] = TRUE]
  /\ active_handlers' = active_handlers - 1
  /\ UNCHANGED <<execVars, callerVars, result, ran, queued_handlers>>

RetireJob(r) ==
  /\ job[r] = "finished"
  /\ Exec!Finish(ticket[r])
  /\ job' = [job EXCEPT ![r] = "retired"]
  /\ UNCHANGED <<callerVars, outcome, result, expired, ran, active_handlers,
                 queued_handlers>>

\* Mutant of Publish: a caught panic sends nothing.
PublishOnlyOk(r) ==
  /\ job[r] = "retired"
  /\ job' = [job EXCEPT ![r] = "done"]
  /\ IF outcome[r] = "skipped"
     THEN queued_handlers' = queued_handlers - 1 /\ UNCHANGED result
     ELSE /\ result' = [result EXCEPT ![r] = IF outcome[r] = "ok" THEN "ok" ELSE @]
          /\ UNCHANGED queued_handlers
  /\ UNCHANGED <<execVars, callerVars, outcome, expired, ran, active_handlers>>

\* After the retirement: send the result, or drop a skipped job's admission.
Publish(r) ==
  /\ job[r] = "retired"
  /\ job' = [job EXCEPT ![r] = "done"]
  /\ IF outcome[r] = "skipped"
     THEN queued_handlers' = queued_handlers - 1 /\ UNCHANGED result
     ELSE result' = [result EXCEPT ![r] = outcome[r]] /\ UNCHANGED queued_handlers
  /\ UNCHANGED <<execVars, callerVars, outcome, expired, ran, active_handlers>>

\* `stop_admission`, when the server begins to drain.
StopAdmission == Exec!Close /\ UNCHANGED <<callerVars, jobVars>>

-----------------------------------------------------------------------------
Job(r) == ClaimJob(r) \/ SkipJob(r) \/ RunRoc(r) \/ RocReturns(r) \/ RetireJob(r)
          \/ Publish(r)

Finished ==
  /\ \A r \in Request : caller[r] \in Answers \cup {"gone"}
  /\ UNCHANGED vars

Next ==
  \/ \E r \in Request : \/ Refuse(r) \/ Submit(r) \/ QueueTimeout(r) \/ Expire(r)
                        \/ Receive(r) \/ DropGuard(r) \/ DropReceiver(r)
                        \/ Job(r)
  \/ StopAdmission
  \/ Finished

Spec == Init /\ [][Next]_vars

\* Workers claim admitted jobs (FixedExecutor's EveryJobSettles), Roc handlers
\* return, and tasks are polled once woken.
Fairness ==
  \A r \in Request :
    WF_vars(Job(r)) /\ WF_vars(Expire(r)) /\ WF_vars(Receive(r))
    /\ WF_vars(caller[r] = "leaving" /\ DropReceiver(r))

FairSpec == Spec /\ Fairness

-----------------------------------------------------------------------------
(* Properties.                                                             *)

\* A request answered 503 (executor full, stopping, or queue timeout) never
\* ran its handler, then or later: the losing side of the race between the
\* queue timeout and the worker's claim waits for the real answer instead.
RefusedNeverRuns ==
  \A r \in Request :
    caller[r] \in {"overloaded", "unavailable", "timed_out"} => ~ran[r]

\* handle_req's "Roc executor lost a completion" branch is never taken: a job
\* is skipped only after its receiver is gone, and no other path drops the
\* sender of a claimed job unsent.
NoLostCompletion == \A r \in Request : caller[r] # "lost"

\* The handler gauges count what they name: no more active handlers than
\* workers, although a job admitted as Active counts before a worker claims
\* it; and both are zero when no job is admitted or on a worker.
HandlerGauges ==
  /\ active_handlers <= Workers
  /\ (\A r \in Request : job[r] \in {"none", "dropped", "done"}) =>
       active_handlers = 0 /\ queued_handlers = 0

\* When the caller can see a result, the job's capacity is free again and its
\* body capability is dead, so a follow-up submission cannot be refused by the
\* very job it follows and no Roc code can still read the body.
ReleasedBeforePublished ==
  \A r \in Request :
    result[r] \in {"ok", "panic"} =>
      ticket[r] \notin running \cup Exec!QueuedTickets /\ expired[r] /\ ran[r]

\* Admitted handlers are accounted for: the gauges count them, and a result is
\* published only when its job has given back what it had.
HandlersAccounted == TypeOK /\ HandlerGauges /\ ReleasedBeforePublished

\* Every caller that waits is answered, unless its connection drops it.
EveryCallerAnswered ==
  \A r \in Request : caller[r] \in Waits ~> caller[r] \in Answers \cup {"gone"}
=============================================================================
