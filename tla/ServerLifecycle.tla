-------------------------- MODULE ServerLifecycle --------------------------
(***************************************************************************)
(* The server from start to exit: `start_inner`, the accept loop and the   *)
(* drain of `run_server_with_listener`, the signal task, connections and   *)
(* their requests (src/http_server.rs), `ShutdownController` and           *)
(* `RequestTracker` (src/shutdown.rs), and the lease of a native file      *)
(* transfer (src/file_server.rs).  Roc jobs run on AdmissionControl; the   *)
(* races inside one dispatch are RocDispatch's.                            *)
(*                                                                         *)
(* An ActiveRequest is shared by Arc: it lives while the request's task,   *)
(* one of its jobs or its file lease holds a reference, and the tracker's  *)
(* count is the number of requests whose ActiveRequest lives.              *)
(***************************************************************************)
EXTENDS Integers, FiniteSets, Sequences

CONSTANTS
  Conn,            \* the connections ever accepted
  Http2,           \* those whose peer speaks HTTP/2; the others speak HTTP/1
  Request,         \* the requests ever received
  MaxConnections,  \* config.max_connections
  Workers, Waiting, MaxTickets  \* the executor; MaxTickets bounds its jobs

ASSUME LifecycleAssumption ==
  IsFiniteSet(Conn) /\ MaxConnections \in Nat /\ MaxTickets \in Nat

VARIABLES
  queue, running, next_ticket, open,  \* the executor
  server,      \* where the main thread is
  reason,      \* ShutdownController.reason
  returned,    \* the reason the runner gave to start_inner
  accepting,   \* RequestTracker: RequestCount.accepting
  notified,    \* the Notified future of wait_for_idle has been notified
  reserved,    \* next_connection_slot.is_some()
  free_slots,  \* permits left in connection_slots
  conn,        \* the connection tasks
  task,        \* where the task that serves each request is
  on,          \* the connection each request arrived on
  mine,        \* the ticket of the job each request is waiting for
  job,         \* the jobs, by ticket
  of,          \* the request each job belongs to
  lease,       \* the TransferLease of each request
  watching,    \* the signal task runs
  seen_one,    \* TerminationSignals.seen_one
  exit         \* the process's exit code

Exec == INSTANCE AdmissionControl

execVars == <<queue, running, next_ticket, open>>
serverVars == <<server, returned, accepting>>
connVars == <<reserved, free_slots, conn>>
requestVars == <<task, on, mine, job, of, lease>>
signalVars == <<watching, seen_one>>
vars == <<execVars, serverVars, reason, notified, connVars, requestVars,
          signalVars, exit>>

NoExit == -1
NoTicket == -1
NoConn == "none"
AppCode == 7     \* a StopAfter exit code
HookCode == 9    \* an exit code the shutdown hook returns
InitCode == 5    \* an exit code init! returns
Signals == {"Interrupt", "Terminate"}
Causes == Signals \cup {"ApplicationRequested", "StartupFailed", "RuntimeFailed"}
Tracked == {"begun", "waiting", "filing", "streaming", "responding"}
Phases == {"starting", "binding", "accepting", "stop_admission", "drain_routes",
           "drain_requests", "register", "check", "asleep", "join", "returned",
           "executor", "hook", "over"}

default_exit_code(r) ==
  CASE r = "ApplicationRequested" -> AppCode
    [] r = "Interrupt" -> 130
    [] r = "Terminate" -> 143
    [] OTHER -> 1

\* Jobs that still hold their request's ActiveRequest.
Holding == {"queued", "claimed", "running", "retired", "sent"}
OnWorker == {"claimed", "running", "skipped", "retired", "sent"}

\* The requests whose ActiveRequest lives; `active()` is their number.
Live ==
  {r \in Request : \/ task[r] \in Tracked
                   \/ \E t \in Exec!Ticket : of[t] = r /\ job[t] \in Holding
                   \/ lease[r] \in {"thread", "body"}}

\* Mutant of NotifyIdle: off by one, the notification goes out too early.
NotifyBeforeLast ==
  notified' = (notified \/ (Live' # Live /\ Cardinality(Live') = 1))

\* ActiveRequest::drop: the last one notifies the waiter.
NotifyIdle == notified' = (notified \/ (Live # {} /\ Live' = {}))

TypeOK ==
  /\ queue \in Seq([ticket : Exec!Ticket, class : Exec!Class])
  /\ running \subseteq Exec!Ticket
  /\ next_ticket \in 0 .. MaxTickets
  /\ {open, accepting, notified, reserved, watching, seen_one} \subseteq BOOLEAN
  /\ server \in Phases
  /\ {reason, returned} \subseteq Causes \cup {"none"}
  /\ free_slots \in 0 .. MaxConnections
  /\ conn \in [Conn -> {"none", "open", "draining", "ending", "closed"}]
  /\ task \in [Request -> {"none", "untracked", "done"} \cup Tracked]
  /\ on \in [Request -> Conn \cup {NoConn}]
  /\ mine \in [Request -> Exec!Ticket \cup {NoTicket}]
  /\ job \in [Exec!Ticket -> {"none", "queued", "over"} \cup OnWorker]
  /\ of \in [Exec!Ticket -> Request \cup {NoConn}]
  /\ lease \in [Request -> {"none", "thread", "body", "thread_drop", "body_drop"}]
  /\ exit \in {NoExit, 1, 130, 143, AppCode, HookCode, InitCode}

Init ==
  /\ queue = <<>> /\ running = {} /\ next_ticket = 0 /\ open = TRUE
  /\ reason = "none"
  /\ returned = "none"
  /\ accepting = TRUE
  /\ notified = FALSE
  /\ reserved = FALSE
  /\ free_slots = MaxConnections
  /\ conn = [c \in Conn |-> "none"]
  /\ task = [r \in Request |-> "none"]
  /\ on = [r \in Request |-> NoConn]
  /\ mine = [r \in Request |-> NoTicket]
  /\ job = [t \in Exec!Ticket |-> "none"]
  /\ of = [t \in Exec!Ticket |-> NoConn]
  /\ lease = [r \in Request |-> "none"]
  /\ watching = FALSE
  /\ seen_one = FALSE
  /\ server = "starting"
  /\ exit = NoExit

\* The process ends with this code, and its memory is gone.
Exit(code) ==
  /\ queue' = <<>> /\ running' = {} /\ next_ticket' = 0 /\ open' = TRUE
  /\ reason' = "none"
  /\ returned' = "none"
  /\ accepting' = TRUE
  /\ notified' = FALSE
  /\ reserved' = FALSE
  /\ free_slots' = MaxConnections
  /\ conn' = [c \in Conn |-> "none"]
  /\ task' = [r \in Request |-> "none"]
  /\ on' = [r \in Request |-> NoConn]
  /\ mine' = [r \in Request |-> NoTicket]
  /\ job' = [t \in Exec!Ticket |-> "none"]
  /\ of' = [t \in Exec!Ticket |-> NoConn]
  /\ lease' = [r \in Request |-> "none"]
  /\ watching' = FALSE
  /\ seen_one' = FALSE
  /\ server' = "over"
  /\ exit' = code

-----------------------------------------------------------------------------
(* The main thread.                                                        *)

\* `init!` returned an error: its code is the exit code and no hook runs.
InitFails ==
  /\ server = "starting"
  /\ Exit(InitCode)

\* A bad configuration, or telemetry, Brotli or the executor did not start.
StartupFails ==
  /\ server = "starting"
  /\ server' = "hook"
  /\ returned' = "StartupFailed"
  /\ UNCHANGED <<execVars, accepting, reason, notified, connVars, requestVars,
                 signalVars, exit>>

\* The executor runs; the Tokio runtime is built, or is not.
StartRuntime ==
  /\ server = "starting"
  /\ \/ server' = "binding" /\ UNCHANGED returned
     \/ server' = "executor" /\ returned' = "RuntimeFailed"
  /\ UNCHANGED <<execVars, accepting, reason, notified, connVars, requestVars,
                 signalVars, exit>>

Bind ==
  /\ server = "binding"
  /\ \/ server' = "accepting" /\ watching' = TRUE /\ UNCHANGED returned
     \/ server' = "executor" /\ returned' = "StartupFailed" /\ UNCHANGED watching
  /\ UNCHANGED <<execVars, accepting, reason, notified, connVars, requestVars,
                 seen_one, exit>>

\* The accept loop.  `biased` polls the shutdown first, but a shutdown that
\* is requested between two polls of one select may still see an accept.
ReserveSlot ==
  /\ server = "accepting"
  /\ ~reserved
  /\ free_slots > 0
  /\ reserved' = TRUE
  /\ free_slots' = free_slots - 1
  /\ UNCHANGED <<execVars, serverVars, reason, notified, conn, requestVars,
                 signalVars, exit>>

\* Mutant of Accept: the reserved slot is cloned, not taken.
AcceptKeepsSlot(c) ==
  /\ server = "accepting"
  /\ reserved
  /\ conn[c] = "none"
  /\ conn' = [conn EXCEPT ![c] = "open"]
  /\ UNCHANGED <<execVars, serverVars, reason, notified, reserved, free_slots,
                 requestVars, signalVars, exit>>

Accept(c) ==
  /\ server = "accepting"
  /\ reserved
  /\ conn[c] = "none"
  /\ reserved' = FALSE
  /\ conn' = [conn EXCEPT ![c] = "open"]
  /\ UNCHANGED <<execVars, serverVars, reason, notified, free_slots, requestVars,
                 signalVars, exit>>

BreakLoop ==
  /\ server = "accepting"
  /\ reason # "none"
  /\ server' = "stop_admission"
  /\ returned' = reason
  /\ UNCHANGED <<execVars, accepting, reason, notified, connVars, requestVars,
                 signalVars, exit>>

StopAdmission ==
  /\ server = "stop_admission"
  /\ server' = "drain_routes"
  /\ Exec!Close
  /\ UNCHANGED <<returned, accepting, reason, notified, connVars, requestVars,
                 signalVars, exit>>

\* routes.begin_draining: every readiness probe answers 503 from here on.
DrainRoutes ==
  /\ server = "drain_routes"
  /\ server' = "drain_requests"
  /\ UNCHANGED <<execVars, returned, accepting, reason, notified, connVars,
                 requestVars, signalVars, exit>>

\* requests.begin_draining: nobody waits yet, so its notification is lost.
DrainRequests ==
  /\ server = "drain_requests"
  /\ server' = "register"
  /\ accepting' = FALSE
  /\ UNCHANGED <<execVars, returned, reason, notified, connVars, requestVars,
                 signalVars, exit>>

\* wait_for_idle: the future registers before the count is read.
IdleRegister ==
  /\ server = "register"
  /\ server' = "check"
  /\ notified' = FALSE
  /\ UNCHANGED <<execVars, returned, accepting, reason, connVars, requestVars,
                 signalVars, exit>>

IdleCheck ==
  /\ server = "check"
  /\ server' = IF Live = {} THEN "join" ELSE "asleep"
  /\ UNCHANGED <<execVars, returned, accepting, reason, notified, connVars,
                 requestVars, signalVars, exit>>

IdleWake ==
  /\ server = "asleep"
  /\ notified
  /\ server' = "register"
  /\ UNCHANGED <<execVars, returned, accepting, reason, notified, connVars,
                 requestVars, signalVars, exit>>

\* join_next until no connection task is left.
JoinConnections ==
  /\ server = "join"
  /\ \A c \in Conn : conn[c] \in {"none", "closed"}
  /\ server' = "returned"
  /\ UNCHANGED <<execVars, returned, accepting, reason, notified, connVars,
                 requestVars, signalVars, exit>>

\* Mutants of DrainTimeout: the drain is given up and the shutdown goes on, ...
DrainGivesUp ==
  /\ server \in {"register", "check", "asleep", "join"}
  /\ server' = "returned"
  /\ UNCHANGED <<execVars, returned, accepting, reason, notified, connVars,
                 requestVars, signalVars, exit>>

\* ... the deadline covers the requests and not the connections.
DrainTimeoutRequestsOnly ==
  /\ server \in {"register", "check", "asleep"}
  /\ Exit(1)

\* The drain deadline is a hard process deadline: no hook.
DrainTimeout ==
  /\ server \in {"register", "check", "asleep", "join"}
  /\ Exit(1)

\* The signal task is aborted and dropping the runtime drops every task left.
DropRuntime ==
  /\ server = "returned"
  /\ server' = "executor"
  /\ watching' = FALSE
  /\ task' = [r \in Request |-> IF task[r] = "none" THEN "none" ELSE "done"]
  /\ lease' = [r \in Request |-> IF lease[r] = "body_drop" THEN "none" ELSE lease[r]]
  /\ UNCHANGED <<execVars, returned, accepting, reason, notified, connVars,
                 on, mine, job, of, seen_one, exit>>

\* roc_executor.shutdown (ShutdownDrained of FixedExecutor), telemetry.
ExecutorShutdown ==
  /\ server = "executor"
  /\ queue = <<>> /\ running = {}
  /\ \A t \in Exec!Ticket : job[t] \in {"none", "over"}
  /\ server' = "hook"
  /\ open' = FALSE
  /\ UNCHANGED <<queue, running, next_ticket, returned, accepting, reason,
                 notified, connVars, requestVars, signalVars, exit>>

\* finish_shutdown: the hook's error code replaces the default one.
HookReturns ==
  /\ server = "hook"
  /\ \E code \in {default_exit_code(returned), HookCode} : Exit(code)

\* The watchdog thread ends the process.
HookTimeout ==
  /\ server = "hook"
  /\ Exit(1)

-----------------------------------------------------------------------------
(* Signals.                                                                *)

\* Mutant of RequestShutdown: the last cause wins.
LastCauseWins(cause) == reason' = cause

\* ShutdownController::request: the first cause wins.
RequestShutdown(cause) == reason' = IF reason = "none" THEN cause ELSE reason

Signal(s) ==
  /\ watching
  /\ ~seen_one
  /\ seen_one' = TRUE
  /\ RequestShutdown(s)
  /\ UNCHANGED <<execVars, serverVars, notified, connVars, requestVars, watching,
                 exit>>

SecondSignal ==
  /\ watching
  /\ seen_one
  /\ Exit(1)

-----------------------------------------------------------------------------
(* Connections.                                                            *)

OnConn(c) == {r \in Request : on[r] = c /\ task[r] # "done"}

\* serve_http1 and serve_http2 see the shutdown: graceful_shutdown.
ConnDrains(c) ==
  /\ conn[c] = "open"
  /\ reason # "none"
  /\ conn' = [conn EXCEPT ![c] = "draining"]
  /\ UNCHANGED <<execVars, serverVars, reason, notified, reserved, free_slots,
                 requestVars, signalVars, exit>>

\* The peer leaves, an idle timeout or an error ends an HTTP/1 connection,
\* whose task then drops the request it serves (EndTask).
ConnFails(c) ==
  /\ conn[c] \in {"open", "draining"}
  /\ c \notin Http2
  /\ conn' = [conn EXCEPT ![c] = "ending"]
  /\ UNCHANGED <<execVars, serverVars, reason, notified, reserved, free_slots,
                 requestVars, signalVars, exit>>

\* Mutant of ConnEnds: the permit is given back twice.
ConnEndsTwice(c) ==
  /\ conn[c] \in {"open", "draining", "ending"}
  /\ c \notin Http2 =>
       \A r \in Request : on[r] = c => task[r] = "done" /\ lease[r] # "body_drop"
  /\ conn' = [conn EXCEPT ![c] = "closed"]
  /\ free_slots' = free_slots + 2
  /\ UNCHANGED <<execVars, serverVars, reason, notified, reserved, requestVars,
                 signalVars, exit>>

\* The connection task returns and its permit drops.  HTTP/2 requests are
\* tasks of their own, which the dropped JoinSet aborts later.
ConnEnds(c) ==
  /\ conn[c] \in {"open", "draining", "ending"}
  /\ c \notin Http2 =>
       \A r \in Request : on[r] = c => task[r] = "done" /\ lease[r] # "body_drop"
  /\ conn' = [conn EXCEPT ![c] = "closed"]
  /\ free_slots' = free_slots + 1
  /\ UNCHANGED <<execVars, serverVars, reason, notified, reserved,
                 requestVars, signalVars, exit>>

-----------------------------------------------------------------------------
(* Requests: handle_req, the response body and the file transfer.          *)

\* A request reaches handle_req, which is tracked or turned away.  HTTP/1
\* serves one request at a time; a draining connection takes none.
Arrive(r, c) ==
  /\ task[r] = "none"
  /\ conn[c] = "open"
  /\ c \notin Http2 => OnConn(c) = {}
  /\ on' = [on EXCEPT ![r] = c]
  /\ task' = [task EXCEPT ![r] = IF accepting THEN "begun" ELSE "untracked"]
  /\ UNCHANGED <<execVars, serverVars, reason, notified, connVars, mine, job, of,
                 lease, signalVars, exit>>

\* A new job of r is admitted.
AdmitJob(r) ==
  /\ Exec!Admit
  /\ mine' = [mine EXCEPT ![r] = next_ticket]
  /\ of' = [of EXCEPT ![next_ticket] = r]
  /\ job' = [job EXCEPT ![next_ticket] = "queued"]

Submit(r) ==
  /\ task[r] = "begun"
  /\ AdmitJob(r)
  /\ task' = [task EXCEPT ![r] = "waiting"]
  /\ UNCHANGED <<serverVars, reason, notified, connVars, on, lease, signalVars,
                 exit>>

\* Answered without Roc: a rejection, a probe, or the executor refused.
RespondDirectly(r) ==
  /\ task[r] = "begun"
  /\ task' = [task EXCEPT ![r] = "responding"]
  /\ UNCHANGED <<execVars, serverVars, reason, notified, connVars, on, mine, job,
                 of, lease, signalVars, exit>>

\* FileService::serve: for a native route, or for the file plan of a handler.
StartFile(r) ==
  /\ \/ task[r] = "begun"
     \/ task[r] = "waiting" /\ job[mine[r]] \in {"sent", "over"}
  /\ task' = [task EXCEPT ![r] = "filing"]
  /\ lease' = [lease EXCEPT ![r] = "thread"]
  /\ UNCHANGED <<execVars, serverVars, reason, notified, connVars, on, mine, job,
                 of, signalVars, exit>>

\* The handler's outcome: a response, one that stops the server, or a stream.
Receive(r) ==
  /\ task[r] = "waiting"
  /\ job[mine[r]] \in {"sent", "over"}
  /\ \/ task' = [task EXCEPT ![r] = "responding"] /\ UNCHANGED reason
     \/ task' = [task EXCEPT ![r] = "responding"]
        /\ RequestShutdown("ApplicationRequested")
     \/ task' = [task EXCEPT ![r] = "streaming"] /\ UNCHANGED reason
  /\ UNCHANGED <<execVars, serverVars, notified, connVars, on, mine, job, of,
                 lease, signalVars, exit>>

\* The stream's source submits its next transition; the shutdown it polled
\* for just before may have come since.
SseAdvance(r) ==
  /\ task[r] = "streaming"
  /\ job[mine[r]] \in {"sent", "over"}
  /\ AdmitJob(r)
  /\ UNCHANGED <<serverVars, reason, notified, connVars, task, on, lease,
                 signalVars, exit>>

\* A job that is dropped with its guard, its stream or its queue timeout.
Withdrawable(r) ==
  /\ task[r] \in {"waiting", "streaming"}
  /\ \E i \in DOMAIN queue : queue[i].ticket = mine[r] /\ queue[i].class = "Queued"

WithdrawJob(r) ==
  IF Withdrawable(r)
  THEN Exec!Withdraw(mine[r]) /\ job' = [job EXCEPT ![mine[r]] = "over"]
  ELSE UNCHANGED <<execVars, job>>

QueueTimeout(r) ==
  /\ Withdrawable(r)
  /\ WithdrawJob(r)
  /\ task' = [task EXCEPT ![r] = "responding"]
  /\ UNCHANGED <<serverVars, reason, notified, connVars, on, mine, of, lease,
                 signalVars, exit>>

\* The task is over: its body ended or failed, or its connection or the
\* server's shutdown dropped it.  Dropping a lease lets go of the
\* ActiveRequest first and of the transfer gauge last (LeaseDropped).
EndTask(r) ==
  /\ \/ task[r] \in {"streaming", "responding", "untracked"}
     \/ task[r] \in Tracked /\ conn[on[r]] \in {"ending", "closed"}
  /\ WithdrawJob(r)
  /\ task' = [task EXCEPT ![r] = "done"]
  /\ lease' = [lease EXCEPT ![r] = IF @ = "body" THEN "body_drop" ELSE @]
  /\ UNCHANGED <<serverVars, reason, connVars, on, mine, of, signalVars, exit>>
  /\ NotifyIdle

\* prepare_and_stream has a body to send.  It carries the lease to the
\* response, or is dropped because the task has gone.
FileBody(r) ==
  /\ lease[r] = "thread"
  /\ IF task[r] = "filing"
     THEN /\ task' = [task EXCEPT ![r] = "responding"]
          /\ lease' = [lease EXCEPT ![r] = "body"]
     ELSE lease' = [lease EXCEPT ![r] = "thread_drop"] /\ UNCHANGED task
  /\ UNCHANGED <<execVars, serverVars, reason, connVars, on, mine, job, of,
                 signalVars, exit>>
  /\ NotifyIdle

\* send_without_body: the lease drops before the answer is sent.
FileWithoutBody(r) ==
  /\ lease[r] = "thread"
  /\ lease' = [lease EXCEPT ![r] = "thread_drop"]
  /\ UNCHANGED <<execVars, serverVars, reason, connVars, task, on, mine, job, of,
                 signalVars, exit>>
  /\ NotifyIdle

\* The rest of the lease's drop, its gauge, and the answer a thread sends.
LeaseDropped(r) ==
  /\ lease[r] \in {"thread_drop", "body_drop"}
  /\ lease' = [lease EXCEPT ![r] = "none"]
  /\ task' = [task EXCEPT ![r] = IF @ = "filing" THEN "responding" ELSE @]
  /\ UNCHANGED <<execVars, serverVars, reason, notified, connVars, on, mine, job,
                 of, signalVars, exit>>

-----------------------------------------------------------------------------
(* Jobs on the executor's workers: execute_roc_job.                        *)

StartJob(t) ==
  /\ Exec!Start
  /\ t = Head(queue).ticket
  /\ Cardinality({u \in Exec!Ticket : job[u] \in OnWorker}) < Workers
  /\ job' = [job EXCEPT ![t] =
               IF Head(queue).class = "Queued" THEN "claimed" ELSE "running"]
  /\ UNCHANGED <<serverVars, reason, notified, connVars, task, on, mine, of,
                 lease, signalVars, exit>>

\* A job admitted as Queued is dropped, with its ActiveRequest, if its task has
\* gone since; otherwise it runs.
RunOrSkip(t) ==
  /\ job[t] = "claimed"
  /\ job' = [job EXCEPT ![t] = IF task[of[t]] = "done" THEN "skipped" ELSE "running"]
  /\ UNCHANGED <<execVars, serverVars, reason, connVars, task, on, mine, of,
                 lease, signalVars, exit>>
  /\ NotifyIdle

RetireJob(t) ==
  /\ job[t] \in {"running", "skipped"}
  /\ Exec!Finish(t)
  /\ job' = [job EXCEPT ![t] = IF @ = "skipped" THEN "over" ELSE "retired"]
  /\ UNCHANGED <<serverVars, reason, notified, connVars, task, on, mine, of,
                 lease, signalVars, exit>>

SendResult(t) ==
  /\ job[t] = "retired"
  /\ job' = [job EXCEPT ![t] = "sent"]
  /\ UNCHANGED <<execVars, serverVars, reason, notified, connVars, task, on, mine,
                 of, lease, signalVars, exit>>

\* The job's ActiveRequest drops when execute_roc_job returns.
DropJob(t) ==
  /\ job[t] = "sent"
  /\ job' = [job EXCEPT ![t] = "over"]
  /\ UNCHANGED <<execVars, serverVars, reason, connVars, task, on, mine, of,
                 lease, signalVars, exit>>
  /\ NotifyIdle

-----------------------------------------------------------------------------
Main ==
  \/ InitFails \/ StartupFails \/ StartRuntime \/ Bind
  \/ BreakLoop \/ StopAdmission \/ DrainRoutes \/ DrainRequests
  \/ IdleRegister \/ IdleCheck \/ IdleWake \/ JoinConnections
  \/ DropRuntime \/ ExecutorShutdown

Connections ==
  \/ ReserveSlot
  \/ \E c \in Conn : Accept(c) \/ ConnDrains(c) \/ ConnFails(c) \/ ConnEnds(c)

Requests ==
  \E r \in Request :
    \/ \E c \in Conn : Arrive(r, c)
    \/ Submit(r) \/ RespondDirectly(r) \/ StartFile(r) \/ Receive(r)
    \/ SseAdvance(r) \/ QueueTimeout(r) \/ EndTask(r)
    \/ FileBody(r) \/ FileWithoutBody(r) \/ LeaseDropped(r)

Jobs ==
  \E t \in Exec!Ticket :
    StartJob(t) \/ RunOrSkip(t) \/ RetireJob(t) \/ SendResult(t) \/ DropJob(t)

Terminated == exit # NoExit /\ UNCHANGED vars

Next ==
  \/ exit = NoExit /\ \/ Main
                      \/ DrainTimeout \/ HookReturns \/ HookTimeout
                      \/ (\E s \in Signals : Signal(s)) \/ SecondSignal
                      \/ Connections \/ Requests \/ Jobs
  \/ Terminated

Spec == Init /\ [][Next]_vars

\* The main thread runs, its two deadlines expire, and a skipped job, which
\* runs no Roc code, retires.  Nothing is assumed of clients, handlers, file
\* threads or the hook: any of them may hang.
Fairness ==
  /\ WF_vars(exit = NoExit /\ Main)
  /\ WF_vars(exit = NoExit /\ DrainTimeout)
  /\ WF_vars(exit = NoExit /\ HookTimeout)
  /\ \A t \in Exec!Ticket :
       WF_vars(exit = NoExit /\ job[t] = "skipped" /\ RetireJob(t))

FairSpec == Spec /\ Fairness

-----------------------------------------------------------------------------
(* Properties.                                                             *)

\* The shutdown hook consumes the application's context, so it runs alone:
\* `root` is "consumed by `shutdown!` only after all request handlers have
\* drained".  No job is queued, running or publishing, no request task or
\* connection is left, whatever connections, handlers and signals did.
HookRunsAlone ==
  server = "hook" =>
    /\ queue = <<>> /\ running = {}
    /\ Live = {}
    /\ \A r \in Request : task[r] \in {"none", "done"}
    /\ \A c \in Conn : conn[c] \in {"none", "closed"}

\* wait_for_idle does not miss "the last guard's notification between the
\* check and the await": whoever sleeps with nothing left to wait for has been
\* notified.
IdleNotMissed == server = "asleep" /\ Live = {} => notified

\* The hook and the exit code get the cause that came first, although signals
\* and StopAfter responses keep arriving while the server drains.
FirstCauseWins ==
  returned # "none" /\ reason # "none" => returned = reason

\* Connection tasks and the slot reserved for the next one never exceed
\* max_connections, and no permit is lost when a task ends.
ConnectionSlots ==
  /\ TypeOK
  /\ Cardinality({c \in Conn : conn[c] \in {"open", "draining", "ending"}})
       + (IF reserved THEN 1 ELSE 0) + free_slots = MaxConnections

\* A requested shutdown ends the process, even if a handler, a client, a file
\* thread or the hook never returns.
ShutdownTerminates == (reason # "none") ~> (exit # NoExit)

\* "all native file transfers must drain before shutdown": the assertion after
\* the drain, on the gauge that a TransferLease drops last.
TransfersDrained == server = "returned" => \A r \in Request : lease[r] = "none"
=============================================================================
