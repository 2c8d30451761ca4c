------------------------ MODULE ServerLifecycleProofs ------------------------
(***************************************************************************)
(* Proofs about ServerLifecycle, for any finite set of connections, any    *)
(* requests, any number of connection slots, workers and waiting places,   *)
(* and any bound on the tickets.                                           *)
(***************************************************************************)
EXTENDS ServerLifecycle, AdmissionQueueLemmas, FiniteSetTheorems

Entry == [ticket : Exec!Ticket, class : Exec!Class]

\* The ring holds queued jobs, only issued tickets have a job, and a request
\* waits for a job of its own.
JobsPlaced ==
  /\ Distinct(queue)
  /\ \A t \in Tickets(queue) : job[t] = "queued"
  /\ \A t \in Exec!Ticket : job[t] = "none" <=> t >= next_ticket
  /\ \A t \in Exec!Ticket : job[t] # "none" => of[t] \in Request
  /\ \A r \in Request : mine[r] # NoTicket => of[mine[r]] = r /\ job[mine[r]] # "none"

\* Nothing has happened on the network yet, or ever will.
Untouched ==
  /\ reason = "none" /\ ~watching /\ ~reserved
  /\ queue = <<>> /\ running = {}
  /\ \A r \in Request : task[r] = "none" /\ lease[r] = "none"
  /\ \A c \in Conn : conn[c] = "none"
  /\ \A t \in Exec!Ticket : job[t] = "none"

\* The runner returns the cause that came first, or failed before any could.
CauseKept ==
  /\ server \in {"starting", "binding"} => Untouched
  /\ server \in {"starting", "binding", "accepting"} => returned = "none"
  /\ returned # "none" => Untouched \/ returned = reason

\* What each phase of the shutdown leaves behind.  Once the count has been
\* zero with the tracker closed it stays zero; once the connection tasks are
\* joined no request can arrive, and with the runtime no task is left.
Drained ==
  /\ server \in {"register", "check", "asleep", "join", "returned"} => ~accepting
  /\ server \in {"join", "returned"} => Live = {}
  /\ server \in {"returned", "executor", "hook"} =>
       \A c \in Conn : conn[c] \in {"none", "closed"}
  /\ server \in {"executor", "hook"} =>
       Live = {} /\ \A r \in Request : task[r] \in {"none", "done"}
  /\ server = "hook" => queue = <<>> /\ running = {}

\* The connection tasks, which have a permit each.
Served == {c \in Conn : conn[c] \in {"open", "draining", "ending"}}
SlotsCounted ==
  Cardinality(Served) + (IF reserved THEN 1 ELSE 0) + free_slots = MaxConnections

IInv ==
  TypeOK /\ JobsPlaced /\ CauseKept /\ Drained /\ SlotsCounted /\ IdleNotMissed

-----------------------------------------------------------------------------
(* Facts that several steps need.                                          *)

\* Zenon proves most leaves; the ones that need arithmetic, records or sequences
\* name SMT.
USE ZenonT(60)

\* What the assumption says of the tickets, the slots and the connections.
LEMMA Constants ==
  /\ MaxTickets \in Nat /\ Exec!Ticket = 0 .. MaxTickets - 1
  /\ NoTicket \notin Exec!Ticket /\ MaxConnections \in Nat
  /\ \A S \in SUBSET Conn : IsFiniteSet(S) /\ Cardinality(S) \in Nat
BY LifecycleAssumption, FS_CardinalityType, FS_Subset, SMTT(30) DEF Exec!Ticket, NoTicket

\* A step of a connection, a request or a job: the first cause is kept.
LEMMA CauseStep ==
  ASSUME CauseKept, ~Untouched, UNCHANGED <<server, returned>>,
         reason' = reason \/ reason = "none"
  PROVE  CauseKept'
BY DEF CauseKept

\* A step that makes no request live and no task run: what is drained stays
\* drained, and the last ActiveRequest to go has notified the waiter.
LEMMA DrainedStep ==
  ASSUME Drained, IdleNotMissed, UNCHANGED <<server, accepting, conn>>,
         \A r \in Request : task[r] \in {"none", "done"} => task'[r] \in {"none", "done"},
         server # "hook" \/ (queue' = queue /\ running' \subseteq running),
         \/ Live' = Live /\ UNCHANGED notified
         \/ Live' \subseteq Live /\ NotifyIdle
  PROVE  Drained' /\ IdleNotMissed'
<1>1. Live' \subseteq Live
  OBVIOUS
<1>2. Drained'
  BY <1>1 DEF Drained
<1>3. IdleNotMissed'
  BY DEF IdleNotMissed, NotifyIdle
<1>4. QED
  BY <1>2, <1>3

\* The slots stay counted while no connection changes.
LEMMA ConnsStep == ASSUME SlotsCounted, UNCHANGED connVars PROVE SlotsCounted'
BY DEF SlotsCounted, Served, connVars

\* No job goes, and no task or lease lets go of its ActiveRequest.
LEMMA LiveKept ==
  ASSUME IInv,
         \A r \in Request : \/ task'[r] \in Tracked <=> task[r] \in Tracked
                            \/ lease[r] = "thread" /\ lease'[r] \in {"thread", "body"},
         \A r \in Request : \/ lease'[r] \in {"thread", "body"} <=> lease[r] \in {"thread", "body"}
                            \/ task[r] \in Tracked /\ task'[r] \in Tracked,
         UNCHANGED of,
         \A t \in Exec!Ticket : \/ job'[t] \in Holding <=> job[t] \in Holding
                                \/ /\ of[t] \in Request
                                   /\ task[of[t]] \in Tracked /\ task'[of[t]] \in Tracked
  PROVE  Live' = Live
BY DEF Live

-----------------------------------------------------------------------------
(* Requests.                                                               *)

\* A task answers, or takes the result of its job.
LEMMA RespondStep ==
  ASSUME IInv, NEW r \in Request, RespondDirectly(r) \/ Receive(r)
  PROVE  IInv'
<1>1. /\ task[r] \in Tracked
      /\ \E p \in {"responding", "streaming"} : task' = [task EXCEPT ![r] = p]
      /\ reason' = reason \/ (reason = "none" /\ reason' = "ApplicationRequested")
      /\ UNCHANGED <<execVars, serverVars, notified, connVars, on, mine, job, of,
                     lease, signalVars, exit>>
  BY DEF RespondDirectly, Receive, RequestShutdown, Tracked
<1>2. TypeOK'
  BY <1>1, SMTT(30) DEF IInv, TypeOK, Tracked, Causes, execVars, serverVars, connVars, signalVars
<1>3. ~Untouched
  BY <1>1 DEF Untouched, Tracked
<1>4. CauseKept'
  BY <1>1, <1>3, CauseStep DEF IInv, serverVars
<1>5. Live' = Live
  BY <1>1, LiveKept, SMTT(30) DEF IInv, TypeOK, Tracked
<1>6. Drained' /\ IdleNotMissed'
  BY <1>1, <1>5, DrainedStep DEF IInv, TypeOK, Tracked, serverVars, connVars, execVars
<1>7. JobsPlaced' /\ SlotsCounted'
  BY <1>1, ConnsStep DEF IInv, JobsPlaced, execVars
<1>8. QED
  BY <1>2, <1>4, <1>6, <1>7, SMTT(30) DEF IInv

\* A file transfer begins, with a lease of its own.
LEMMA StartFileStep ==
  ASSUME IInv, NEW r \in Request, StartFile(r)
  PROVE  IInv'
<1>1. /\ task[r] \in Tracked
      /\ task' = [task EXCEPT ![r] = "filing"]
      /\ lease' = [lease EXCEPT ![r] = "thread"]
      /\ UNCHANGED <<execVars, serverVars, reason, notified, connVars, on, mine, job, of,
                     signalVars, exit>>
  BY DEF StartFile, Tracked
<1>2. TypeOK'
  BY <1>1 DEF IInv, TypeOK, Tracked, execVars, serverVars, connVars, signalVars
<1>3. ~Untouched
  BY <1>1 DEF Untouched, Tracked
<1>4. CauseKept'
  BY <1>1, <1>3, CauseStep DEF IInv, serverVars
<1>5. Live' = Live
  BY <1>1, LiveKept, SMTT(30) DEF IInv, TypeOK, Tracked
<1>6. Drained' /\ IdleNotMissed'
  BY <1>1, <1>5, DrainedStep DEF IInv, TypeOK, Tracked, serverVars, connVars, execVars
<1>7. JobsPlaced' /\ SlotsCounted'
  BY <1>1, ConnsStep DEF IInv, JobsPlaced, execVars
<1>8. QED
  BY <1>2, <1>4, <1>6, <1>7 DEF IInv

\* A request arrives: tracked only while the tracker accepts.
LEMMA ArriveStep ==
  ASSUME IInv, NEW r \in Request, NEW c \in Conn, Arrive(r, c)
  PROVE  IInv'
<1>1. /\ task[r] = "none" /\ conn[c] = "open"
      /\ on' = [on EXCEPT ![r] = c]
      /\ task' = [task EXCEPT ![r] = IF accepting THEN "begun" ELSE "untracked"]
      /\ UNCHANGED <<execVars, serverVars, reason, notified, connVars, mine, job, of,
                     lease, signalVars, exit>>
  BY DEF Arrive
<1>2. TypeOK'
  <2>1. /\ on' \in [Request -> Conn \cup {NoConn}]
        /\ task' \in [Request -> {"none", "untracked", "done"} \cup Tracked]
    BY <1>1 DEF IInv, TypeOK, Tracked
  <2>2. QED
    BY <1>1, <2>1 DEF IInv, TypeOK, execVars, serverVars, connVars, signalVars
<1>3. ~Untouched
  BY <1>1 DEF Untouched
<1>4. CauseKept'
  BY <1>1, <1>3, CauseStep DEF IInv, serverVars
<1>5. ~accepting => Live' = Live
  BY <1>1, LiveKept DEF IInv, TypeOK, Tracked
<1>6. server \notin {"returned", "executor", "hook"}
  BY <1>1 DEF IInv, Drained
<1>7. Live \subseteq Live'
  <2>1. \A q \in Request : task[q] \in Tracked => task'[q] \in Tracked
    BY <1>1 DEF IInv, TypeOK, Tracked
  <2>2. QED
    BY <1>1, <2>1 DEF Live
<1>8. Drained'
  BY <1>1, <1>5, <1>6 DEF IInv, TypeOK, Drained, serverVars, connVars
<1>9. IdleNotMissed'
  BY <1>1, <1>7 DEF IInv, IdleNotMissed, serverVars
<1>10. JobsPlaced' /\ SlotsCounted'
  BY <1>1, ConnsStep DEF IInv, JobsPlaced, execVars
<1>11. QED
  BY <1>2, <1>4, <1>8, <1>9, <1>10 DEF IInv

\* An admitted job belongs to a request that is live already.
LEMMA AdmitStep ==
  ASSUME IInv, NEW r \in Request, Submit(r) \/ SseAdvance(r)
  PROVE  IInv'
<1>0. PICK n : n = next_ticket
  OBVIOUS
<1> DEFINE c == Exec!AdmissionClass
           e == [ticket |-> n, class |-> c]
<1>1. /\ task[r] \in Tracked /\ n < MaxTickets
      /\ queue' = Append(queue, e)
      /\ next_ticket' = n + 1
      /\ mine' = [mine EXCEPT ![r] = n]
      /\ of' = [of EXCEPT ![n] = r]
      /\ job' = [job EXCEPT ![n] = "queued"]
      /\ UNCHANGED <<running, open, serverVars, reason, notified, connVars, on, lease,
                     signalVars, exit>>
  BY <1>0 DEF Submit, SseAdvance, AdmitJob, Exec!Admit, Tracked
<1>2. task' \in {task, [task EXCEPT ![r] = "waiting"]}
  BY DEF Submit, SseAdvance
<1>3. c \in Exec!Class /\ e.ticket = n
  BY DEF Exec!AdmissionClass, Exec!Class
<1> HIDE DEF c
<1>4. n \in Exec!Ticket /\ n \in Nat /\ queue \in Seq(Entry)
  BY <1>0, <1>1, Constants, SMTT(30) DEF IInv, TypeOK, Entry
<1>5. e \in Entry
  BY <1>3, <1>4 DEF Entry
<1>6. job[n] = "none" /\ n \notin Tickets(queue)
  BY <1>0, <1>4, SMTT(30) DEF IInv, JobsPlaced
<1> HIDE DEF e
<1>7. /\ queue' \in Seq(Entry) /\ Distinct(queue')
      /\ Tickets(queue') = Tickets(queue) \cup {n}
  BY <1>1, <1>3, <1>4, <1>5, <1>6, Admitted, SMTT(30) DEF IInv, JobsPlaced
<1>8. \A q \in Request : /\ task'[q] \in Tracked <=> task[q] \in Tracked
                         /\ task[q] \in {"none", "done"} => task'[q] \in {"none", "done"}
  BY <1>1, <1>2 DEF IInv, TypeOK, Tracked
<1>9. TypeOK'
  <2>1. task' \in [Request -> {"none", "untracked", "done"} \cup Tracked]
    BY <1>2 DEF IInv, TypeOK, Tracked
  <2>2. /\ mine' \in [Request -> Exec!Ticket \cup {NoTicket}]
        /\ job' \in [Exec!Ticket -> {"none", "queued", "over"} \cup OnWorker]
        /\ of' \in [Exec!Ticket -> Request \cup {NoConn}]
    BY <1>1, <1>4 DEF IInv, TypeOK
  <2>3. next_ticket' \in 0 .. MaxTickets
    BY <1>1, <1>4, Constants, SMTT(30)
  <2>4. QED
    BY <1>1, <1>7, <2>1, <2>2, <2>3, SMTT(30) DEF IInv, TypeOK, Entry, serverVars, connVars, signalVars
<1>10. \A t \in Exec!Ticket : t # n => job'[t] = job[t] /\ of'[t] = of[t]
  BY <1>1 DEF IInv, TypeOK
<1>11. job'[n] = "queued" /\ of'[n] = r
  BY <1>1, <1>4 DEF IInv, TypeOK
<1>12. JobsPlaced'
  <2>1. \A t \in Exec!Ticket : t >= n + 1 <=> t >= n /\ t # n
    BY <1>4, Constants, SMTT(30)
  <2>2. \A t \in Tickets(queue') : job'[t] = "queued"
    BY <1>6, <1>7, <1>11, <1>1, SMTT(30) DEF IInv, TypeOK, JobsPlaced
  <2>3. \A q \in Request : mine'[q] # NoTicket => of'[mine'[q]] = q /\ job'[mine'[q]] # "none"
    <3>1. \A q \in Request : q # r => mine'[q] = mine[q]
      BY <1>1 DEF IInv, TypeOK
    <3>2. mine'[r] = n
      BY <1>1 DEF IInv, TypeOK
    <3>3. \A q \in Request : mine[q] \in Exec!Ticket \cup {NoTicket}
      BY DEF IInv, TypeOK
    <3>4. QED
      BY <1>6, <1>10, <1>11, <3>1, <3>2, <3>3, SMTT(30) DEF IInv, JobsPlaced
  <2>4. QED
    BY <1>0, <1>1, <1>7, <1>10, <1>11, <2>1, <2>2, <2>3, SMTT(30) DEF IInv, JobsPlaced
<1>13. CauseKept'
  <2>1. ~Untouched
    BY <1>1 DEF Untouched, Tracked
  <2>2. QED
    BY <1>1, <2>1, CauseStep DEF IInv, serverVars
<1>14. Live' = Live
  <2>1. \A q \in Request :
          (\E t \in Exec!Ticket : of'[t] = q /\ job'[t] \in Holding) <=>
            q = r \/ \E t \in Exec!Ticket : of[t] = q /\ job[t] \in Holding
    <3>1. job'[n] \in Holding /\ job[n] \notin Holding
      BY <1>6, <1>11 DEF Holding
    <3>2. QED
      BY <1>4, <1>10, <1>11, <3>1
  <2>2. QED
    BY <1>1, <1>8, <2>1 DEF Live
<1>15. Drained' /\ IdleNotMissed'
  <2>1. server # "hook"
    BY <1>1 DEF IInv, Drained, Tracked
  <2>2. QED
    BY <1>1, <1>8, <1>14, <2>1, DrainedStep DEF IInv, serverVars, connVars
<1>16. SlotsCounted'
  BY <1>1, ConnsStep DEF IInv
<1>17. QED
  BY <1>9, <1>12, <1>13, <1>15, <1>16, SMTT(30) DEF IInv

\* A request takes back the job it waits for, or finds that it is claimed.
LEMMA WithdrawFacts ==
  ASSUME IInv, NEW r \in Request, WithdrawJob(r), UNCHANGED <<of, mine>>
  PROVE  /\ queue' \in Seq(Entry)
         /\ job' \in [Exec!Ticket -> {"none", "queued", "over"} \cup OnWorker]
         /\ UNCHANGED <<running, next_ticket, open>>
         /\ \A t \in Exec!Ticket : job'[t] = job[t] \/ (of[t] = r /\ job'[t] = "over")
         /\ JobsPlaced'
         /\ task[r] \notin {"waiting", "streaming"} => queue' = queue
<1>1. CASE UNCHANGED <<execVars, job>>
  BY <1>1 DEF IInv, TypeOK, Entry, JobsPlaced, execVars
<1>2. CASE /\ task[r] \in {"waiting", "streaming"}
           /\ Exec!Withdraw(mine[r]) /\ job' = [job EXCEPT ![mine[r]] = "over"]
  <2>0. PICK m : m = mine[r]
    OBVIOUS
  <2>1. PICK i \in DOMAIN queue : queue[i].ticket = m /\ queue' = Without(queue, i)
    BY <1>2, <2>0 DEF Exec!Withdraw, Exec!RemoveAt, Without
  <2>2. UNCHANGED <<running, next_ticket, open>> /\ job' = [job EXCEPT ![m] = "over"]
    BY <1>2, <2>0 DEF Exec!Withdraw
  <2>3. queue \in Seq(Entry)
    BY DEF IInv, TypeOK, Entry
  <2>4. /\ queue' \in Seq(Entry) /\ Distinct(queue')
        /\ m \in Tickets(queue) /\ Tickets(queue') = Tickets(queue) \ {m}
    BY <2>1, <2>3, Withdrawn, SMTT(30) DEF IInv, JobsPlaced
  <2>5. m \in Exec!Ticket
    <3>1. queue[i] \in Entry
      BY <2>3, SMTT(30)
    <3>2. QED
      BY <2>1, <3>1 DEF Entry
  <2>6. of[m] = r /\ job[m] = "queued"
    BY <2>0, <2>4, <2>5, Constants DEF IInv, JobsPlaced
  <2>7. /\ \A t \in Exec!Ticket : job'[t] = IF t = m THEN "over" ELSE job[t]
        /\ job' \in [Exec!Ticket -> {"none", "queued", "over"} \cup OnWorker]
    BY <2>2 DEF IInv, TypeOK
  <2>8. JobsPlaced'
    <3>1. \A t \in Tickets(queue') : job'[t] = "queued"
      BY <2>2, <2>4, SMTT(30) DEF IInv, TypeOK, JobsPlaced
    <3>2. \A q \in Request : mine[q] # NoTicket => job'[mine[q]] # "none"
      BY <2>7, SMTT(30) DEF IInv, TypeOK, JobsPlaced
    <3>3. QED
      BY <2>2, <2>4, <2>6, <2>7, <3>1, <3>2 DEF IInv, JobsPlaced
  <2>9. QED
    BY <1>2, <2>2, <2>4, <2>6, <2>7, <2>8
<1>3. QED
  BY <1>1, <1>2 DEF WithdrawJob, Withdrawable

\* The queue deadline withdraws a job that still waits.
LEMMA QueueTimeoutStep ==
  ASSUME IInv, NEW r \in Request, QueueTimeout(r)
  PROVE  IInv'
<1>1. /\ task[r] \in {"waiting", "streaming"}
      /\ WithdrawJob(r)
      /\ task' = [task EXCEPT ![r] = "responding"]
      /\ UNCHANGED <<serverVars, reason, notified, connVars, on, mine, of, lease,
                     signalVars, exit>>
  BY DEF QueueTimeout, Withdrawable
<1>2. /\ queue' \in Seq(Entry)
      /\ job' \in [Exec!Ticket -> {"none", "queued", "over"} \cup OnWorker]
      /\ UNCHANGED <<running, next_ticket, open>>
      /\ \A t \in Exec!Ticket : job'[t] = job[t] \/ (of[t] = r /\ job'[t] = "over")
      /\ JobsPlaced'
  BY <1>1, WithdrawFacts
<1>3. TypeOK'
  BY <1>1, <1>2 DEF IInv, TypeOK, Tracked, Entry, serverVars, connVars, signalVars
<1>4. CauseKept'
  <2>1. ~Untouched
    BY <1>1 DEF Untouched
  <2>2. QED
    BY <1>1, <2>1, CauseStep DEF IInv, serverVars
<1>5. /\ \A q \in Request : /\ task'[q] \in Tracked <=> task[q] \in Tracked
                            /\ task[q] \in {"none", "done"} => task'[q] \in {"none", "done"}
      /\ task[r] \in Tracked /\ task'[r] \in Tracked
  BY <1>1 DEF IInv, TypeOK, Tracked
<1>6. Live' = Live
  BY <1>1, <1>2, <1>5, LiveKept
<1>7. Drained' /\ IdleNotMissed'
  <2>1. server # "hook"
    BY <1>1 DEF IInv, Drained
  <2>2. QED
    BY <1>1, <1>5, <1>6, <2>1, DrainedStep, SMTT(30) DEF IInv, serverVars, connVars
<1>8. SlotsCounted'
  BY <1>1, ConnsStep, SMTT(30) DEF IInv
<1>9. QED
  BY <1>2, <1>3, <1>4, <1>7, <1>8 DEF IInv

\* A task ends; its ActiveRequest may be the last.
LEMMA EndTaskStep ==
  ASSUME IInv, NEW r \in Request, EndTask(r)
  PROVE  IInv'
<1>1. /\ task[r] \in Tracked \cup {"untracked"}
      /\ WithdrawJob(r)
      /\ task' = [task EXCEPT ![r] = "done"]
      /\ lease' = [lease EXCEPT ![r] = IF @ = "body" THEN "body_drop" ELSE @]
      /\ UNCHANGED <<serverVars, reason, connVars, on, mine, of, signalVars, exit>>
      /\ NotifyIdle
  BY DEF EndTask, Tracked
<1>2. /\ queue' \in Seq(Entry)
      /\ job' \in [Exec!Ticket -> {"none", "queued", "over"} \cup OnWorker]
      /\ UNCHANGED <<running, next_ticket, open>>
      /\ \A t \in Exec!Ticket : job'[t] = job[t] \/ (of[t] = r /\ job'[t] = "over")
      /\ JobsPlaced'
  BY <1>1, WithdrawFacts
<1>3. /\ lease' \in [Request -> {"none", "thread", "body", "thread_drop", "body_drop"}]
      /\ \A q \in Request : lease'[q] \in {"thread", "body"} => lease[q] \in {"thread", "body"}
  BY <1>1 DEF IInv, TypeOK
<1>4. TypeOK'
  <2>1. notified' \in BOOLEAN
    BY <1>1 DEF NotifyIdle, IInv, TypeOK
  <2>2. task' \in [Request -> {"none", "untracked", "done"} \cup Tracked]
    BY <1>1 DEF IInv, TypeOK
  <2>3. QED
    BY <1>1, <1>2, <1>3, <2>1, <2>2, SMTT(30) DEF IInv, TypeOK, Entry, serverVars, connVars, signalVars
<1>5. CauseKept'
  <2>1. ~Untouched
    BY <1>1 DEF Untouched, Tracked
  <2>2. QED
    BY <1>1, <2>1, CauseStep DEF IInv, serverVars
<1>6. /\ \A q \in Request : /\ task'[q] \in Tracked => task[q] \in Tracked
                            /\ task[q] \in {"none", "done"} => task'[q] \in {"none", "done"}
  BY <1>1 DEF IInv, TypeOK, Tracked
<1>7. Live' \subseteq Live
  <2>1. \A t \in Exec!Ticket : job'[t] \in Holding => job[t] \in Holding
    BY <1>2 DEF Holding
  <2>2. QED
    BY <1>1, <1>3, <1>6, <2>1, SMTT(30) DEF Live
<1>8. Drained' /\ IdleNotMissed'
  <2>1. server # "hook"
    BY <1>1 DEF IInv, Drained, Tracked
  <2>2. QED
    BY <1>1, <1>6, <1>7, <2>1, DrainedStep, SMTT(30) DEF IInv, serverVars, connVars
<1>9. SlotsCounted'
  BY <1>1, ConnsStep, SMTT(30) DEF IInv
<1>10. QED
  BY <1>2, <1>4, <1>5, <1>8, <1>9 DEF IInv

\* The lease of a file transfer lets go of its ActiveRequest.
LEMMA FileStep ==
  ASSUME IInv, NEW r \in Request, FileBody(r) \/ FileWithoutBody(r)
  PROVE  IInv'
<1>1. /\ lease[r] = "thread"
      /\ UNCHANGED <<execVars, serverVars, reason, connVars, on, mine, job, of,
                     signalVars, exit>>
      /\ NotifyIdle
  BY DEF FileBody, FileWithoutBody
<1>2. /\ lease' \in {[lease EXCEPT ![r] = "body"], [lease EXCEPT ![r] = "thread_drop"]}
      /\ task' = task \/ (task[r] = "filing" /\ task' = [task EXCEPT ![r] = "responding"])
  BY DEF FileBody, FileWithoutBody
<1>3. /\ lease' \in [Request -> {"none", "thread", "body", "thread_drop", "body_drop"}]
      /\ \A q \in Request : lease'[q] \in {"thread", "body"} => lease[q] \in {"thread", "body"}
  BY <1>1, <1>2 DEF IInv, TypeOK
<1>4. /\ task' \in [Request -> {"none", "untracked", "done"} \cup Tracked]
      /\ \A q \in Request : /\ task'[q] \in Tracked => task[q] \in Tracked
                            /\ task[q] \in {"none", "done"} => task'[q] \in {"none", "done"}
  BY <1>2 DEF IInv, TypeOK, Tracked
<1>5. TypeOK'
  <2>1. notified' \in BOOLEAN
    BY <1>1 DEF NotifyIdle, IInv, TypeOK
  <2>2. QED
    BY <1>1, <1>3, <1>4, <2>1 DEF IInv, TypeOK, execVars, serverVars, connVars, signalVars
<1>6. CauseKept'
  <2>1. ~Untouched
    BY <1>1 DEF Untouched
  <2>2. QED
    BY <1>1, <2>1, CauseStep DEF IInv, serverVars
<1>7. Live' \subseteq Live
  BY <1>1, <1>3, <1>4 DEF Live
<1>8. Drained' /\ IdleNotMissed'
  BY <1>1, <1>4, <1>7, DrainedStep DEF IInv, execVars, serverVars, connVars
<1>9. JobsPlaced' /\ SlotsCounted'
  BY <1>1, ConnsStep DEF IInv, JobsPlaced, execVars
<1>10. QED
  BY <1>5, <1>6, <1>8, <1>9 DEF IInv

\* A lease that let go of its ActiveRequest is dropped.
LEMMA LeaseDroppedStep ==
  ASSUME IInv, NEW r \in Request, LeaseDropped(r)
  PROVE  IInv'
<1>1. /\ lease[r] \in {"thread_drop", "body_drop"}
      /\ lease' = [lease EXCEPT ![r] = "none"]
      /\ task' = [task EXCEPT ![r] = IF @ = "filing" THEN "responding" ELSE @]
      /\ UNCHANGED <<execVars, serverVars, reason, notified, connVars, on, mine, job,
                     of, signalVars, exit>>
  BY DEF LeaseDropped
<1>2. /\ task' \in [Request -> {"none", "untracked", "done"} \cup Tracked]
      /\ \A q \in Request : /\ task'[q] \in Tracked <=> task[q] \in Tracked
                            /\ task[q] \in {"none", "done"} => task'[q] \in {"none", "done"}
  BY <1>1 DEF IInv, TypeOK, Tracked
<1>3. TypeOK'
  BY <1>1, <1>2, SMTT(30) DEF IInv, TypeOK, execVars, serverVars, connVars, signalVars
<1>4. CauseKept'
  <2>1. ~Untouched
    BY <1>1 DEF Untouched
  <2>2. QED
    BY <1>1, <2>1, CauseStep DEF IInv, serverVars
<1>5. Live' = Live
  BY <1>1, <1>2, LiveKept, SMTT(30) DEF IInv, TypeOK
<1>6. Drained' /\ IdleNotMissed'
  BY <1>1, <1>2, <1>5, DrainedStep DEF IInv, execVars, serverVars, connVars
<1>7. JobsPlaced' /\ SlotsCounted'
  BY <1>1, ConnsStep DEF IInv, JobsPlaced, execVars
<1>8. QED
  BY <1>3, <1>4, <1>6, <1>7 DEF IInv

-----------------------------------------------------------------------------
(* Jobs.                                                                   *)

\* A worker claims the job at the head of the ring.
LEMMA StartJobStep ==
  ASSUME IInv, NEW t \in Exec!Ticket, StartJob(t)
  PROVE  IInv'
<1>1. /\ queue # <<>> /\ t = Head(queue).ticket
      /\ running' = running \cup {t} /\ queue' = Tail(queue)
      /\ UNCHANGED <<next_ticket, open, serverVars, reason, notified, connVars, task, on, mine,
                     of, lease, signalVars, exit>>
  BY DEF StartJob, Exec!Start
<1>2. PICK j \in {"claimed", "running"} : job' = [job EXCEPT ![t] = j]
  BY DEF StartJob
<1>3. queue \in Seq(Entry)
  BY DEF IInv, TypeOK, Entry
<1>4. /\ queue' \in Seq(Entry) /\ Distinct(queue')
      /\ t \in Tickets(queue) /\ Tickets(queue') = Tickets(queue) \ {t}
  BY <1>1, <1>3, Claimed DEF IInv, JobsPlaced
<1>5. job[t] = "queued" /\ \A u \in Exec!Ticket : job'[u] = IF u = t THEN j ELSE job[u]
  BY <1>2, <1>4, SMTT(30) DEF IInv, TypeOK, JobsPlaced
<1>6. TypeOK'
  BY <1>1, <1>2, <1>4 DEF IInv, TypeOK, Entry, OnWorker, serverVars, connVars, signalVars
<1>7. JobsPlaced'
  <2>1. \A u \in Tickets(queue') : job'[u] = "queued"
    BY <1>2, <1>4, SMTT(30) DEF IInv, TypeOK, JobsPlaced
  <2>2. \A q \in Request : mine[q] # NoTicket => job'[mine[q]] # "none"
    BY <1>5, SMTT(30) DEF IInv, TypeOK, JobsPlaced
  <2>3. QED
    BY <1>1, <1>4, <1>5, <2>1, <2>2 DEF IInv, JobsPlaced
<1>8. CauseKept'
  <2>1. ~Untouched
    BY <1>1 DEF Untouched
  <2>2. QED
    BY <1>1, <2>1, CauseStep DEF IInv, serverVars
<1>9. Live' = Live
  <2>1. \A u \in Exec!Ticket : job'[u] \in Holding <=> job[u] \in Holding
    BY <1>5 DEF Holding
  <2>2. QED
    BY <1>1, <2>1, LiveKept, SMTT(30)
<1>10. Drained' /\ IdleNotMissed'
  <2>1. server # "hook"
    BY <1>1 DEF IInv, Drained
  <2>2. QED
    BY <1>1, <1>9, <2>1, DrainedStep, SMTT(30) DEF IInv, serverVars, connVars
<1>11. SlotsCounted'
  BY <1>1, ConnsStep DEF IInv
<1>12. QED
  BY <1>6, <1>7, <1>8, <1>10, <1>11, SMTT(30) DEF IInv

\* A claimed job goes on and never comes back to the ring; a step in which it
\* lets go of its ActiveRequest notifies.
LEMMA ClaimedJobStep ==
  ASSUME IInv, NEW t \in Exec!Ticket, job[t] \in OnWorker,
         NEW j \in OnWorker \cup {"over"}, job' = [job EXCEPT ![t] = j],
         running' \subseteq running,
         UNCHANGED <<queue, next_ticket, open, serverVars, reason, connVars, task, on, mine, of,
                     lease, signalVars, exit>>,
         \/ (j \in Holding <=> job[t] \in Holding) /\ UNCHANGED notified
         \/ (j \in Holding => job[t] \in Holding) /\ NotifyIdle
  PROVE  IInv'
<1>1. \A u \in Exec!Ticket : job'[u] = IF u = t THEN j ELSE job[u]
  BY DEF IInv, TypeOK
<1>2. TypeOK'
  <2>1. notified' \in BOOLEAN
    BY DEF IInv, TypeOK, NotifyIdle
  <2>2. job' \in [Exec!Ticket -> {"none", "queued", "over"} \cup OnWorker]
    BY DEF IInv, TypeOK
  <2>3. QED
    BY <2>1, <2>2 DEF IInv, TypeOK, serverVars, connVars, signalVars
<1>3. JobsPlaced'
  <2>1. t \notin Tickets(queue)
    BY DEF IInv, JobsPlaced, OnWorker
  <2>2. \A u \in Tickets(queue) : job'[u] = "queued"
    BY <2>1, SMTT(30) DEF IInv, TypeOK, JobsPlaced
  <2>3. \A q \in Request : mine[q] # NoTicket => job'[mine[q]] # "none"
    BY <1>1, SMTT(30) DEF IInv, TypeOK, JobsPlaced, OnWorker
  <2>4. QED
    BY <1>1, <2>2, <2>3, SMTT(30) DEF IInv, JobsPlaced, OnWorker
<1>4. CauseKept'
  <2>1. ~Untouched
    BY DEF Untouched, OnWorker
  <2>2. QED
    BY <2>1, CauseStep DEF IInv, serverVars
<1>5. \/ Live' = Live /\ UNCHANGED notified
      \/ Live' \subseteq Live /\ NotifyIdle
  <2>1. CASE (j \in Holding <=> job[t] \in Holding) /\ UNCHANGED notified
    BY <1>1, <2>1, LiveKept
  <2>2. CASE (j \in Holding => job[t] \in Holding) /\ NotifyIdle
    BY <1>1, <2>2 DEF Live
  <2>3. QED
    BY <2>1, <2>2
<1>6. Drained' /\ IdleNotMissed'
  BY <1>5, DrainedStep DEF IInv, serverVars, connVars
<1>7. SlotsCounted'
  BY ConnsStep DEF IInv
<1>8. QED
  BY <1>2, <1>3, <1>4, <1>6, <1>7 DEF IInv

\* A job is claimed, runs or is skipped, retires, answers and is dropped.
LEMMA JobStep ==
  ASSUME IInv, NEW t \in Exec!Ticket,
         StartJob(t) \/ RunOrSkip(t) \/ RetireJob(t) \/ SendResult(t) \/ DropJob(t)
  PROVE  IInv'
<1>1. CASE RunOrSkip(t)
  <2>1. PICK j \in {"skipped", "running"} : job' = [job EXCEPT ![t] = j]
    BY <1>1 DEF RunOrSkip
  <2>2. QED
    BY <1>1, <2>1, ClaimedJobStep DEF RunOrSkip, execVars, OnWorker, Holding
<1>2. CASE RetireJob(t)
  <2>1. /\ running' \subseteq running /\ UNCHANGED <<queue, next_ticket, open>>
        /\ job' = [job EXCEPT ![t] = IF job[t] = "skipped" THEN "over" ELSE "retired"]
    BY <1>2 DEF RetireJob, Exec!Finish
  <2>2. QED
    BY <1>2, <2>1, ClaimedJobStep DEF RetireJob, OnWorker, Holding
<1>3. CASE SendResult(t)
  BY <1>3, ClaimedJobStep DEF SendResult, execVars, OnWorker, Holding
<1>4. CASE DropJob(t)
  BY <1>4, ClaimedJobStep DEF DropJob, execVars, OnWorker, Holding
<1>5. QED
  BY <1>1, <1>2, <1>3, <1>4, StartJobStep, SMTT(30)

-----------------------------------------------------------------------------
(* Connections and signals.                                                *)

\* A step on the connections, with the runtime still there, that keeps the
\* slots counted; `free_slots` then stays within its bounds.
LEMMA ConnStep ==
  ASSUME IInv, server \notin {"starting", "binding", "returned", "executor", "hook"},
         ~Untouched \/ returned = "none",
         conn' \in [Conn -> {"none", "open", "draining", "ending", "closed"}],
         reserved' \in BOOLEAN, free_slots' \in Nat, SlotsCounted',
         UNCHANGED <<execVars, serverVars, reason, notified, requestVars, signalVars, exit>>
  PROVE  IInv'
<1>1. TypeOK'
  <2>1. Cardinality(Served') \in Nat
    BY Constants DEF Served
  <2>2. free_slots' \in 0 .. MaxConnections
    BY <2>1, Constants, SMTT(30) DEF SlotsCounted
  <2>3. QED
    BY <2>2, SMTT(30) DEF IInv, TypeOK, execVars, serverVars, requestVars, signalVars
<1>2. Live' = Live
  BY DEF Live, requestVars
<1>3. JobsPlaced' /\ CauseKept'
  BY DEF IInv, JobsPlaced, CauseKept, execVars, serverVars, requestVars
<1>4. Drained' /\ IdleNotMissed'
  BY <1>2 DEF IInv, Drained, IdleNotMissed, serverVars, requestVars
<1>5. QED
  BY <1>1, <1>3, <1>4 DEF IInv

\* A permit goes from the semaphore to the reserved slot, to a connection task
\* and back; the states a connection task goes through keep its permit.
LEMMA ConnectionStep ==
  ASSUME IInv, Connections
  PROVE  IInv'
<1>1. IsFiniteSet(Served) /\ Cardinality(Served) \in Nat
  BY Constants DEF Served
<1>2. free_slots \in Nat /\ reserved \in BOOLEAN
  BY Constants, SMTT(30) DEF IInv, TypeOK
<1>3. CASE ReserveSlot
  <2>1. SlotsCounted'
    BY <1>1, <1>2, <1>3, Constants, SMTT(30) DEF ReserveSlot, IInv, SlotsCounted, Served
  <2>2. QED
    BY <1>2, <1>3, <2>1, ConnStep, SMTT(30) DEF ReserveSlot, IInv, TypeOK, CauseKept
<1>4. ASSUME NEW c \in Conn, Accept(c) PROVE IInv'
  <2>1. Served' = Served \cup {c} /\ c \notin Served
    BY <1>4, SMTT(30) DEF Accept, Served, IInv, TypeOK
  <2>2. Cardinality(Served') = Cardinality(Served) + 1
    BY <1>1, <2>1, FS_AddElement
  <2>3. SlotsCounted'
    BY <1>1, <1>2, <1>4, <2>2, Constants, SMTT(30) DEF Accept, IInv, SlotsCounted
  <2>4. QED
    BY <1>2, <1>4, <2>3, ConnStep DEF Accept, IInv, TypeOK, CauseKept
<1>5. ASSUME NEW c \in Conn, c \in Served
      PROVE  server \notin {"starting", "binding", "returned", "executor", "hook"} /\ ~Untouched
  BY <1>5 DEF Served, IInv, CauseKept, Drained, Untouched
<1>6. ASSUME NEW c \in Conn, ConnDrains(c) \/ ConnFails(c) PROVE IInv'
  <2>1. Served' = Served /\ c \in Served
    BY <1>6 DEF ConnDrains, ConnFails, Served, IInv, TypeOK
  <2>2. SlotsCounted'
    BY <1>6, <2>1, SMTT(30) DEF ConnDrains, ConnFails, IInv, SlotsCounted
  <2>3. conn' \in [Conn -> {"none", "open", "draining", "ending", "closed"}]
    BY <1>6 DEF ConnDrains, ConnFails, IInv, TypeOK
  <2>4. UNCHANGED <<execVars, serverVars, reason, notified, reserved, free_slots, requestVars,
                    signalVars, exit>>
    BY <1>6 DEF ConnDrains, ConnFails
  <2>5. QED
    BY <1>2, <1>5, <2>1, <2>2, <2>3, <2>4, ConnStep
<1>7. ASSUME NEW c \in Conn, ConnEnds(c) PROVE IInv'
  <2>1. Served' = Served \ {c} /\ c \in Served
    BY <1>7 DEF ConnEnds, Served, IInv, TypeOK
  <2>2. Cardinality(Served') = Cardinality(Served) - 1
    BY <1>1, <2>1, FS_RemoveElement
  <2>3. SlotsCounted'
    BY <1>1, <1>2, <1>7, <2>2, Constants, SMTT(30) DEF ConnEnds, IInv, SlotsCounted
  <2>4. conn' \in [Conn -> {"none", "open", "draining", "ending", "closed"}]
    BY <1>7 DEF ConnEnds, IInv, TypeOK
  <2>5. /\ free_slots' \in Nat /\ reserved' \in BOOLEAN
        /\ UNCHANGED <<execVars, serverVars, reason, notified, requestVars, signalVars, exit>>
    BY <1>2, <1>7, SMTT(30) DEF ConnEnds
  <2>6. QED
    BY <1>5, <2>1, <2>3, <2>4, <2>5, ConnStep
<1>8. QED
  BY <1>3, <1>4, <1>6, <1>7 DEF Connections

\* The first signal: it becomes the cause only if there is none.
LEMMA SignalStep ==
  ASSUME IInv, NEW s \in Signals, Signal(s)
  PROVE  IInv'
<1>1. /\ watching /\ seen_one' = TRUE
      /\ reason' = reason \/ (reason = "none" /\ reason' = s)
      /\ UNCHANGED <<execVars, serverVars, notified, connVars, requestVars, watching, exit>>
  BY DEF Signal, RequestShutdown
<1>2. TypeOK'
  BY <1>1, SMTT(30) DEF IInv, TypeOK, Causes, execVars, serverVars, connVars, requestVars
<1>3. CauseKept'
  <2>1. ~Untouched
    BY <1>1 DEF Untouched
  <2>2. QED
    BY <1>1, <2>1, CauseStep DEF IInv, serverVars
<1>4. Live' = Live
  BY <1>1 DEF Live, requestVars
<1>5. Drained' /\ IdleNotMissed'
  BY <1>1, <1>4 DEF IInv, Drained, IdleNotMissed, serverVars, connVars, requestVars, execVars
<1>6. JobsPlaced' /\ SlotsCounted'
  BY <1>1, ConnsStep DEF IInv, JobsPlaced, execVars, requestVars
<1>7. QED
  BY <1>2, <1>3, <1>5, <1>6, SMTT(30) DEF IInv

-----------------------------------------------------------------------------
(* The main thread.                                                        *)

\* Before the first connection no request is live.
LEMMA UntouchedIdle == ASSUME Untouched PROVE Live = {}
BY DEF Untouched, Live, Tracked, Holding

\* A step of the main thread that leaves tasks, jobs, leases and connections
\* alone: what is left to show is its own phase.
LEMMA PhaseStep ==
  ASSUME IInv, server' \in Phases, returned' \in Causes \cup {"none"},
         {open, accepting, notified, watching}' \subseteq BOOLEAN,
         UNCHANGED <<queue, running, next_ticket, reason, connVars, requestVars, seen_one, exit>>,
         CauseKept', Drained', IdleNotMissed'
  PROVE  IInv'
<1>1. TypeOK'
  BY SMTT(30) DEF IInv, TypeOK, connVars, requestVars
<1>2. JobsPlaced' /\ SlotsCounted'
  BY ConnsStep DEF IInv, JobsPlaced, requestVars
<1>3. QED
  BY <1>1, <1>2 DEF IInv

\* Starting up, or failing to.
LEMMA StartStep ==
  ASSUME IInv, StartupFails \/ StartRuntime \/ Bind
  PROVE  IInv'
<1>1. /\ server \in {"starting", "binding"}
      /\ UNCHANGED <<execVars, accepting, reason, notified, connVars, requestVars, seen_one, exit>>
      /\ \/ server' = "binding" /\ UNCHANGED <<returned, watching>>
         \/ server' = "accepting" /\ watching' = TRUE /\ UNCHANGED returned
         \/ /\ server' \in {"executor", "hook"} /\ UNCHANGED watching
            /\ returned' \in {"StartupFailed", "RuntimeFailed"}
  BY DEF StartupFails, StartRuntime, Bind, signalVars
<1>2. Untouched /\ returned = "none"
  BY <1>1 DEF IInv, CauseKept
<1>3. Live = {} /\ Live' = {}
  <2>1. Live' = Live
    BY <1>1 DEF Live, requestVars
  <2>2. QED
    BY <1>2, <2>1, UntouchedIdle
<1>4. CauseKept'
  BY <1>1, <1>2, SMTT(30) DEF CauseKept, Untouched, execVars, connVars, requestVars
<1>5. Drained' /\ IdleNotMissed'
  BY <1>1, <1>2, <1>3, SMTT(30) DEF Untouched, Drained, IdleNotMissed, execVars, connVars, requestVars
<1>6. /\ server' \in Phases /\ returned' \in Causes \cup {"none"}
      /\ {open, accepting, notified, watching}' \subseteq BOOLEAN
  BY <1>1 DEF IInv, TypeOK, Phases, Causes, execVars
<1>7. QED
  BY <1>1, <1>4, <1>5, <1>6, PhaseStep DEF execVars

\* The accept loop ends with the cause that was requested, and the drain
\* begins.
LEMMA StopStep ==
  ASSUME IInv, BreakLoop \/ StopAdmission \/ DrainRoutes \/ DrainRequests
  PROVE  IInv'
<1>1. /\ server \in {"accepting", "stop_admission", "drain_routes", "drain_requests"}
      /\ server' \in {"stop_admission", "drain_routes", "drain_requests", "register"}
      /\ returned' = returned \/ returned' = reason
      /\ open' = open \/ open' = FALSE
      /\ accepting' = FALSE \/ (accepting' = accepting /\ server' # "register")
      /\ UNCHANGED <<queue, running, next_ticket, reason, notified, connVars, requestVars,
                     signalVars, exit>>
  BY DEF BreakLoop, StopAdmission, DrainRoutes, DrainRequests, Exec!Close, execVars
<1>2. CauseKept'
  BY <1>1 DEF IInv, CauseKept, Untouched, connVars, requestVars, signalVars
<1>3. Drained' /\ IdleNotMissed'
  BY <1>1, SMTT(30) DEF Drained, IdleNotMissed
<1>4. /\ server' \in Phases /\ returned' \in Causes \cup {"none"}
      /\ {open, accepting, notified, watching}' \subseteq BOOLEAN
  BY <1>1 DEF IInv, TypeOK, Phases, signalVars
<1>5. QED
  BY <1>1, <1>2, <1>3, <1>4, PhaseStep DEF signalVars

\* wait_for_idle, and the join of the connection tasks: the main thread goes
\* on only from a count of zero, which no request can raise any more.
LEMMA IdleStep ==
  ASSUME IInv, IdleRegister \/ IdleCheck \/ IdleWake \/ JoinConnections
  PROVE  IInv'
<1>1. /\ server \in {"register", "check", "asleep", "join"}
      /\ server' \in {"register", "check", "asleep", "join", "returned"}
      /\ server' = "join" => Live = {}
      /\ server' = "asleep" => Live # {}
      /\ server' = "returned" => /\ server = "join"
                                 /\ \A c \in Conn : conn[c] \in {"none", "closed"}
      /\ notified' = notified \/ notified' = FALSE
      /\ UNCHANGED <<execVars, returned, accepting, reason, connVars, requestVars, signalVars, exit>>
  BY DEF IdleRegister, IdleCheck, IdleWake, JoinConnections
<1>2. Live' = Live
  BY <1>1 DEF Live, requestVars
<1>3. CauseKept'
  BY <1>1 DEF IInv, CauseKept, Untouched, execVars, connVars, requestVars, signalVars
<1>4. Drained' /\ IdleNotMissed'
  BY <1>1, <1>2 DEF IInv, Drained, IdleNotMissed, connVars
<1>5. /\ server' \in Phases /\ returned' \in Causes \cup {"none"}
      /\ {open, accepting, notified, watching}' \subseteq BOOLEAN
  BY <1>1 DEF IInv, TypeOK, Phases, execVars, signalVars
<1>6. QED
  BY <1>1, <1>3, <1>4, <1>5, PhaseStep DEF execVars, signalVars

\* Dropping the runtime drops the tasks, and their references with them.
LEMMA DropRuntimeStep ==
  ASSUME IInv, DropRuntime
  PROVE  IInv'
<1>1. /\ server = "returned" /\ server' = "executor" /\ watching' = FALSE
      /\ task' = [r \in Request |-> IF task[r] = "none" THEN "none" ELSE "done"]
      /\ lease' = [r \in Request |-> IF lease[r] = "body_drop" THEN "none" ELSE lease[r]]
      /\ UNCHANGED <<execVars, returned, accepting, reason, notified, connVars, on, mine, job,
                     of, seen_one, exit>>
  BY DEF DropRuntime
<1>2. TypeOK'
  <2>1. /\ task' \in [Request -> {"none", "untracked", "done"} \cup Tracked]
        /\ lease' \in [Request -> {"none", "thread", "body", "thread_drop", "body_drop"}]
    BY <1>1 DEF IInv, TypeOK
  <2>2. QED
    BY <1>1, <2>1 DEF IInv, TypeOK, Phases, execVars, connVars
<1>3. Live' = {}
  <2>1. Live' \subseteq Live
    BY <1>1 DEF Live, Tracked
  <2>2. QED
    BY <1>1, <2>1, SMTT(30) DEF IInv, Drained
<1>4. CauseKept'
  BY <1>1 DEF IInv, CauseKept, Untouched, execVars, connVars
<1>5. Drained' /\ IdleNotMissed'
  BY <1>1, <1>3, SMTT(30) DEF IInv, Drained, IdleNotMissed, connVars
<1>6. JobsPlaced' /\ SlotsCounted'
  BY <1>1, ConnsStep DEF IInv, JobsPlaced, execVars
<1>7. QED
  BY <1>2, <1>4, <1>5, <1>6 DEF IInv

\* The executor's threads are joined once no job is left.
LEMMA ExecutorShutdownStep ==
  ASSUME IInv, ExecutorShutdown
  PROVE  IInv'
<1>1. /\ server = "executor" /\ server' = "hook" /\ queue = <<>> /\ running = {}
      /\ open' = FALSE
      /\ UNCHANGED <<queue, running, next_ticket, returned, accepting, reason, notified,
                     connVars, requestVars, signalVars, exit>>
  BY DEF ExecutorShutdown
<1>2. Live' = Live
  BY <1>1 DEF Live, requestVars
<1>3. CauseKept'
  BY <1>1 DEF IInv, CauseKept, Untouched, connVars, requestVars, signalVars
<1>4. Drained' /\ IdleNotMissed'
  BY <1>1, <1>2 DEF IInv, Drained, IdleNotMissed, connVars, requestVars
<1>5. /\ server' \in Phases /\ returned' \in Causes \cup {"none"}
      /\ {open, accepting, notified, watching}' \subseteq BOOLEAN
  BY <1>1 DEF IInv, TypeOK, Phases, signalVars
<1>6. QED
  BY <1>1, <1>3, <1>4, <1>5, PhaseStep DEF signalVars

-----------------------------------------------------------------------------
(* The first state, and the exit that takes the process's memory with it.  *)

ExitCodes == {NoExit, 1, 130, 143, AppCode, HookCode, InitCode}

\* Nothing is there: not yet, or not any more.
Fresh ==
  /\ queue = <<>> /\ running = {} /\ next_ticket = 0 /\ open = TRUE
  /\ reason = "none" /\ returned = "none" /\ accepting = TRUE /\ notified = FALSE
  /\ reserved = FALSE /\ free_slots = MaxConnections
  /\ conn = [c \in Conn |-> "none"]
  /\ task = [r \in Request |-> "none"]
  /\ on = [r \in Request |-> NoConn]
  /\ mine = [r \in Request |-> NoTicket]
  /\ job = [t \in Exec!Ticket |-> "none"]
  /\ of = [t \in Exec!Ticket |-> NoConn]
  /\ lease = [r \in Request |-> "none"]
  /\ watching = FALSE /\ seen_one = FALSE
  /\ server \in {"starting", "over"}
  /\ exit \in ExitCodes

\* The invariant holds where nothing is there.
LEMMA FreshHolds == Fresh => IInv
<1> SUFFICES ASSUME Fresh PROVE IInv
  OBVIOUS
<1>1. TypeOK
  <2>1. queue \in Seq([ticket : Exec!Ticket, class : Exec!Class]) /\ running \subseteq Exec!Ticket
    BY SMTT(30) DEF Fresh
  <2>2. /\ conn \in [Conn -> {"none", "open", "draining", "ending", "closed"}]
        /\ task \in [Request -> {"none", "untracked", "done"} \cup Tracked]
        /\ on \in [Request -> Conn \cup {NoConn}]
        /\ mine \in [Request -> Exec!Ticket \cup {NoTicket}]
    BY DEF Fresh
  <2>3. /\ job \in [Exec!Ticket -> {"none", "queued", "over"} \cup OnWorker]
        /\ of \in [Exec!Ticket -> Request \cup {NoConn}]
        /\ lease \in [Request -> {"none", "thread", "body", "thread_drop", "body_drop"}]
    BY DEF Fresh
  <2>4. next_ticket \in 0 .. MaxTickets /\ free_slots \in 0 .. MaxConnections
    BY Constants, SMTT(30) DEF Fresh
  <2>5. {open, accepting, notified, reserved, watching, seen_one} \subseteq BOOLEAN
    BY DEF Fresh
  <2>6. server \in Phases /\ {reason, returned} \subseteq Causes \cup {"none"}
    BY DEF Fresh, Phases
  <2>7. QED
    BY <2>1, <2>2, <2>3, <2>4, <2>5, <2>6 DEF Fresh, TypeOK, ExitCodes
<1>2. JobsPlaced
  <2>1. Distinct(queue) /\ Tickets(queue) = {}
    BY SMTT(30) DEF Fresh, Distinct, Tickets
  <2>2. QED
    BY <2>1, Constants, SMTT(30) DEF Fresh, JobsPlaced
<1>3. Untouched
  BY DEF Fresh, Untouched
<1>4. CauseKept /\ Drained /\ IdleNotMissed
  BY <1>3 DEF Fresh, CauseKept, Drained, IdleNotMissed
<1>5. SlotsCounted
  <2>1. Served = {}
    BY DEF Fresh, Served
  <2>2. QED
    BY <2>1, FS_EmptySet, Constants, SMTT(30) DEF Fresh, SlotsCounted
<1>6. QED
  BY <1>1, <1>2, <1>4, <1>5 DEF IInv

\* Every way out of the process, by its own return, a deadline or a second
\* signal.
LEMMA ExitStep ==
  ASSUME IInv, InitFails \/ DrainTimeout \/ HookReturns \/ HookTimeout \/ SecondSignal
  PROVE  IInv'
<1>1. default_exit_code(returned) \in ExitCodes
  BY SMTT(30) DEF default_exit_code, ExitCodes
<1>2. \E code \in ExitCodes : Exit(code)
  BY <1>1, SMTT(30) DEF InitFails, DrainTimeout, HookReturns, HookTimeout, SecondSignal, ExitCodes
<1>3. Fresh'
  BY <1>2 DEF Exit, Fresh
<1>4. Fresh' => IInv'
  BY FreshHolds, PTL
<1>5. QED
  BY <1>3, <1>4

\* The invariant holds when start_inner begins.
LEMMA InitHolds == Init => IInv
<1>1. Init => Fresh
  BY DEF Init, Fresh, ExitCodes
<1>2. QED
  BY <1>1, FreshHolds

\* Every step of the specification preserves the invariant.
LEMMA StepHolds == IInv /\ [Next]_vars => IInv'
<1> SUFFICES ASSUME IInv, [Next]_vars PROVE IInv'
  OBVIOUS
<1>1. CASE UNCHANGED vars
  <2>1. UNCHANGED <<queue, running, next_ticket, open, server, returned, accepting, reason,
                    notified, reserved, free_slots, conn, task, on, mine, job, of, lease,
                    watching, seen_one, exit>>
    BY <1>1 DEF vars, execVars, serverVars, connVars, requestVars, signalVars
  <2>2. Live' = Live /\ TypeOK' /\ JobsPlaced'
    BY <2>1, SMTT(30) DEF Live, IInv, TypeOK, JobsPlaced
  <2>3. CauseKept' /\ SlotsCounted'
    BY <2>1 DEF IInv, CauseKept, Untouched, SlotsCounted, Served
  <2>4. Drained' /\ IdleNotMissed'
    BY <2>1, <2>2 DEF IInv, Drained, IdleNotMissed
  <2>5. QED
    BY <2>2, <2>3, <2>4 DEF IInv
<1>2. CASE Main
  BY <1>2, ExitStep, StartStep, StopStep, IdleStep, DropRuntimeStep, ExecutorShutdownStep
  DEF Main
<1>3. CASE DrainTimeout \/ HookReturns \/ HookTimeout \/ SecondSignal
  BY <1>3, ExitStep
<1>4. CASE (\E s \in Signals : Signal(s)) \/ Connections
  BY <1>4, SignalStep, ConnectionStep
<1>5. CASE Requests
  BY <1>5, ArriveStep, AdmitStep, RespondStep, StartFileStep, QueueTimeoutStep, EndTaskStep,
     FileStep, LeaseDroppedStep
  DEF Requests
<1>6. CASE Jobs
  BY <1>6, JobStep DEF Jobs
<1>7. QED
  BY <1>1, <1>2, <1>3, <1>4, <1>5, <1>6 DEF Next, Terminated

-----------------------------------------------------------------------------
(* The theorems.                                                           *)

\* The invariant holds in every reachable state, from start_inner to the exit.
THEOREM Invariance == Spec => []IInv
BY InitHolds, StepHolds, PTL DEF Spec

\* The shutdown hook, which consumes the application's context, runs alone:
\* no job, live request, request task or connection is left, however many
\* connections, requests, jobs and signals there were.
THEOREM HookNeverShares == Spec => []HookRunsAlone
<1>1. IInv => HookRunsAlone
  BY DEF IInv, Drained, HookRunsAlone
<1>2. QED
  BY <1>1, Invariance, PTL

\* wait_for_idle never sleeps on a count of zero without its notification.
THEOREM IdleNeverMissed == Spec => []IdleNotMissed
<1>1. IInv => IdleNotMissed
  BY DEF IInv
<1>2. QED
  BY <1>1, Invariance, PTL

\* The hook and the exit code get the first cause, whatever signals and
\* StopAfter responses arrive later.
THEOREM FirstCauseKept == Spec => []FirstCauseWins
<1>1. IInv => FirstCauseWins
  BY DEF IInv, CauseKept, Untouched, FirstCauseWins
<1>2. QED
  BY <1>1, Invariance, PTL

\* max_connections bounds the connection tasks and the reserved slot together,
\* and every permit comes back, for every limit.
THEOREM SlotsNeverLost == Spec => []ConnectionSlots
<1>1. IInv => ConnectionSlots
  BY DEF IInv, SlotsCounted, Served, ConnectionSlots
<1>2. QED
  BY <1>1, Invariance, PTL
=============================================================================
