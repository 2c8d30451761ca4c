-------------------------- MODULE RocDispatchProofs --------------------------
(***************************************************************************)
(* Proofs about RocDispatch, for any finite set of requests, any number of *)
(* workers and any number of waiting places.                               *)
(***************************************************************************)
EXTENDS RocDispatch, AdmissionQueueLemmas, FiniteSetTheorems

Entry == [ticket : Exec!Ticket, class : Exec!Class]

\* The executor and the requests agree on where each job is: a ticket belongs
\* to one request, the ring has exactly the queued jobs, and the executor's
\* `running` exactly the jobs between their claim and their retirement.
JobsPlaced ==
  /\ Distinct(queue)
  /\ \A r \in Request : ticket[r] = NoTicket <=> job[r] = "none"
  /\ \A r \in Request : ticket[r] < next_ticket
  /\ \A r, q \in Request : ticket[r] = ticket[q] /\ ticket[r] # NoTicket => r = q
  /\ \A r \in Request : job[r] = "queued" =>
       [ticket |-> ticket[r], class |-> class[r]] \in Entries(queue)
  /\ \A e \in Entries(queue) : \E r \in Request :
       job[r] = "queued" /\ ticket[r] = e.ticket /\ class[r] = e.class
  /\ \A r \in Request : ticket[r] \in running <=> job[r] \in {"claimed", "running", "finished"}
  /\ \A t \in running : \E r \in Request : ticket[r] = t

\* What the caller, its oneshot and its job say of each other.
CallerKnows(r) ==
  /\ caller[r] \in {"new", "overloaded", "unavailable"} <=> job[r] = "none"
  /\ caller[r] = "timed_out" => job[r] = "dropped"
  /\ job[r] = "dropped" => caller[r] \in {"timed_out", "leaving", "gone"}
  /\ caller[r] \in {"queued", "expiring", "leaving"} => class[r] = "Queued"
  /\ receiver[r] = "closed" <=> caller[r] = "gone"
  /\ job[r] # "none" => class[r] \in Exec!Class
  /\ ran[r] => job[r] \in {"running", "finished", "retired", "done"}
  /\ outcome[r] # "none" <=> job[r] \in {"finished", "retired", "done"}
  /\ outcome[r] = "skipped" => receiver[r] = "closed" /\ class[r] = "Queued"
  /\ outcome[r] \in {"ok", "panic"} => ran[r] /\ expired[r]
  /\ job[r] = "running" => ran[r]
  /\ result[r] = "lost" => outcome[r] = "skipped"
  /\ result[r] \in {"ok", "panic"} => job[r] = "done" /\ outcome[r] = result[r]
  /\ caller[r] # "lost"

CallersKnow == \A r \in Request : CallerKnows(r)

\* The requests that each gauge counts.
CountedActive ==
  {r \in Request : \/ class[r] = "Active" /\ job[r] \in {"queued", "claimed"}
                   \/ job[r] = "running"}
CountedQueued ==
  {r \in Request : /\ class[r] = "Queued"
                   /\ \/ job[r] \in {"queued", "claimed"}
                      \/ outcome[r] = "skipped" /\ job[r] \in {"finished", "retired"}}
GaugesCount ==
  /\ active_handlers = Cardinality(CountedActive)
  /\ queued_handlers = Cardinality(CountedQueued)

\* The executor has a worker for every Active entry of the ring.
WorkersLeft ==
  /\ IsFiniteSet(running) /\ Cardinality(running) <= Workers
  /\ Covered(queue, Cardinality(running), Workers)

IInv == TypeOK /\ JobsPlaced /\ CallersKnow /\ GaugesCount /\ WorkersLeft

-----------------------------------------------------------------------------
(* Facts that several steps need.                                          *)

\* Zenon proves most leaves; the ones that need arithmetic, records or sequences
\* name SMT.
USE ZenonT(60)

\* What the assumption says of the tickets and the limits.
LEMMA Constants ==
  /\ MaxTickets \in Nat /\ Workers \in Nat /\ Waiting \in Nat
  /\ Exec!Ticket = 0 .. MaxTickets - 1
  /\ \A S \in SUBSET Request : IsFiniteSet(S) /\ Cardinality(S) \in Nat
BY DispatchAssumption, FS_CardinalityType, FS_Subset DEF MaxTickets, Exec!Ticket

\* The instance of AdmissionControl counts with the same Cardinality.
LEMMA SameCardinality == \A S : Exec!Cardinality(S) = Cardinality(S)
BY Zenon DEF Exec!Cardinality, Cardinality

\* A step that changes nothing but callers and their receivers.
LEMMA CallerStep ==
  ASSUME JobsPlaced, GaugesCount, WorkersLeft,
         UNCHANGED <<execVars, ticket, class, jobVars>>
  PROVE  JobsPlaced' /\ GaugesCount' /\ WorkersLeft'
<1>1. CountedActive' = CountedActive /\ CountedQueued' = CountedQueued
  BY DEF CountedActive, CountedQueued, jobVars
<1>2. JobsPlaced'
  BY DEF JobsPlaced, execVars, jobVars
<1>3. GaugesCount'
  BY <1>1 DEF GaugesCount, jobVars
<1>4. WorkersLeft'
  BY DEF WorkersLeft, execVars
<1>5. QED
  BY <1>2, <1>3, <1>4

\* A step of the job r on its worker that neither claims nor retires it.
LEMMA WorkerStep ==
  ASSUME TypeOK, JobsPlaced, WorkersLeft, NEW r \in Request,
         UNCHANGED <<execVars, ticket, class>>,
         NEW j, job' = [job EXCEPT ![r] = j],
         \/ job[r] \in {"claimed", "running", "finished"} /\ j \in {"claimed", "running", "finished"}
         \/ job[r] = "retired" /\ j = "done"
  PROVE  JobsPlaced' /\ WorkersLeft'
<1>1. \A q \in Request : /\ job'[q] = "none" <=> job[q] = "none"
                         /\ job'[q] = "queued" <=> job[q] = "queued"
                         /\ job'[q] \in {"claimed", "running", "finished"} <=>
                              job[q] \in {"claimed", "running", "finished"}
  BY DEF TypeOK
<1>2. JobsPlaced'
  BY <1>1, SMTT(30) DEF JobsPlaced, execVars
<1>3. WorkersLeft'
  BY DEF WorkersLeft, execVars
<1>4. QED
  BY <1>2, <1>3

\* How a gauge follows the set it counts.
LEMMA Counting ==
  ASSUME NEW S \in SUBSET Request, NEW r \in Request
  PROVE  /\ r \notin S => Cardinality(S \cup {r}) = Cardinality(S) + 1
         /\ r \in S => Cardinality(S \ {r}) = Cardinality(S) - 1
BY Constants, FS_AddElement, FS_RemoveElement

-----------------------------------------------------------------------------
(* The caller's steps.                                                     *)

\* A refused request holds nothing.
LEMMA RefuseStep ==
  ASSUME IInv, NEW r \in Request, Refuse(r)
  PROVE  IInv'
<1>1. /\ caller[r] = "new"
      /\ \E c \in {"unavailable", "overloaded"} : caller' = [caller EXCEPT ![r] = c]
      /\ UNCHANGED <<execVars, ticket, class, receiver, jobVars>>
  BY DEF Refuse
<1>2. TypeOK'
  BY <1>1, SMTT(30) DEF IInv, TypeOK, execVars, jobVars, Answers
<1>3. CallersKnow'
  BY <1>1, SMTT(30) DEF IInv, TypeOK, CallersKnow, CallerKnows, jobVars
<1>4. QED
  BY <1>1, <1>2, <1>3, CallerStep DEF IInv

\* The queue deadline fires; cancel_queued is tried next.
LEMMA QueueTimeoutStep ==
  ASSUME IInv, NEW r \in Request, QueueTimeout(r)
  PROVE  IInv'
<1>1. /\ caller[r] = "queued"
      /\ caller' = [caller EXCEPT ![r] = "expiring"]
      /\ UNCHANGED <<execVars, ticket, class, receiver, jobVars>>
  BY DEF QueueTimeout
<1>2. TypeOK'
  BY <1>1 DEF IInv, TypeOK, execVars, jobVars, Waits
<1>3. CallersKnow'
  BY <1>1, SMTT(30) DEF IInv, TypeOK, CallersKnow, CallerKnows, jobVars
<1>4. QED
  BY <1>1, <1>2, <1>3, CallerStep DEF IInv

\* The caller takes the completion that was sent.
LEMMA ReceiveStep ==
  ASSUME IInv, NEW r \in Request, Receive(r)
  PROVE  IInv'
<1>1. /\ caller[r] \in {"awaiting", "queued"}
      /\ result[r] # "none"
      /\ caller' = [caller EXCEPT ![r] = result[r]]
      /\ UNCHANGED <<execVars, ticket, class, receiver, jobVars>>
  BY DEF Receive
<1>2. result[r] \in {"ok", "panic"}
  BY <1>1 DEF IInv, TypeOK, CallersKnow, CallerKnows
<1>3. TypeOK'
  BY <1>1, <1>2 DEF IInv, TypeOK, execVars, jobVars, Answers
<1>4. CallersKnow'
  BY <1>1, <1>2, SMTT(30) DEF IInv, TypeOK, CallersKnow, CallerKnows, jobVars
<1>5. QED
  BY <1>1, <1>3, <1>4, CallerStep DEF IInv

\* The caller goes away without its answer.
LEMMA DropReceiverStep ==
  ASSUME IInv, NEW r \in Request, DropReceiver(r)
  PROVE  IInv'
<1>1. /\ caller[r] \in {"awaiting", "leaving"}
      /\ caller' = [caller EXCEPT ![r] = "gone"]
      /\ receiver' = [receiver EXCEPT ![r] = "closed"]
      /\ UNCHANGED <<execVars, ticket, class, jobVars>>
  BY DEF DropReceiver
<1>2. TypeOK'
  BY <1>1 DEF IInv, TypeOK, execVars, jobVars
<1>3. CallersKnow'
  BY <1>1, SMTT(30) DEF IInv, TypeOK, CallersKnow, CallerKnows, jobVars
<1>4. QED
  BY <1>1, <1>2, <1>3, CallerStep DEF IInv

\* cancel_queued found nothing: the job is on a worker, or is over.
LEMMA NotCancelledStep ==
  ASSUME IInv, NEW r \in Request, NotCancelled(r),
         \/ caller[r] = "expiring" /\ caller' = [caller EXCEPT ![r] = "awaiting"]
         \/ caller[r] = "queued" /\ caller' = [caller EXCEPT ![r] = "leaving"]
  PROVE  IInv'
<1>1. UNCHANGED <<execVars, ticket, class, receiver, jobVars>>
  BY DEF NotCancelled
<1>2. TypeOK'
  BY <1>1 DEF IInv, TypeOK, execVars, jobVars, Waits
<1>3. CallersKnow'
  BY <1>1, SMTT(30) DEF IInv, TypeOK, CallersKnow, CallerKnows, jobVars
<1>4. QED
  BY <1>1, <1>2, <1>3, CallerStep DEF IInv

\* An admission: the ticket is fresh, so the ring and the requests stay apart.
LEMMA SubmitStep ==
  ASSUME IInv, NEW r \in Request, Submit(r)
  PROVE  IInv'
<1> DEFINE e == [ticket |-> next_ticket, class |-> Exec!AdmissionClass]
           c == Exec!AdmissionClass
<1>1. /\ caller[r] = "new"
      /\ open /\ Exec!Load < Exec!Capacity /\ next_ticket < MaxTickets
      /\ queue' = Append(queue, e)
      /\ next_ticket' = next_ticket + 1
      /\ UNCHANGED <<running, open, receiver, outcome, result, expired, ran>>
      /\ ticket' = [ticket EXCEPT ![r] = next_ticket]
      /\ class' = [class EXCEPT ![r] = c]
      /\ job' = [job EXCEPT ![r] = "queued"]
  BY DEF Submit, Exec!Admit
<1>2. \/ /\ c = "Active"
         /\ caller' = [caller EXCEPT ![r] = "awaiting"]
         /\ active_handlers' = active_handlers + 1
         /\ UNCHANGED queued_handlers
      \/ /\ c = "Queued"
         /\ caller' = [caller EXCEPT ![r] = "queued"]
         /\ queued_handlers' = queued_handlers + 1
         /\ UNCHANGED active_handlers
  BY DEF Submit
<1>3. /\ c \in Exec!Class
      /\ c = "Active" => Len(queue) + Cardinality(running) < Workers
      /\ e.ticket = next_ticket /\ e.class = c
  <2>1. c = IF Len(queue) + Cardinality(running) < Workers THEN "Active" ELSE "Queued"
    BY SameCardinality DEF Exec!AdmissionClass, Exec!Load
  <2>2. e.ticket = next_ticket /\ e.class = c
    OBVIOUS
  <2> HIDE DEF c, e
  <2>3. QED
    BY <2>1, <2>2 DEF Exec!Class
<1>4. queue \in Seq(Entry) /\ next_ticket \in Nat /\ next_ticket \in Exec!Ticket
  BY <1>1, Constants, SMTT(30) DEF IInv, TypeOK, Entry
<1>5. e \in Entry
  BY <1>3, <1>4 DEF Entry
<1>6. job[r] = "none" /\ ticket[r] = NoTicket
  BY <1>1 DEF IInv, CallersKnow, CallerKnows, JobsPlaced
<1>7. Tickets(queue) = {f.ticket : f \in Entries(queue)}
  BY DEF Tickets, Entries
<1>8. \A q \in Request : ticket[q] \in Int /\ ticket[q] # next_ticket
  BY <1>4, Constants, SMTT(30) DEF IInv, TypeOK, JobsPlaced, NoTicket
<1>9. next_ticket \notin Tickets(queue) /\ next_ticket \notin running
  BY <1>7, <1>8, SMTT(30) DEF IInv, JobsPlaced
<1> HIDE DEF e, c
<1>10. /\ queue' \in Seq(Entry) /\ Entries(queue') = Entries(queue) \cup {e}
       /\ Distinct(queue')
  BY <1>1, <1>3, <1>4, <1>5, <1>9, Admitted, SMTT(30) DEF IInv, JobsPlaced
<1>11. TypeOK'
  <2>1. queue' \in Seq([ticket : Exec!Ticket, class : Exec!Class])
    BY <1>10 DEF Entry
  <2>2. /\ caller' \in [Request -> {"new", "leaving", "gone"} \cup Waits \cup Answers]
        /\ active_handlers' \in Nat /\ queued_handlers' \in Nat
    BY <1>2, SMTT(30) DEF IInv, TypeOK, Waits
  <2>3. next_ticket' \in 0 .. MaxTickets
    BY <1>1, <1>4, Constants, SMTT(30)
  <2>4. QED
    BY <1>1, <1>3, <1>4, <2>1, <2>2, <2>3 DEF IInv, TypeOK
<1>12. JobsPlaced'
  <2>1. \A q \in Request : ticket'[q] = NoTicket <=> job'[q] = "none"
    BY <1>1, <1>4, SMTT(30) DEF IInv, TypeOK, JobsPlaced, NoTicket
  <2>2. \A q \in Request : ticket'[q] < next_ticket'
    BY <1>1, <1>4, <1>8, SMTT(30) DEF IInv, TypeOK, JobsPlaced
  <2>3. \A p, q \in Request : ticket'[p] = ticket'[q] /\ ticket'[p] # NoTicket => p = q
    BY <1>1, <1>8, SMTT(30) DEF IInv, TypeOK, JobsPlaced
  <2>4. \A q \in Request : job'[q] = "queued" =>
          [ticket |-> ticket'[q], class |-> class'[q]] \in Entries(queue')
    <3>1. [ticket |-> next_ticket, class |-> c] = e
      BY DEF e, c
    <3>2. QED
      BY <1>1, <1>10, <3>1, SMTT(30) DEF IInv, TypeOK, JobsPlaced
  <2>5. \A f \in Entries(queue') : \E q \in Request :
          job'[q] = "queued" /\ ticket'[q] = f.ticket /\ class'[q] = f.class
    <3>1. job'[r] = "queued" /\ ticket'[r] = e.ticket /\ class'[r] = e.class
      BY <1>1, <1>3 DEF IInv, TypeOK
    <3>2. ASSUME NEW f \in Entries(queue)
          PROVE  \E q \in Request :
                   job'[q] = "queued" /\ ticket'[q] = f.ticket /\ class'[q] = f.class
      <4>1. PICK q \in Request : job[q] = "queued" /\ ticket[q] = f.ticket /\ class[q] = f.class
        BY DEF IInv, JobsPlaced
      <4>2. job'[q] = "queued" /\ ticket'[q] = f.ticket /\ class'[q] = f.class
        BY <1>1, <1>6, <4>1 DEF IInv, TypeOK
      <4>3. QED
        BY <4>2
    <3>3. QED
      BY <1>10, <3>1, <3>2
  <2>6. \A q \in Request : ticket'[q] \in running' <=>
          job'[q] \in {"claimed", "running", "finished"}
    BY <1>1, <1>9, SMTT(30) DEF IInv, TypeOK, JobsPlaced
  <2>7. \A t \in running' : \E q \in Request : ticket'[q] = t
    <3>1. NoTicket \notin running
      BY Constants, SMTT(30) DEF IInv, TypeOK, NoTicket
    <3>2. \A q \in Request : q # r => ticket'[q] = ticket[q]
      BY <1>1 DEF IInv, TypeOK
    <3>3. QED
      BY <1>1, <1>6, <3>1, <3>2, SMTT(30) DEF IInv, JobsPlaced
  <2>8. QED
    BY <1>10, <2>1, <2>2, <2>3, <2>4, <2>5, <2>6, <2>7 DEF JobsPlaced
<1>13. CallersKnow'
  BY <1>1, <1>2, <1>3, <1>6, SMTT(30) DEF IInv, TypeOK, CallersKnow, CallerKnows
<1>14. GaugesCount'
  <2>1. r \notin CountedActive /\ r \notin CountedQueued /\ outcome[r] = "none"
    BY <1>6 DEF CountedActive, CountedQueued, IInv, CallersKnow, CallerKnows
  <2>2. CASE c = "Active"
    <3>1. CountedActive' = CountedActive \cup {r} /\ CountedQueued' = CountedQueued
      BY <1>1, <2>1, <2>2, SMTT(30) DEF IInv, TypeOK, CountedActive, CountedQueued
    <3>2. QED
      BY <1>2, <2>1, <2>2, <3>1, Counting DEF IInv, GaugesCount, CountedActive
  <2>3. CASE c = "Queued"
    <3>1. CountedQueued' = CountedQueued \cup {r} /\ CountedActive' = CountedActive
      BY <1>1, <2>1, <2>3, SMTT(30) DEF IInv, TypeOK, CountedActive, CountedQueued
    <3>2. QED
      BY <1>2, <2>1, <2>3, <3>1, Counting, SMTT(30) DEF IInv, GaugesCount, CountedQueued
  <2>4. QED
    BY <1>2, <2>2, <2>3
<1>15. WorkersLeft'
  <2>1. Cardinality(running) \in Nat
    BY FS_CardinalityType DEF IInv, WorkersLeft
  <2>2. Covered(queue', Cardinality(running), Workers)
    BY <1>1, <1>3, <1>4, <1>5, <2>1, Constants, CoveredAdmit DEF IInv, WorkersLeft
  <2>3. QED
    BY <1>1, <2>2 DEF IInv, WorkersLeft
<1>16. QED
  BY <1>11, <1>12, <1>13, <1>14, <1>15 DEF IInv

\* cancel_queued takes the job back before any worker has it.
LEMMA CancelledStep ==
  ASSUME IInv, NEW r \in Request, Cancelled(r),
         \/ caller[r] = "expiring" /\ caller' = [caller EXCEPT ![r] = "timed_out"]
         \/ caller[r] = "queued" /\ caller' = [caller EXCEPT ![r] = "leaving"]
  PROVE  IInv'
<1>1. /\ job' = [job EXCEPT ![r] = "dropped"]
      /\ queued_handlers' = queued_handlers - 1
      /\ UNCHANGED <<running, next_ticket, open, ticket, class, receiver, outcome, result,
                     expired, ran, active_handlers>>
  BY DEF Cancelled, Exec!Withdraw
<1>2. PICK i \in DOMAIN queue : queue[i].ticket = ticket[r] /\ queue' = Without(queue, i)
  BY DEF Cancelled, Exec!Withdraw, Exec!RemoveAt, Without
<1>3. queue \in Seq(Entry)
  BY DEF IInv, TypeOK, Entry
<1>4. /\ queue' \in Seq(Entry)
      /\ queue[i] \in Entries(queue)
      /\ Entries(queue') = Entries(queue) \ {queue[i]}
      /\ Distinct(queue')
  BY <1>2, <1>3, Withdrawn, SMTT(30) DEF IInv, JobsPlaced
<1>5. job[r] = "queued" /\ class[r] = queue[i].class /\ class[r] = "Queued"
  <2>1. PICK q \in Request : job[q] = "queued" /\ ticket[q] = queue[i].ticket
                             /\ class[q] = queue[i].class
    BY <1>4 DEF IInv, JobsPlaced
  <2>2. ticket[q] # NoTicket /\ q = r
    BY <1>2, <2>1, SMTT(30) DEF IInv, JobsPlaced
  <2>3. QED
    BY <2>1, <2>2 DEF IInv, CallersKnow, CallerKnows
<1>6. TypeOK'
  <2>1. queued_handlers' \in Nat
    <3>1. r \in CountedQueued
      BY <1>5 DEF CountedQueued
    <3>2. Cardinality(CountedQueued) # 0
      BY <3>1, Constants, FS_EmptySet DEF CountedQueued
    <3>3. QED
      BY <1>1, <3>2, SMTT(30) DEF IInv, TypeOK, GaugesCount
  <2>2. QED
    BY <1>1, <1>4, <2>1 DEF IInv, TypeOK, Entry, Answers
<1>7. JobsPlaced'
  <2>1. \A q \in Request : job'[q] = "queued" <=> job[q] = "queued" /\ q # r
    BY <1>1 DEF IInv, TypeOK
  <2>2. ASSUME NEW q \in Request, job'[q] = "queued"
        PROVE  [ticket |-> ticket[q], class |-> class[q]] \in Entries(queue')
    <3>1. [ticket |-> ticket[q], class |-> class[q]] \in Entries(queue)
      BY <2>1, <2>2 DEF IInv, JobsPlaced
    <3>2. ticket[q] # ticket[r]
      BY <1>5, <2>1, <2>2, SMTT(30) DEF IInv, JobsPlaced
    <3>3. QED
      BY <1>2, <1>4, <3>1, <3>2, SMTT(30)
  <2>3. ASSUME NEW f \in Entries(queue')
        PROVE  \E q \in Request : job'[q] = "queued" /\ ticket[q] = f.ticket /\ class[q] = f.class
    <3>1. f \in Entries(queue) /\ f # queue[i]
      BY <1>4
    <3>2. PICK q \in Request : job[q] = "queued" /\ ticket[q] = f.ticket /\ class[q] = f.class
      BY <3>1 DEF IInv, JobsPlaced
    <3>3. q # r
      BY <1>2, <1>3, <3>1, <3>2, SMTT(30) DEF IInv, JobsPlaced, Distinct, Entries
    <3>4. QED
      BY <2>1, <3>2, <3>3
  <2>4. \A q \in Request : /\ job'[q] = "none" <=> job[q] = "none"
                           /\ job'[q] \in {"claimed", "running", "finished"} <=>
                                job[q] \in {"claimed", "running", "finished"}
    BY <1>1, <1>5 DEF IInv, TypeOK
  <2>5. QED
    BY <1>1, <1>4, <2>2, <2>3, <2>4, SMTT(30) DEF IInv, JobsPlaced
<1>8. CallersKnow'
  BY <1>1, <1>5, SMTT(30) DEF IInv, TypeOK, CallersKnow, CallerKnows
<1>9. GaugesCount'
  <2>1. r \in CountedQueued
    BY <1>5 DEF CountedQueued
  <2>2. CountedQueued' = CountedQueued \ {r} /\ CountedActive' = CountedActive
    BY <1>1, <1>5 DEF IInv, TypeOK, CountedActive, CountedQueued
  <2>3. QED
    BY <1>1, <2>1, <2>2, Counting, SMTT(30) DEF IInv, GaugesCount, CountedQueued
<1>10. WorkersLeft'
  <2>1. Cardinality(running) \in Nat
    BY FS_CardinalityType DEF IInv, WorkersLeft
  <2>2. Covered(queue', Cardinality(running), Workers)
    BY <1>2, <1>3, <2>1, Constants, CoveredWithdraw DEF IInv, WorkersLeft, JobsPlaced
  <2>3. QED
    BY <1>1, <2>2 DEF IInv, WorkersLeft
<1>11. QED
  BY <1>6, <1>7, <1>8, <1>9, <1>10 DEF IInv

-----------------------------------------------------------------------------
(* The worker's steps.                                                     *)

\* A worker claims the job at the head of the ring.
LEMMA ClaimStep ==
  ASSUME IInv, NEW r \in Request, ClaimJob(r)
  PROVE  IInv'
<1> DEFINE h == Head(queue)
           n == Cardinality(running)
<1>1. /\ queue # <<>> /\ n < Workers
      /\ running' = running \cup {h.ticket}
      /\ queue' = Tail(queue)
      /\ ticket[r] = h.ticket
      /\ job' = [job EXCEPT ![r] = "claimed"]
      /\ UNCHANGED <<next_ticket, open, callerVars, outcome, result, expired, ran,
                     active_handlers, queued_handlers>>
  BY SameCardinality DEF ClaimJob, Exec!Start
<1>2. queue \in Seq(Entry)
  BY DEF IInv, TypeOK, Entry
<1>3. /\ queue' \in Seq(Entry)
      /\ h \in Entry /\ h \in Entries(queue)
      /\ Entries(queue') = Entries(queue) \ {h}
      /\ Distinct(queue')
  BY <1>1, <1>2, Claimed DEF IInv, JobsPlaced
<1>4. n \in Nat /\ Covered(queue', n + 1, Workers)
  <2>1. n \in Nat
    BY FS_CardinalityType DEF IInv, WorkersLeft
  <2> HIDE DEF n
  <2>2. Covered(queue, n, Workers)
    BY DEF n, IInv, WorkersLeft
  <2>3. Covered(Tail(queue), n + 1, Workers)
    BY <1>1, <1>2, <2>1, <2>2, Constants, CoveredClaim DEF IInv, JobsPlaced
  <2>4. QED
    BY <1>1, <2>1, <2>3
<1> HIDE DEF h, n
<1>5. job[r] = "queued" /\ class[r] = h.class
  <2>1. PICK q \in Request : job[q] = "queued" /\ ticket[q] = h.ticket /\ class[q] = h.class
    BY <1>3 DEF IInv, JobsPlaced
  <2>2. q = r
    BY <1>1, <2>1, SMTT(30) DEF IInv, JobsPlaced
  <2>3. QED
    BY <2>1, <2>2
<1>6. h.ticket \notin running
  BY <1>1, <1>5 DEF IInv, JobsPlaced
<1>7. TypeOK'
  BY <1>1, <1>3 DEF IInv, TypeOK, Entry, OnWorker, callerVars
<1>8. JobsPlaced'
  <2>1. \A q \in Request : /\ job'[q] = "queued" <=> job[q] = "queued" /\ q # r
                           /\ job'[q] = "none" <=> job[q] = "none"
                           /\ job'[q] \in {"claimed", "running", "finished"} <=>
                                job[q] \in {"claimed", "running", "finished"} \/ q = r
    BY <1>1, <1>5 DEF IInv, TypeOK
  <2>2. \A q \in Request : ticket[q] = ticket[r] => q = r
    BY <1>5 DEF IInv, JobsPlaced
  <2>3. ASSUME NEW q \in Request, job'[q] = "queued"
        PROVE  [ticket |-> ticket[q], class |-> class[q]] \in Entries(queue')
    <3>1. [ticket |-> ticket[q], class |-> class[q]] \in Entries(queue)
      BY <2>1, <2>3 DEF IInv, JobsPlaced
    <3>2. [ticket |-> ticket[q], class |-> class[q]] # h
      BY <1>1, <2>1, <2>2, <2>3, SMTT(30)
    <3>3. QED
      BY <1>3, <3>1, <3>2
  <2>4. ASSUME NEW f \in Entries(queue')
        PROVE  \E q \in Request : job'[q] = "queued" /\ ticket[q] = f.ticket /\ class[q] = f.class
    <3>1. f \in Entries(queue) /\ f # h
      BY <1>3
    <3>2. PICK q \in Request : job[q] = "queued" /\ ticket[q] = f.ticket /\ class[q] = f.class
      BY <3>1 DEF IInv, JobsPlaced
    <3>3. q # r
      <4>1. Distinct(queue)
        BY DEF IInv, JobsPlaced
      <4>2. f.ticket # h.ticket
        BY <1>3, <3>1, <4>1 DEF Distinct, Entries
      <4>3. QED
        BY <1>1, <3>2, <4>2
    <3>4. QED
      BY <2>1, <3>2, <3>3
  <2>5. \A q \in Request : ticket[q] \in running' <=> job'[q] \in {"claimed", "running", "finished"}
    BY <1>1, <2>1, <2>2, SMTT(30) DEF IInv, JobsPlaced
  <2>6. \A t \in running' : \E q \in Request : ticket[q] = t
    BY <1>1 DEF IInv, JobsPlaced
  <2>7. ticket' = ticket /\ class' = class /\ next_ticket' = next_ticket
    BY <1>1 DEF callerVars
  <2>8. QED
    BY <1>3, <2>1, <2>3, <2>4, <2>5, <2>6, <2>7, SMTT(30) DEF IInv, JobsPlaced
<1>9. CallersKnow'
  BY <1>1, <1>5, SMTT(30) DEF IInv, TypeOK, CallersKnow, CallerKnows, callerVars
<1>10. GaugesCount'
  <2>1. CountedActive' = CountedActive /\ CountedQueued' = CountedQueued
    BY <1>1, <1>5, SMTT(30) DEF IInv, TypeOK, CountedActive, CountedQueued, callerVars
  <2>2. QED
    BY <1>1, <2>1 DEF IInv, GaugesCount
<1>11. WorkersLeft'
  <2>1. IsFiniteSet(running') /\ Cardinality(running') = n + 1
    BY <1>1, <1>6, FS_AddElement DEF IInv, WorkersLeft, n
  <2>2. QED
    BY <1>1, <1>4, <2>1, Constants, SMTT(30) DEF WorkersLeft
<1>12. QED
  BY <1>7, <1>8, <1>9, <1>10, <1>11 DEF IInv

\* A queued job whose caller has left is not run.
LEMMA SkipStep ==
  ASSUME IInv, NEW r \in Request, SkipJob(r)
  PROVE  IInv'
<1>1. /\ job[r] = "claimed" /\ class[r] = "Queued" /\ receiver[r] = "closed"
      /\ job' = [job EXCEPT ![r] = "finished"]
      /\ outcome' = [outcome EXCEPT ![r] = "skipped"]
      /\ result' = [result EXCEPT ![r] = "lost"]
      /\ UNCHANGED <<execVars, callerVars, expired, ran, active_handlers, queued_handlers>>
  BY DEF SkipJob, Abandoned
<1>2. TypeOK'
  BY <1>1 DEF IInv, TypeOK, execVars, callerVars, OnWorker
<1>3. JobsPlaced' /\ WorkersLeft'
  BY <1>1, WorkerStep DEF IInv, callerVars
<1>4. CallersKnow'
  BY <1>1, SMTT(30) DEF IInv, TypeOK, CallersKnow, CallerKnows, callerVars
<1>5. CountedActive' = CountedActive /\ CountedQueued' = CountedQueued
  BY <1>1 DEF IInv, TypeOK, CountedActive, CountedQueued, callerVars
<1>6. GaugesCount'
  BY <1>1, <1>5 DEF IInv, GaugesCount
<1>7. QED
  BY <1>2, <1>3, <1>4, <1>6 DEF IInv

\* A queued job leaves one gauge for the other, an active one keeps its place.
LEMMA RunRocStep ==
  ASSUME IInv, NEW r \in Request, RunRoc(r)
  PROVE  IInv'
<1>1. /\ job[r] = "claimed" /\ ~(class[r] = "Queued" /\ receiver[r] = "closed")
      /\ job' = [job EXCEPT ![r] = "running"]
      /\ ran' = [ran EXCEPT ![r] = TRUE]
      /\ UNCHANGED <<execVars, callerVars, outcome, result, expired>>
  BY DEF RunRoc, Abandoned
<1>2. \/ /\ class[r] = "Queued"
         /\ queued_handlers' = queued_handlers - 1
         /\ active_handlers' = active_handlers + 1
      \/ /\ class[r] = "Active"
         /\ UNCHANGED <<queued_handlers, active_handlers>>
  <2>1. class[r] \in {"Active", "Queued"}
    BY <1>1 DEF IInv, CallersKnow, CallerKnows, Exec!Class
  <2>2. QED
    BY <2>1 DEF RunRoc
<1>3. ASSUME class[r] = "Queued" PROVE GaugesCount'
  <2>1. /\ CountedActive' = CountedActive \cup {r} /\ r \notin CountedActive
        /\ CountedQueued' = CountedQueued \ {r} /\ r \in CountedQueued
    BY <1>1, <1>3, SMTT(30) DEF IInv, TypeOK, CountedActive, CountedQueued, CallersKnow, CallerKnows, callerVars
  <2>2. GaugesCount'
    BY <1>2, <1>3, <2>1, Counting, SMTT(30) DEF IInv, GaugesCount, CountedActive, CountedQueued
  <2>3. QED
    BY <2>2
<1>4. ASSUME class[r] = "Active" PROVE GaugesCount'
  <2>1. CountedActive' = CountedActive /\ CountedQueued' = CountedQueued
    BY <1>1, <1>4, SMTT(30) DEF IInv, TypeOK, CountedActive, CountedQueued, callerVars
  <2>2. QED
    BY <1>2, <1>4, <2>1 DEF IInv, GaugesCount
<1>5. GaugesCount'
  BY <1>2, <1>3, <1>4
<1>6. active_handlers' \in Nat /\ queued_handlers' \in Nat
  BY <1>5, Constants DEF GaugesCount, CountedActive, CountedQueued
<1>7. TypeOK'
  BY <1>1, <1>6 DEF IInv, TypeOK, execVars, callerVars, OnWorker
<1>8. JobsPlaced' /\ WorkersLeft'
  BY <1>1, WorkerStep DEF IInv, callerVars
<1>9. CallersKnow'
  BY <1>1, SMTT(30) DEF IInv, TypeOK, CallersKnow, CallerKnows, callerVars
<1>10. QED
  BY <1>5, <1>7, <1>8, <1>9 DEF IInv

\* The handler returns on its worker.
LEMMA RocReturnsStep ==
  ASSUME IInv, NEW r \in Request, RocReturns(r)
  PROVE  IInv'
<1>1. /\ job[r] = "running"
      /\ job' = [job EXCEPT ![r] = "finished"]
      /\ expired' = [expired EXCEPT ![r] = TRUE]
      /\ active_handlers' = active_handlers - 1
      /\ UNCHANGED <<execVars, callerVars, result, ran, queued_handlers>>
  BY DEF RocReturns
<1>2. PICK o \in {"ok", "panic"} : outcome' = [outcome EXCEPT ![r] = o]
  BY DEF RocReturns
<1>3. /\ CountedActive' = CountedActive \ {r} /\ r \in CountedActive
      /\ CountedQueued' = CountedQueued
  BY <1>1, <1>2, SMTT(30) DEF IInv, TypeOK, CountedActive, CountedQueued, CallersKnow, CallerKnows, callerVars
<1>4. GaugesCount'
  BY <1>1, <1>3, Counting DEF IInv, GaugesCount, CountedActive
<1>5. active_handlers' \in Nat
  BY <1>4, Constants DEF GaugesCount, CountedActive
<1>6. TypeOK'
  BY <1>1, <1>2, <1>5 DEF IInv, TypeOK, execVars, callerVars, OnWorker
<1>7. JobsPlaced' /\ WorkersLeft'
  BY <1>1, WorkerStep DEF IInv, callerVars
<1>8. CallersKnow'
  BY <1>1, <1>2, SMTT(30) DEF IInv, TypeOK, CallersKnow, CallerKnows, callerVars
<1>9. QED
  BY <1>4, <1>6, <1>7, <1>8 DEF IInv

\* The executor place of a finished job is given back.
LEMMA RetireStep ==
  ASSUME IInv, NEW r \in Request, RetireJob(r)
  PROVE  IInv'
<1>1. /\ job[r] = "finished"
      /\ ticket[r] \in running /\ running' = running \ {ticket[r]}
      /\ job' = [job EXCEPT ![r] = "retired"]
      /\ UNCHANGED <<queue, next_ticket, open, callerVars, outcome, result, expired, ran,
                     active_handlers, queued_handlers>>
  BY DEF RetireJob, Exec!Finish
<1>2. TypeOK'
  BY <1>1 DEF IInv, TypeOK, OnWorker, callerVars
<1>3. JobsPlaced'
  <2>1. \A q \in Request : /\ job'[q] = "queued" <=> job[q] = "queued"
                           /\ job'[q] = "none" <=> job[q] = "none"
                           /\ job'[q] \in {"claimed", "running", "finished"} <=>
                                job[q] \in {"claimed", "running", "finished"} /\ q # r
    BY <1>1 DEF IInv, TypeOK
  <2>2. \A q \in Request : ticket[q] = ticket[r] => q = r
    BY <1>1 DEF IInv, JobsPlaced
  <2>3. QED
    BY <1>1, <2>1, <2>2, SMTT(30) DEF IInv, JobsPlaced, callerVars
<1>4. CallersKnow'
  BY <1>1, SMTT(30) DEF IInv, TypeOK, CallersKnow, CallerKnows, callerVars
<1>5. CountedActive' = CountedActive /\ CountedQueued' = CountedQueued
  BY <1>1, SMTT(30) DEF IInv, TypeOK, CountedActive, CountedQueued, callerVars
<1>6. GaugesCount'
  BY <1>1, <1>5 DEF IInv, GaugesCount
<1>7. WorkersLeft'
  <2>1. IsFiniteSet(running') /\ Cardinality(running') = Cardinality(running) - 1
    BY <1>1, FS_RemoveElement DEF IInv, WorkersLeft
  <2>2. Cardinality(running) \in Nat /\ DOMAIN queue = 1 .. Len(queue)
    <3>1. queue \in Seq(Entry)
      BY DEF IInv, TypeOK, Entry
    <3>2. DOMAIN queue = 1 .. Len(queue)
      BY <3>1, SMTT(30)
    <3>3. QED
      BY <3>2, FS_CardinalityType DEF IInv, WorkersLeft
  <2>3. Covered(queue, Cardinality(running) - 1, Workers)
    BY <2>2, Constants, SMTT(30) DEF IInv, WorkersLeft, Covered
  <2>4. QED
    BY <1>1, <2>1, <2>2, <2>3, Constants, SMTT(30) DEF IInv, WorkersLeft
<1>8. QED
  BY <1>2, <1>3, <1>4, <1>6, <1>7 DEF IInv

\* After the retirement the result is sent, or a skipped job is dropped.
LEMMA PublishStep ==
  ASSUME IInv, NEW r \in Request, Publish(r)
  PROVE  IInv'
<1>1. /\ job[r] = "retired"
      /\ job' = [job EXCEPT ![r] = "done"]
      /\ UNCHANGED <<execVars, callerVars, outcome, expired, ran, active_handlers>>
  BY DEF Publish
<1>2. \/ /\ outcome[r] = "skipped"
         /\ queued_handlers' = queued_handlers - 1 /\ UNCHANGED result
      \/ /\ outcome[r] \in {"ok", "panic"}
         /\ result' = [result EXCEPT ![r] = outcome[r]] /\ UNCHANGED queued_handlers
  <2>1. outcome[r] \in {"skipped", "ok", "panic"}
    BY <1>1 DEF IInv, TypeOK, CallersKnow, CallerKnows
  <2>2. QED
    BY <2>1 DEF Publish
<1>3. GaugesCount'
  <2>1. CountedActive' = CountedActive
    BY <1>1 DEF IInv, TypeOK, CountedActive, callerVars
  <2>2. CASE outcome[r] = "skipped"
    <3>1. CountedQueued' = CountedQueued \ {r} /\ r \in CountedQueued
      BY <1>1, <2>2 DEF IInv, TypeOK, CountedQueued, CallersKnow, CallerKnows, callerVars
    <3>2. QED
      BY <1>1, <1>2, <2>1, <2>2, <3>1, Counting, SMTT(30) DEF IInv, GaugesCount, CountedQueued
  <2>3. CASE outcome[r] \in {"ok", "panic"}
    <3>1. CountedQueued' = CountedQueued
      BY <1>1, <2>3 DEF IInv, TypeOK, CountedQueued, callerVars
    <3>2. QED
      BY <1>1, <1>2, <2>1, <2>3, <3>1 DEF IInv, GaugesCount
  <2>4. QED
    BY <1>2, <2>2, <2>3
<1>4. queued_handlers' \in Nat
  BY <1>3, Constants DEF GaugesCount, CountedQueued
<1>5. TypeOK'
  BY <1>1, <1>2, <1>4, SMTT(30) DEF IInv, TypeOK, execVars, callerVars
<1>6. JobsPlaced' /\ WorkersLeft'
  BY <1>1, WorkerStep DEF IInv, callerVars
<1>7. CallersKnow'
  BY <1>1, <1>2, SMTT(30) DEF IInv, TypeOK, CallersKnow, CallerKnows, callerVars
<1>8. QED
  BY <1>3, <1>5, <1>6, <1>7 DEF IInv

\* A shutdown closes admission.
LEMMA StopAdmissionStep ==
  ASSUME IInv, StopAdmission
  PROVE  IInv'
<1>1. open' = FALSE /\ UNCHANGED <<queue, running, next_ticket, callerVars, jobVars>>
  BY DEF StopAdmission, Exec!Close
<1>2. CountedActive' = CountedActive /\ CountedQueued' = CountedQueued
  BY <1>1 DEF CountedActive, CountedQueued, callerVars, jobVars
<1>3. TypeOK' /\ JobsPlaced' /\ WorkersLeft'
  BY <1>1 DEF IInv, TypeOK, JobsPlaced, WorkersLeft, callerVars, jobVars
<1>4. CallersKnow' /\ GaugesCount'
  <2>1. CallersKnow'
    BY <1>1 DEF IInv, CallersKnow, CallerKnows, callerVars, jobVars
  <2>2. GaugesCount'
    BY <1>1, <1>2 DEF IInv, GaugesCount, callerVars, jobVars
  <2>3. QED
    BY <2>1, <2>2
<1>5. QED
  BY <1>3, <1>4 DEF IInv

-----------------------------------------------------------------------------
(* The theorems.                                                           *)

\* The invariant holds before the first request.
LEMMA InitHolds == ASSUME Init PROVE IInv
<1>1. /\ queue = <<>> /\ running = {} /\ next_ticket = 0 /\ open = TRUE
  BY DEF Init, Exec!Init
<1>2. /\ Entries(queue) = {} /\ Distinct(queue) /\ DOMAIN queue = {}
  BY <1>1, SMTT(30) DEF Entries, Distinct
<1>3. TypeOK
  BY <1>1, Constants, SMTT(30) DEF Init, TypeOK
<1>4. JobsPlaced
  BY <1>1, <1>2, SMTT(30) DEF Init, JobsPlaced, NoTicket
<1>5. CallersKnow
  BY DEF Init, CallersKnow, CallerKnows
<1>6. CountedActive = {} /\ CountedQueued = {}
  BY DEF Init, CountedActive, CountedQueued
<1>7. GaugesCount
  BY <1>6, FS_EmptySet DEF Init, GaugesCount
<1>8. WorkersLeft
  BY <1>1, <1>2, FS_EmptySet, Constants, SMTT(30) DEF WorkersLeft, Covered
<1>9. QED
  BY <1>3, <1>4, <1>5, <1>7, <1>8 DEF IInv

\* Every step of the specification preserves the invariant.
LEMMA StepHolds == ASSUME IInv, [Next]_vars PROVE IInv'
<1>1. ASSUME NEW r \in Request,
             \/ Refuse(r) \/ Submit(r) \/ QueueTimeout(r) \/ Expire(r)
             \/ Receive(r) \/ DropGuard(r) \/ DropReceiver(r)
      PROVE  IInv'
  <2>1. CASE Expire(r)
    BY <2>1, CancelledStep, NotCancelledStep DEF Expire
  <2>2. CASE DropGuard(r)
    BY <2>2, CancelledStep, NotCancelledStep DEF DropGuard
  <2>3. QED
    BY <1>1, <2>1, <2>2, RefuseStep, SubmitStep, QueueTimeoutStep, ReceiveStep, DropReceiverStep
<1>2. ASSUME NEW r \in Request, Job(r)
      PROVE  IInv'
  BY <1>2, ClaimStep, SkipStep, RunRocStep, RocReturnsStep, RetireStep, PublishStep DEF Job
<1>3. CASE UNCHANGED vars
  <2>1. UNCHANGED <<execVars, callerVars, jobVars>>
    BY <1>3 DEF vars
  <2>2. TypeOK' /\ CallersKnow'
    BY <2>1, SMTT(30) DEF IInv, TypeOK, CallersKnow, CallerKnows, execVars, callerVars, jobVars
  <2>3. QED
    BY <2>1, <2>2, CallerStep DEF IInv, callerVars
<1>4. QED
  BY <1>1, <1>2, <1>3, StopAdmissionStep DEF Next, Finished

\* The executor, the callers, the jobs and the gauges stay consistent.
THEOREM Invariance == Spec => []IInv
BY InitHolds, StepHolds, PTL DEF Spec

\* The queue timeout and the worker's claim race for the job: a request that is
\* answered 503 never enters Roc.
THEOREM RefusedRequestsNeverRun == Spec => []RefusedNeverRuns
<1>1. IInv => RefusedNeverRuns
  BY DEF IInv, CallersKnow, CallerKnows, RefusedNeverRuns
<1>2. QED
  BY <1>1, Invariance, PTL

\* handle_req never finds its completion lost.
THEOREM CompletionsNeverLost == Spec => []NoLostCompletion
<1>1. IInv => NoLostCompletion
  BY DEF IInv, CallersKnow, CallerKnows, NoLostCompletion
<1>2. QED
  BY <1>1, Invariance, PTL

\* A ring whose Active entries are covered by the workers that are left holds no
\* more of them than that.
LEMMA ActivePositions ==
  ASSUME NEW S, NEW q \in Seq(S), NEW b \in Nat, NEW w \in Nat, Covered(q, b, w), b <= w
  PROVE  LET A == {i \in DOMAIN q : q[i].class = "Active"}
         IN  IsFiniteSet(A) /\ Cardinality(A) \in Nat /\ b + Cardinality(A) <= w
<1> DEFINE A == {i \in DOMAIN q : q[i].class = "Active"}
<1>1. A \subseteq 1 .. w - b
  BY SMTT(30) DEF Covered
<1>2. IsFiniteSet(1 .. w - b) /\ Cardinality(1 .. w - b) = w - b
  BY FS_Interval, SMTT(30)
<1>3. IsFiniteSet(A) /\ Cardinality(A) <= w - b /\ Cardinality(A) \in Nat
  BY <1>1, <1>2, FS_Subset, FS_CardinalityType
<1>4. QED
  BY <1>3, SMTT(30)

\* There are as many handlers counted as active in the ring as there are Active
\* entries, for which there are workers left, and the others are on a worker.
LEMMA ActiveAtMostWorkers == ASSUME IInv PROVE Cardinality(CountedActive) <= Workers
<1> DEFINE A == {i \in DOMAIN queue : queue[i].class = "Active"}
           InRing == {r \in Request : class[r] = "Active" /\ job[r] = "queued"}
           OnThread == {r \in Request : job[r] \in {"claimed", "running"}}
           place == [r \in InRing |-> CHOOSE i \in A : queue[i].ticket = ticket[r]]
           slot == [r \in OnThread |-> ticket[r]]
           n == Cardinality(running)
<1>1. n \in Nat /\ IsFiniteSet(A) /\ Cardinality(A) \in Nat /\ n + Cardinality(A) <= Workers
  <2>1. n \in Nat
    BY FS_CardinalityType DEF IInv, WorkersLeft
  <2>2. queue \in Seq(Entry) /\ Covered(queue, n, Workers) /\ n <= Workers
    BY DEF IInv, WorkersLeft, TypeOK, Entry
  <2> HIDE DEF n
  <2>3. QED
    BY <2>1, <2>2, Constants, ActivePositions
<1>2. Cardinality(InRing) <= Cardinality(A)
  <2>1. \A r \in InRing : \E i \in A : queue[i].ticket = ticket[r]
    BY SMTT(30) DEF IInv, JobsPlaced, Entries
  <2>2. \A r \in InRing : place[r] \in A /\ queue[place[r]].ticket = ticket[r]
    BY <2>1
  <2>3. \A p, q \in InRing : ticket[p] = ticket[q] => p = q
    BY DEF IInv, JobsPlaced
  <2>4. \A p, q \in InRing : place[p] = place[q] => p = q
    <3> HIDE DEF place, InRing, A
    <3>1. QED
      BY <2>2, <2>3
  <2>5. place \in Injection(InRing, A)
    BY <2>2, <2>4 DEF Injection, IsInjective
  <2> HIDE DEF place, InRing, A
  <2>6. QED
    BY <1>1, <2>5, FS_Injection
<1>3. Cardinality(OnThread) <= n
  <2>1. \A r \in OnThread : ticket[r] \in running
    BY DEF IInv, JobsPlaced
  <2>2. \A p, q \in OnThread : ticket[p] = ticket[q] => p = q
    BY DEF IInv, JobsPlaced
  <2>3. slot \in Injection(OnThread, running)
    BY <2>1, <2>2 DEF Injection, IsInjective
  <2>4. IsFiniteSet(running)
    BY DEF IInv, WorkersLeft
  <2> HIDE DEF slot, OnThread
  <2>5. QED
    BY <2>3, <2>4, FS_Injection
<1>4. CountedActive \subseteq InRing \cup OnThread
  BY DEF CountedActive
<1>5. /\ IsFiniteSet(InRing) /\ IsFiniteSet(OnThread)
      /\ Cardinality(InRing) \in Nat /\ Cardinality(OnThread) \in Nat
      /\ Cardinality(InRing \cap OnThread) \in Nat
  BY Constants
<1> HIDE DEF A, InRing, OnThread, n
<1>6. /\ IsFiniteSet(InRing \cup OnThread)
      /\ Cardinality(InRing \cup OnThread) <= Cardinality(InRing) + Cardinality(OnThread)
  <2>1. /\ IsFiniteSet(InRing \cup OnThread)
        /\ Cardinality(InRing \cup OnThread) =
             Cardinality(InRing) + Cardinality(OnThread) - Cardinality(InRing \cap OnThread)
    BY <1>5, FS_Union
  <2>2. QED
    BY <1>5, <2>1, SMTT(30)
<1>7. Cardinality(CountedActive) <= Cardinality(InRing \cup OnThread)
  BY <1>4, <1>6, FS_Subset
<1>8. Cardinality(CountedActive) \in Nat /\ Cardinality(InRing \cup OnThread) \in Nat
  BY <1>6, FS_CardinalityType, Constants DEF CountedActive
<1>9. QED
  BY <1>1, <1>2, <1>3, <1>5, <1>6, <1>7, <1>8, Constants, SMTT(30)

\* The gauges never count more active handlers than workers and return to zero,
\* and a result is seen only when its job has given everything back.
THEOREM GaugesAndResources == Spec => []HandlersAccounted
<1>1. ASSUME IInv PROVE HandlerGauges
  <2>1. active_handlers <= Workers
    BY <1>1, ActiveAtMostWorkers DEF IInv, GaugesCount
  <2>2. ASSUME \A r \in Request : job[r] \in {"none", "dropped", "done"}
        PROVE  active_handlers = 0 /\ queued_handlers = 0
    <3>1. CountedActive = {} /\ CountedQueued = {}
      BY <2>2 DEF CountedActive, CountedQueued
    <3>2. QED
      BY <1>1, <3>1, FS_EmptySet DEF IInv, GaugesCount
  <2>3. QED
    BY <2>1, <2>2 DEF HandlerGauges
<1>2. ASSUME IInv PROVE ReleasedBeforePublished
  <2> SUFFICES ASSUME NEW r \in Request, result[r] \in {"ok", "panic"}
               PROVE  ticket[r] \notin running \cup Exec!QueuedTickets /\ expired[r] /\ ran[r]
    BY DEF ReleasedBeforePublished
  <2>1. job[r] = "done" /\ outcome[r] \in {"ok", "panic"}
    BY <1>2 DEF IInv, CallersKnow, CallerKnows
  <2>2. expired[r] /\ ran[r]
    BY <1>2, <2>1 DEF IInv, CallersKnow, CallerKnows
  <2>3. ticket[r] \notin running /\ ticket[r] # NoTicket
    BY <1>2, <2>1 DEF IInv, JobsPlaced
  <2>4. ASSUME NEW i \in DOMAIN queue, queue[i].ticket = ticket[r]
        PROVE  FALSE
    <3>1. PICK q \in Request : job[q] = "queued" /\ ticket[q] = queue[i].ticket
      BY <1>2, SMTT(30) DEF IInv, JobsPlaced, Entries
    <3>2. QED
      BY <1>2, <2>1, <2>3, <2>4, <3>1, SMTT(30) DEF IInv, JobsPlaced
  <2>5. QED
    BY <2>2, <2>3, <2>4 DEF Exec!QueuedTickets
<1>3. IInv => HandlersAccounted
  BY <1>1, <1>2 DEF HandlersAccounted, IInv
<1>4. QED
  BY <1>3, Invariance, PTL
=============================================================================
