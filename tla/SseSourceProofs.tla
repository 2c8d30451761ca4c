--------------------------- MODULE SseSourceProofs ---------------------------
(***************************************************************************)
(* Proofs about SseSource, for any set of streams, any number of workers   *)
(* and waiting places, and any bound on the tickets.                       *)
(***************************************************************************)
EXTENDS SseSource, AdmissionQueueLemmas

Entry == [ticket : Exec!Ticket, class : Exec!Class]
Live == OnWorker \cup {"queued"}

\* The ring has exactly the queued jobs, and only issued tickets have a job.
TicketsPlaced ==
  /\ Distinct(queue)
  /\ \A t \in Exec!Ticket : t \in Tickets(queue) <=> job[t] = "queued"
  /\ \A t \in Exec!Ticket : job[t] = "none" <=> t >= next_ticket
  /\ \A t \in Exec!Ticket : IF job[t] = "none" THEN of[t] = NoStream /\ t \notin was_queued
                                               ELSE of[t] \in Stream

\* A job that is not over finds the slot of its stream as it left it, or
\* cancelled, and it has the stream's callable.
SlotOf(t) ==
  CASE job[t] \in {"queued", "claimed"} -> IF t \in was_queued THEN "queued" ELSE "pending"
    [] job[t] \in {"running", "finished", "retired"} -> "running"
    [] OTHER -> "cancelled"
JobsFit ==
  \A t \in Exec!Ticket : job[t] \in Live =>
    source[of[t]] = "job" /\ slot[of[t]] \in {"cancelled", SlotOf(t)}

\* The task that is about to submit, or has withdrawn its job, has none left.
NoJobLeft ==
  \A t \in Exec!Ticket :
    of[t] \in Stream /\ (pc[of[t]] \in {"submit", "withdrawn"} \/ error[of[t]] = "timed_out")
      => job[t] \notin Live

\* Where the task is, where its callable is, and what the slot says.
TaskFits(s) ==
  /\ slot[s] = "cancelled" => pc[s] = "over"
  /\ slot[s] = "idle" => source[s] # "job"
  /\ source[s] \in {"source", "after_item"} => slot[s] = "idle" /\ pc[s] \in {"asleep", "poll", "look"}
  /\ source[s] = "dropped" => pc[s] \in {"cancelling", "over"}
  /\ source[s] = "after_item" => pc[s] = "asleep"
  /\ pc[s] = "submit" => slot[s] = "pending"
  /\ primed[s] => source[s] = "after_item"
  /\ parked[s] => source[s] = "source" /\ pc[s] = "asleep"
  /\ error[s] = "timed_out" => pc[s] = "over"
  /\ queued_ticket[s] # NoTicket => queued_ticket[s] \in was_queued /\ of[queued_ticket[s]] = s
TasksFit == \A s \in Stream : TaskFits(s)

\* A task that looks or sleeps while its transition is under way has its waker
\* registered, unless the wake that took it is still to be answered by a poll.
WakersKept ==
  \A s \in Stream :
    /\ pc[s] \in {"asleep", "look", "relook", "expired"} /\ slot[s] # "idle"
         => waker[s] \/ woken[s]
    /\ pc[s] \in {"asleep", "expired"} /\ slot[s] = "ready" => woken[s]

IInv ==
  /\ TypeOK /\ ~panicked
  /\ TicketsPlaced /\ OneTransition /\ JobsFit /\ NoJobLeft
  /\ TasksFit /\ WakersKept

-----------------------------------------------------------------------------
(* Facts that several steps need.                                          *)

\* Zenon proves most leaves; the ones that need arithmetic, records or sequences
\* name SMT.
USE ZenonT(60)

\* The tickets that the executor may issue.
LEMMA Constants == MaxTickets \in Nat /\ Exec!Ticket = 0 .. MaxTickets - 1
BY SourceAssumption DEF Exec!Ticket

\* A step of a task that leaves the executor and the jobs alone.
LEMMA TaskStep ==
  ASSUME TicketsPlaced, OneTransition, UNCHANGED <<execVars, jobVars>>
  PROVE  TicketsPlaced' /\ OneTransition'
BY DEF TicketsPlaced, OneTransition, execVars, jobVars

-----------------------------------------------------------------------------
(* The task's polls.                                                       *)

\* A poll takes the primed item, waits, or goes on to the transition.
LEMMA PollStep ==
  ASSUME IInv, NEW s \in Stream, Poll(s)
  PROVE  IInv'
<1>1. /\ pc[s] = "asleep"
      /\ woken' = [woken EXCEPT ![s] = FALSE]
      /\ UNCHANGED <<execVars, requested, slot, waker, source, parked,
                     committed, queued_ticket, error, jobVars, panicked>>
  BY DEF Poll
<1>2. \/ /\ primed[s] /\ primed' = [primed EXCEPT ![s] = FALSE] /\ UNCHANGED pc
      \/ /\ source[s] = "after_item" \/ parked[s]
         /\ UNCHANGED <<primed, pc>>
      \/ /\ source[s] # "after_item" /\ ~parked[s] /\ ~primed[s]
         /\ UNCHANGED primed /\ pc' = [pc EXCEPT ![s] = "poll"]
  BY DEF Poll, Goto
<1>3. TypeOK'
  <2>1. /\ primed' \in [Stream -> BOOLEAN]
        /\ pc' \in [Stream -> {"asleep", "poll", "look", "submit", "relook", "expired",
                               "withdrawn", "cancelling", "over"}]
    <3>1. /\ primed \in [Stream -> BOOLEAN]
          /\ pc \in [Stream -> {"asleep", "poll", "look", "submit", "relook", "expired",
                                "withdrawn", "cancelling", "over"}]
      BY DEF IInv, TypeOK
    <3>2. QED
      BY <1>2, <3>1
  <2>2. woken' \in [Stream -> BOOLEAN]
    BY <1>1 DEF IInv, TypeOK
  <2>3. QED
    BY <1>1, <2>1, <2>2, SMTT(30) DEF IInv, TypeOK, execVars, jobVars
<1>4. JobsFit' /\ NoJobLeft'
  BY <1>1, <1>2, SMTT(30) DEF IInv, TypeOK, JobsFit, SlotOf, NoJobLeft, jobVars
<1>5. TasksFit'
  BY <1>1, <1>2, SMTT(30) DEF IInv, TypeOK, TasksFit, TaskFits, jobVars
<1>6. WakersKept'
  BY <1>1, <1>2, SMTT(30) DEF IInv, TypeOK, TasksFit, TaskFits, WakersKept
<1>7. QED
  BY <1>1, <1>3, <1>4, <1>5, <1>6, TaskStep DEF IInv

\* The wake timer of a parked stream elapses.
LEMMA WakeTimerStep ==
  ASSUME IInv, NEW s \in Stream, WakeTimer(s)
  PROVE  IInv'
<1>1. /\ parked' = [parked EXCEPT ![s] = FALSE]
      /\ woken' = [woken EXCEPT ![s] = TRUE]
      /\ UNCHANGED <<execVars, requested, slot, waker, pc, source, primed,
                     committed, queued_ticket, error, jobVars, panicked>>
  BY DEF WakeTimer
<1>2. TypeOK'
  BY <1>1, SMTT(30) DEF IInv, TypeOK, execVars, jobVars
<1>3. JobsFit' /\ NoJobLeft'
  BY <1>1 DEF IInv, JobsFit, SlotOf, NoJobLeft, jobVars
<1>4. TasksFit' /\ WakersKept'
  BY <1>1, SMTT(30) DEF IInv, TypeOK, TasksFit, TaskFits, WakersKept, jobVars
<1>5. QED
  BY <1>1, <1>2, <1>3, <1>4, TaskStep DEF IInv

\* The body has flushed its item, and the next source is parked.
LEMMA ItemDrainedStep ==
  ASSUME IInv, NEW s \in Stream, ItemDrained(s)
  PROVE  IInv'
<1>1. /\ pc[s] = "asleep" /\ source[s] = "after_item" /\ ~primed[s]
      /\ source' = [source EXCEPT ![s] = "source"]
      /\ \E wait \in BOOLEAN : parked' = [parked EXCEPT ![s] = wait]
      /\ woken' = [woken EXCEPT ![s] = TRUE]
      /\ UNCHANGED <<execVars, requested, slot, waker, pc, primed, committed,
                     queued_ticket, error, jobVars, panicked>>
  BY DEF ItemDrained
<1>2. TypeOK'
  BY <1>1, SMTT(30) DEF IInv, TypeOK, execVars, jobVars
<1>3. JobsFit' /\ NoJobLeft'
  BY <1>1, SMTT(30) DEF IInv, TypeOK, JobsFit, SlotOf, NoJobLeft, jobVars
<1>4. TasksFit'
  BY <1>1, SMTT(30) DEF IInv, TypeOK, TasksFit, TaskFits, jobVars
<1>5. WakersKept'
  BY <1>1 DEF IInv, TypeOK, WakersKept
<1>6. QED
  BY <1>1, <1>2, <1>3, <1>4, <1>5, TaskStep DEF IInv

\* The waker is registered before the slot is looked at.
LEMMA RegisterStep ==
  ASSUME IInv, NEW s \in Stream, Register(s)
  PROVE  IInv'
<1>1. /\ pc[s] = "poll"
      /\ waker' = [waker EXCEPT ![s] = TRUE]
      /\ pc' = [pc EXCEPT ![s] = "look"]
      /\ UNCHANGED <<execVars, requested, slot, woken, source, parked, primed,
                     committed, queued_ticket, error, jobVars, panicked>>
  BY DEF Register, Goto
<1>2. TypeOK'
  BY <1>1, SMTT(30) DEF IInv, TypeOK, execVars, jobVars
<1>3. JobsFit' /\ NoJobLeft'
  BY <1>1 DEF IInv, TypeOK, JobsFit, SlotOf, NoJobLeft, jobVars
<1>4. TasksFit'
  BY <1>1, SMTT(30) DEF IInv, TypeOK, TasksFit, TaskFits, jobVars
<1>5. WakersKept'
  BY <1>1, SMTT(30) DEF IInv, TypeOK, WakersKept
<1>6. QED
  BY <1>1, <1>2, <1>3, <1>4, <1>5, TaskStep DEF IInv

-----------------------------------------------------------------------------
(* The critical section of poll.                                           *)

\* `begin`: what its assertions ask of the slot holds.
LEMMA BeginStep ==
  ASSUME IInv, NEW s \in Stream, Look(s), Begin(s)
  PROVE  IInv'
<1>1. /\ pc[s] \in {"look", "relook"}
      /\ slot[s] = "idle"
      /\ panicked' = (panicked \/ pc[s] = "relook" \/ source[s] # "source")
      /\ slot' = [slot EXCEPT ![s] = "pending"]
      /\ source' = [source EXCEPT ![s] = "job"]
      /\ pc' = [pc EXCEPT ![s] = "submit"]
      /\ UNCHANGED <<execVars, requested, waker, woken, jobVars, parked, primed, committed,
                     queued_ticket, error>>
  BY DEF Look, Begin, Goto
<1>2. pc[s] = "look" /\ source[s] = "source" /\ ~primed[s]
  BY <1>1, SMTT(30) DEF IInv, TypeOK, TasksFit, TaskFits
<1>3. ~panicked'
  BY <1>1, <1>2 DEF IInv
<1>4. TypeOK'
  BY <1>1, <1>3 DEF IInv, TypeOK, execVars, jobVars
<1>5. JobsFit' /\ NoJobLeft'
  BY <1>1, <1>2, SMTT(30) DEF IInv, TypeOK, JobsFit, SlotOf, NoJobLeft, jobVars
<1>6. TasksFit'
  BY <1>1, <1>2, SMTT(30) DEF IInv, TypeOK, TasksFit, TaskFits, jobVars
<1>7. WakersKept'
  BY <1>1 DEF IInv, TypeOK, WakersKept
<1>8. QED
  BY <1>1, <1>3, <1>4, <1>5, <1>6, <1>7, TaskStep, SMTT(30) DEF IInv

\* The transition is under way: the task sleeps, or its timeout has elapsed.
LEMMA UnderWayStep ==
  ASSUME IInv, NEW s \in Stream, Look(s), slot[s] \in {"queued", "pending", "running"}
  PROVE  IInv'
<1>1. /\ pc[s] \in {"look", "relook"}
      /\ UNCHANGED <<execVars, requested, waker, woken, jobVars, slot, source, parked, primed,
                     committed, error, panicked>>
  BY DEF Look, Begin
<1>2. PICK p \in {"expired", "asleep"} : pc' = [pc EXCEPT ![s] = p]
  BY DEF Look, Begin, Goto
<1>3. queued_ticket' \in {queued_ticket, [queued_ticket EXCEPT ![s] = NoTicket]}
  BY DEF Look, Begin
<1>4. source[s] = "job"
  BY <1>1, SMTT(30) DEF IInv, TypeOK, TasksFit, TaskFits
<1>5. TypeOK'
  <2>1. queued_ticket' \in [Stream -> Exec!Ticket \cup {NoTicket}]
    BY <1>3 DEF IInv, TypeOK
  <2>2. QED
    BY <1>1, <1>2, <2>1 DEF IInv, TypeOK, execVars, jobVars
<1>6. JobsFit' /\ NoJobLeft'
  BY <1>1, <1>2 DEF IInv, TypeOK, JobsFit, SlotOf, NoJobLeft, jobVars
<1>7. TasksFit'
  BY <1>1, <1>2, <1>3, <1>4, SMTT(30) DEF IInv, TypeOK, TasksFit, TaskFits, jobVars
<1>8. WakersKept'
  BY <1>1, <1>2, SMTT(30) DEF IInv, TypeOK, WakersKept
<1>9. QED
  BY <1>1, <1>5, <1>6, <1>7, <1>8, TaskStep DEF IInv

\* The result: the slot is idle again before the next transition begins.
LEMMA ReadyStep ==
  ASSUME IInv, NEW s \in Stream, Look(s), slot[s] = "ready"
  PROVE  IInv'
<1>1. /\ pc[s] \in {"look", "relook"}
      /\ slot' = [slot EXCEPT ![s] = "idle"]
      /\ queued_ticket' = [queued_ticket EXCEPT ![s] = NoTicket]
      /\ committed' = [committed EXCEPT ![s] = TRUE]
      /\ UNCHANGED <<execVars, requested, waker, woken, jobVars, panicked>>
  BY DEF Look, Begin, Advance
<1>2. /\ source[s] = "job" /\ ~primed[s] /\ ~parked[s] /\ error[s] # "timed_out"
  BY <1>1, SMTT(30) DEF IInv, TypeOK, TasksFit, TaskFits
<1>3. \E src \in {"after_item", "source", "dropped"}, p \in {"asleep", "poll", "over"},
         pk \in BOOLEAN, pr \in BOOLEAN, er \in {"none", "admission", "cancelled", "step"} :
        /\ source' = [source EXCEPT ![s] = src]
        /\ pc' = [pc EXCEPT ![s] = p]
        /\ parked' = [parked EXCEPT ![s] = pk]
        /\ primed' = [primed EXCEPT ![s] = pr]
        /\ error' = [error EXCEPT ![s] = er]
        /\ src = "after_item" => p = "asleep"
        /\ src = "source" => p \in {"asleep", "poll"}
        /\ src = "dropped" => p = "over"
        /\ pk => src = "source" /\ p = "asleep"
        /\ pr => src = "after_item"
  <2>0. PICK step \in Steps : Advance(s, step)
    BY DEF Look, Begin
  <2>1. /\ parked = [parked EXCEPT ![s] = FALSE]
        /\ primed = [primed EXCEPT ![s] = FALSE]
        /\ error = [error EXCEPT ![s] = error[s]]
        /\ error[s] \in {"none", "admission", "cancelled", "step"}
        /\ committed[s] \in BOOLEAN
    BY <1>2 DEF IInv, TypeOK
  <2>2. CASE step = "emit"
    BY <2>0, <2>1, <2>2 DEF Advance, Goto
  <2>3. CASE step = "park"
    BY <2>0, <2>1, <2>3 DEF Advance, Goto
  <2>4. CASE step = "again"
    BY <2>0, <2>1, <2>4 DEF Advance, Goto
  <2>5. CASE step = "end"
    BY <2>0, <2>1, <2>5 DEF Advance, Goto
  <2>6. CASE step = "error"
    BY <2>0, <2>1, <2>6 DEF Advance, Fail, Goto
  <2>7. QED
    BY <2>2, <2>3, <2>4, <2>5, <2>6 DEF Steps
<1>4. PICK src \in {"after_item", "source", "dropped"}, p \in {"asleep", "poll", "over"},
         pk \in BOOLEAN, pr \in BOOLEAN, er \in {"none", "admission", "cancelled", "step"} :
        /\ source' = [source EXCEPT ![s] = src]
        /\ pc' = [pc EXCEPT ![s] = p]
        /\ parked' = [parked EXCEPT ![s] = pk]
        /\ primed' = [primed EXCEPT ![s] = pr]
        /\ error' = [error EXCEPT ![s] = er]
        /\ src = "after_item" => p = "asleep"
        /\ src = "source" => p \in {"asleep", "poll"}
        /\ src = "dropped" => p = "over"
        /\ pk => src = "source" /\ p = "asleep"
        /\ pr => src = "after_item"
  BY <1>3
<1>5. TypeOK'
  <2>1. /\ source' \in [Stream -> {"source", "after_item", "job", "dropped"}]
        /\ pc' \in [Stream -> {"asleep", "poll", "look", "submit", "relook", "expired",
                               "withdrawn", "cancelling", "over"}]
        /\ parked' \in [Stream -> BOOLEAN] /\ primed' \in [Stream -> BOOLEAN]
        /\ error' \in [Stream -> {"none", "admission", "timed_out", "cancelled", "step"}]
    BY <1>4 DEF IInv, TypeOK
  <2>2. /\ slot' \in [Stream -> {"idle", "pending", "queued", "running", "ready", "cancelled"}]
        /\ queued_ticket' \in [Stream -> Exec!Ticket \cup {NoTicket}]
        /\ committed' \in [Stream -> BOOLEAN]
    BY <1>1 DEF IInv, TypeOK
  <2>3. QED
    BY <1>1, <2>1, <2>2, SMTT(30) DEF IInv, TypeOK, execVars, jobVars
<1>6. \A t \in Exec!Ticket : of[t] = s => job[t] \notin Live
  BY DEF IInv, JobsFit, SlotOf, TypeOK
<1>7. JobsFit' /\ NoJobLeft'
  BY <1>1, <1>4, <1>6, SMTT(30) DEF IInv, TypeOK, JobsFit, SlotOf, NoJobLeft, jobVars
<1>8. TasksFit'
  BY <1>1, <1>4, SMTT(30) DEF IInv, TypeOK, TasksFit, TaskFits, jobVars
<1>9. WakersKept'
  BY <1>1, <1>4, SMTT(30) DEF IInv, TypeOK, WakersKept
<1>10. QED
  BY <1>1, <1>5, <1>7, <1>8, <1>9, TaskStep DEF IInv

-----------------------------------------------------------------------------
(* The submission and the queue timeout.                                   *)

\* The ticket is fresh and the slot says how the job was admitted.
LEMMA SubmitStep ==
  ASSUME IInv, NEW s \in Stream, Submit(s)
  PROVE  IInv'
<1>0. PICK n : n = next_ticket
  OBVIOUS
<1> DEFINE c == Exec!AdmissionClass
           e == [ticket |-> n, class |-> c]
<1>1. /\ pc[s] = "submit" /\ n < MaxTickets
      /\ queue' = Append(queue, e)
      /\ next_ticket' = n + 1
      /\ job' = [job EXCEPT ![n] = "queued"]
      /\ of' = [of EXCEPT ![n] = s]
      /\ waker' = [waker EXCEPT ![s] = TRUE]
      /\ pc' = [pc EXCEPT ![s] = "relook"]
      /\ UNCHANGED <<running, open, requested, woken, source, parked, primed, committed, error,
                     panicked>>
  BY <1>0 DEF Submit, Exec!Admit, Goto
<1>2. \/ /\ slot' = [slot EXCEPT ![s] = "queued"]
         /\ queued_ticket' = [queued_ticket EXCEPT ![s] = n]
         /\ was_queued' = was_queued \cup {n}
      \/ UNCHANGED <<slot, queued_ticket, was_queued>>
  BY <1>0 DEF Submit
<1>3. c \in Exec!Class /\ e.ticket = n
  BY DEF Exec!AdmissionClass, Exec!Class
<1> HIDE DEF c
<1>4. n \in Exec!Ticket /\ n \in Nat /\ queue \in Seq(Entry)
  BY <1>0, <1>1, Constants, SMTT(30) DEF IInv, TypeOK, Entry
<1>5. e \in Entry
  BY <1>3, <1>4 DEF Entry
<1>6. job[n] = "none" /\ n \notin Tickets(queue) /\ n \notin was_queued
  BY <1>0, <1>4, SMTT(30) DEF IInv, TicketsPlaced
<1> HIDE DEF e
<1>7. /\ queue' \in Seq(Entry) /\ Distinct(queue')
      /\ Tickets(queue') = Tickets(queue) \cup {n}
  BY <1>1, <1>3, <1>4, <1>5, <1>6, Admitted, SMTT(30) DEF IInv, TicketsPlaced
<1>8. source[s] = "job" /\ slot[s] = "pending" /\ error[s] # "timed_out"
  BY <1>1 DEF IInv, TypeOK, TasksFit, TaskFits
<1>9. \A t \in Exec!Ticket : of[t] = s => job[t] \notin Live
  BY <1>1 DEF IInv, NoJobLeft
<1>10. TypeOK'
  <2>1. /\ slot' \in [Stream -> {"idle", "pending", "queued", "running", "ready", "cancelled"}]
        /\ queued_ticket' \in [Stream -> Exec!Ticket \cup {NoTicket}]
        /\ was_queued' \subseteq Exec!Ticket
    <3>1. /\ slot \in [Stream -> {"idle", "pending", "queued", "running", "ready", "cancelled"}]
          /\ queued_ticket \in [Stream -> Exec!Ticket \cup {NoTicket}]
          /\ was_queued \subseteq Exec!Ticket
      BY DEF IInv, TypeOK
    <3>2. QED
      BY <1>2, <1>4, <3>1
  <2>2. /\ job' \in [Exec!Ticket -> {"none", "queued", "withdrawn", "claimed", "running",
                                     "finished", "skipped", "retired", "over"}]
        /\ of' \in [Exec!Ticket -> Stream \cup {NoStream}]
        /\ next_ticket' \in 0 .. MaxTickets
    BY <1>1, <1>4, Constants, SMTT(30) DEF IInv, TypeOK
  <2>3. /\ waker' \in [Stream -> BOOLEAN]
        /\ pc' \in [Stream -> {"asleep", "poll", "look", "submit", "relook", "expired",
                               "withdrawn", "cancelling", "over"}]
    BY <1>1 DEF IInv, TypeOK
  <2>4. QED
    BY <1>1, <1>7, <2>1, <2>2, <2>3, SMTT(30) DEF IInv, TypeOK, Entry
<1>11. TicketsPlaced'
  <2>1. \A t \in Exec!Ticket : t >= n + 1 <=> t >= n /\ t # n
    BY <1>4, Constants, SMTT(30)
  <2>2. \A t \in Exec!Ticket : t # n => job'[t] = job[t] /\ of'[t] = of[t]
                                        /\ (t \in was_queued' <=> t \in was_queued)
    BY <1>1, <1>2, SMTT(30) DEF IInv, TypeOK
  <2>3. job'[n] = "queued" /\ of'[n] = s
    BY <1>1, <1>4 DEF IInv, TypeOK
  <2>4. QED
    BY <1>0, <1>1, <1>7, <2>1, <2>2, <2>3, SMTT(30) DEF IInv, TicketsPlaced
<1>12. OneTransition'
  BY <1>1, <1>4, <1>9, SMTT(30) DEF IInv, TypeOK, OneTransition, Live
<1>13. JobsFit'
  <2>1. ASSUME NEW t \in Exec!Ticket, job'[t] \in Live, t # n
        PROVE  source'[of'[t]] = "job" /\ slot'[of'[t]] \in {"cancelled", SlotOf(t)'}
    <3>1. job'[t] = job[t] /\ of'[t] = of[t] /\ (t \in was_queued' <=> t \in was_queued)
      BY <1>1, <1>2, <2>1 DEF IInv, TypeOK
    <3>2. SlotOf(t)' = SlotOf(t)
      BY <3>1 DEF SlotOf
    <3>3. of[t] # s /\ of[t] \in Stream
      BY <1>9, <2>1, <3>1, SMTT(30) DEF IInv, TicketsPlaced, Live, OnWorker
    <3>4. slot'[of[t]] = slot[of[t]]
      BY <1>2, <3>3, SMTT(30) DEF IInv, TypeOK
    <3>5. QED
      BY <1>1, <2>1, <3>1, <3>2, <3>4 DEF IInv, JobsFit
  <2>2. source'[of'[n]] = "job" /\ slot'[of'[n]] = SlotOf(n)'
    <3>1. job'[n] = "queued" /\ of'[n] = s
      BY <1>1, <1>4 DEF IInv, TypeOK
    <3>2. slot'[s] = IF n \in was_queued' THEN "queued" ELSE "pending"
      BY <1>2, <1>6, <1>8, SMTT(30) DEF IInv, TypeOK
    <3>3. QED
      BY <1>1, <1>8, <3>1, <3>2 DEF SlotOf
  <2>3. QED
    BY <2>1, <2>2 DEF JobsFit
<1>14. NoJobLeft'
  BY <1>1, <1>4, <1>8, SMTT(30) DEF IInv, TypeOK, NoJobLeft, TasksFit, TaskFits
<1>15. TasksFit'
  <2>1. ASSUME NEW x \in Stream, queued_ticket'[x] # NoTicket
        PROVE  queued_ticket'[x] \in was_queued' /\ of'[queued_ticket'[x]] = x
    <3>1. queued_ticket'[x] = queued_ticket[x] \/ (x = s /\ queued_ticket'[x] = n)
      BY <1>2, SMTT(30) DEF IInv, TypeOK
    <3>2. CASE queued_ticket'[x] = queued_ticket[x]
      <4>1. of[queued_ticket[x]] = x /\ queued_ticket[x] \in was_queued
        BY <2>1, <3>2 DEF IInv, TypeOK, TasksFit, TaskFits
      <4>2. queued_ticket[x] # n /\ queued_ticket[x] \in Exec!Ticket
        BY <1>6, <4>1 DEF IInv, TypeOK
      <4>3. QED
        BY <1>1, <1>2, <3>2, <4>1, <4>2 DEF IInv, TypeOK
    <3>3. CASE queued_ticket'[x] # queued_ticket[x]
      BY <1>1, <1>2, <1>4, <3>1, <3>3, SMTT(30) DEF IInv, TypeOK
    <3>4. QED
      BY <3>2, <3>3
  <2>2. \A x \in Stream : x # s => slot'[x] = slot[x] /\ pc'[x] = pc[x]
    BY <1>1, <1>2, SMTT(30) DEF IInv, TypeOK
  <2>3. slot'[s] \in {"pending", "queued"} /\ pc'[s] = "relook"
    BY <1>1, <1>2, <1>8 DEF IInv, TypeOK
  <2>4. QED
    BY <1>1, <1>8, <2>1, <2>2, <2>3, SMTT(30) DEF IInv, TasksFit, TaskFits
<1>16. WakersKept'
  BY <1>1, <1>2, SMTT(30) DEF IInv, TypeOK, WakersKept
<1>17. QED
  BY <1>1, <1>10, <1>11, <1>12, <1>13, <1>14, <1>15, <1>16 DEF IInv

\* The executor refused the transition.
LEMMA RefusedStep ==
  ASSUME IInv, NEW s \in Stream, Refused(s)
  PROVE  IInv'
<1>1. /\ pc[s] = "submit"
      /\ slot' = [slot EXCEPT ![s] = "idle"]
      /\ panicked' = (panicked \/ slot[s] # "pending")
      /\ error' = [error EXCEPT ![s] = "admission"]
      /\ source' = [source EXCEPT ![s] = "dropped"]
      /\ pc' = [pc EXCEPT ![s] = "over"]
      /\ UNCHANGED <<execVars, requested, waker, woken, parked, primed,
                     committed, queued_ticket, jobVars>>
  BY DEF Refused, Fail, Goto
<1>2. ~panicked' /\ source[s] = "job"
  BY <1>1, SMTT(30) DEF IInv, TypeOK, TasksFit, TaskFits
<1>3. TypeOK'
  BY <1>1, <1>2 DEF IInv, TypeOK, execVars, jobVars
<1>4. \A t \in Exec!Ticket : of[t] = s => job[t] \notin Live
  BY <1>1 DEF IInv, NoJobLeft
<1>5. JobsFit' /\ NoJobLeft'
  BY <1>1, <1>4, SMTT(30) DEF IInv, TypeOK, JobsFit, SlotOf, NoJobLeft, jobVars
<1>6. TasksFit'
  BY <1>1, <1>2, SMTT(30) DEF IInv, TypeOK, TasksFit, TaskFits, jobVars
<1>7. WakersKept'
  BY <1>1, SMTT(30) DEF IInv, TypeOK, WakersKept
<1>8. QED
  BY <1>1, <1>2, <1>3, <1>5, <1>6, <1>7, TaskStep DEF IInv

\* cancel_queued found the job of ticket t.
LEMMA WithdrawJob ==
  ASSUME IInv, NEW t, Exec!Withdraw(t),
         job' = [job EXCEPT ![t] = "withdrawn"], UNCHANGED <<of, was_queued>>
  PROVE  /\ t \in Exec!Ticket /\ job[t] = "queued"
         /\ queue' \in Seq(Entry)
         /\ job' \in [Exec!Ticket -> {"none", "queued", "withdrawn", "claimed", "running",
                                      "finished", "skipped", "retired", "over"}]
         /\ UNCHANGED <<running, next_ticket, open>>
         /\ TicketsPlaced' /\ OneTransition'
<1>1. PICK i \in DOMAIN queue : queue[i].ticket = t /\ queue' = Without(queue, i)
  BY DEF Exec!Withdraw, Exec!RemoveAt, Without
<1>2. UNCHANGED <<running, next_ticket, open>>
  BY DEF Exec!Withdraw
<1>3. queue \in Seq(Entry)
  BY DEF IInv, TypeOK, Entry
<1>4. /\ queue' \in Seq(Entry) /\ Distinct(queue')
      /\ t \in Tickets(queue) /\ Tickets(queue') = Tickets(queue) \ {t}
  BY <1>1, <1>3, Withdrawn, SMTT(30) DEF IInv, TicketsPlaced
<1>5. t \in Exec!Ticket
  <2>1. queue[i] \in Entry
    BY <1>3, SMTT(30)
  <2>2. QED
    BY <1>1, <2>1 DEF Entry
<1>6. job[t] = "queued"
  BY <1>4, <1>5 DEF IInv, TicketsPlaced
<1>7. TicketsPlaced'
  <2>1. \A u \in Exec!Ticket : job'[u] = IF u = t THEN "withdrawn" ELSE job[u]
    BY DEF IInv, TypeOK
  <2>2. QED
    BY <1>2, <1>4, <1>5, <1>6, <2>1, SMTT(30) DEF IInv, TicketsPlaced
<1>8. OneTransition'
  BY <1>5, SMTT(30) DEF IInv, TypeOK, OneTransition, OnWorker
<1>9. QED
  BY <1>2, <1>4, <1>5, <1>6, <1>7, <1>8 DEF IInv, TypeOK

\* The queue timeout: the ticket is taken and cancel_queued tried.
LEMMA ExpireStep ==
  ASSUME IInv, NEW s \in Stream, Expire(s)
  PROVE  IInv'
<1>1. /\ pc[s] = "expired"
      /\ queued_ticket' = [queued_ticket EXCEPT ![s] = NoTicket]
      /\ UNCHANGED <<requested, slot, waker, woken, source, parked, primed, committed, error, of,
                     was_queued, panicked>>
  BY DEF Expire, slotVars
<1>2. source[s] = "job"
  BY <1>1, SMTT(30) DEF IInv, TypeOK, TasksFit, TaskFits
<1>3. CASE /\ Exec!Withdraw(queued_ticket[s])
           /\ job' = [job EXCEPT ![queued_ticket[s]] = "withdrawn"]
           /\ pc' = [pc EXCEPT ![s] = "withdrawn"]
  <2>0. PICK t : t = queued_ticket[s]
    OBVIOUS
  <2>1. /\ t \in Exec!Ticket /\ job[t] = "queued"
        /\ queue' \in Seq(Entry)
        /\ job' \in [Exec!Ticket -> {"none", "queued", "withdrawn", "claimed", "running",
                                     "finished", "skipped", "retired", "over"}]
        /\ UNCHANGED <<running, next_ticket, open>>
        /\ TicketsPlaced' /\ OneTransition'
    BY <1>1, <1>3, <2>0, WithdrawJob
  <2>2. of[t] = s
    BY <2>0, <2>1, Constants, SMTT(30) DEF IInv, TasksFit, TaskFits, NoTicket
  <2>3. \A u \in Exec!Ticket : of[u] = s => job'[u] \notin Live
    BY <1>3, <2>0, <2>1, <2>2, SMTT(30) DEF IInv, TypeOK, OneTransition, Live, OnWorker
  <2>4. TypeOK'
    <3>1. /\ queued_ticket' \in [Stream -> Exec!Ticket \cup {NoTicket}]
          /\ pc' \in [Stream -> {"asleep", "poll", "look", "submit", "relook", "expired",
                                 "withdrawn", "cancelling", "over"}]
      BY <1>1, <1>3 DEF IInv, TypeOK
    <3>2. QED
      BY <1>1, <2>1, <3>1, SMTT(30) DEF IInv, TypeOK, Entry
  <2>5. JobsFit'
    BY <1>1, <1>3, <2>0, <2>1, SMTT(30) DEF IInv, TypeOK, JobsFit, SlotOf, Live, OnWorker
  <2>6. NoJobLeft'
    BY <1>1, <1>3, <2>0, <2>1, <2>3, SMTT(30) DEF IInv, TypeOK, NoJobLeft, Live, OnWorker
  <2>7. TasksFit'
    BY <1>1, <1>2, <1>3, SMTT(30) DEF IInv, TypeOK, TasksFit, TaskFits
  <2>8. WakersKept'
    BY <1>1, <1>3, SMTT(30) DEF IInv, TypeOK, WakersKept
  <2>9. QED
    BY <1>1, <2>1, <2>4, <2>5, <2>6, <2>7, <2>8 DEF IInv
<1>4. CASE pc' = [pc EXCEPT ![s] = "asleep"] /\ UNCHANGED <<execVars, job>>
  <2>1. TypeOK'
    BY <1>1, <1>4 DEF IInv, TypeOK, execVars
  <2>2. JobsFit' /\ NoJobLeft'
    BY <1>1, <1>4 DEF IInv, TypeOK, JobsFit, SlotOf, NoJobLeft
  <2>3. TasksFit'
    BY <1>1, <1>2, <1>4, SMTT(30) DEF IInv, TypeOK, TasksFit, TaskFits
  <2>4. WakersKept'
    BY <1>1, <1>4, SMTT(30) DEF IInv, TypeOK, WakersKept
  <2>5. QED
    BY <1>1, <1>4, <2>1, <2>2, <2>3, <2>4, TaskStep, SMTT(30) DEF IInv, jobVars
<1>5. QED
  BY <1>3, <1>4 DEF Expire, Goto

\* The completion of a withdrawn job is cancelled.
LEMMA TimedOutStep ==
  ASSUME IInv, NEW s \in Stream, TimedOut(s)
  PROVE  IInv'
<1>1. /\ pc[s] = "withdrawn"
      /\ slot' = [slot EXCEPT ![s] = "cancelled"]
      /\ waker' = [waker EXCEPT ![s] = FALSE]
      /\ woken' = [woken EXCEPT ![s] = @ \/ waker[s]]
      /\ error' = [error EXCEPT ![s] = "timed_out"]
      /\ source' = [source EXCEPT ![s] = "dropped"]
      /\ pc' = [pc EXCEPT ![s] = "over"]
      /\ UNCHANGED <<execVars, requested, parked, primed, committed,
                     queued_ticket, jobVars, panicked>>
  BY DEF TimedOut, Wake, Fail, Goto
<1>2. source[s] = "job"
  BY <1>1, SMTT(30) DEF IInv, TypeOK, TasksFit, TaskFits
<1>3. \A t \in Exec!Ticket : of[t] = s => job[t] \notin Live
  BY <1>1 DEF IInv, NoJobLeft
<1>4. TypeOK'
  <2>1. /\ woken' \in [Stream -> BOOLEAN] /\ waker' \in [Stream -> BOOLEAN]
    BY <1>1 DEF IInv, TypeOK
  <2>2. QED
    BY <1>1, <2>1, SMTT(30) DEF IInv, TypeOK, execVars, jobVars
<1>5. JobsFit' /\ NoJobLeft'
  BY <1>1, <1>3, SMTT(30) DEF IInv, TypeOK, JobsFit, SlotOf, NoJobLeft, jobVars
<1>6. TasksFit'
  BY <1>1, <1>2, SMTT(30) DEF IInv, TypeOK, TasksFit, TaskFits, jobVars
<1>7. WakersKept'
  BY <1>1, SMTT(30) DEF IInv, TypeOK, WakersKept
<1>8. QED
  BY <1>1, <1>4, <1>5, <1>6, <1>7, TaskStep DEF IInv

-----------------------------------------------------------------------------
(* Cancellation and shutdown.                                              *)

\* cancel_now: what the source owns goes, and its queued job.
LEMMA CancelNowStep ==
  ASSUME IInv, NEW s \in Stream, CancelNow(s)
  PROVE  IInv'
<1>1. /\ pc[s] = "asleep"
      /\ pc' = [pc EXCEPT ![s] = "cancelling"]
      /\ error' = [error EXCEPT ![s] = "cancelled"]
      /\ parked' = [parked EXCEPT ![s] = FALSE]
      /\ primed' = [primed EXCEPT ![s] = FALSE]
      /\ queued_ticket' = [queued_ticket EXCEPT ![s] = NoTicket]
      /\ UNCHANGED <<requested, slot, waker, woken, committed, of, was_queued, panicked>>
  BY DEF CancelNow, Goto, slotVars
<1>2. PICK src \in {"job", "dropped"} :
        source' = [source EXCEPT ![s] = src] /\ (src = "job" <=> source[s] = "job")
  BY DEF CancelNow
<1>3. TypeOK /\ error[s] # "timed_out"
  BY <1>1 DEF IInv, TypeOK, TasksFit, TaskFits
<1>4. /\ queue' \in Seq(Entry)
      /\ job' \in [Exec!Ticket -> {"none", "queued", "withdrawn", "claimed", "running",
                                   "finished", "skipped", "retired", "over"}]
      /\ UNCHANGED <<running, next_ticket, open>>
      /\ TicketsPlaced' /\ OneTransition'
      /\ \A t \in Exec!Ticket : job'[t] \in {job[t], "withdrawn"}
  <2>1. CASE /\ Exec!Withdraw(queued_ticket[s])
             /\ job' = [job EXCEPT ![queued_ticket[s]] = "withdrawn"]
    <3>0. PICK t : t = queued_ticket[s]
      OBVIOUS
    <3>1. /\ Exec!Withdraw(t) /\ job' = [job EXCEPT ![t] = "withdrawn"]
          /\ UNCHANGED <<of, was_queued>>
      BY <1>1, <2>1, <3>0
    <3>2. \A u \in Exec!Ticket : job'[u] \in {job[u], "withdrawn"}
      BY <1>3, <3>1 DEF TypeOK
    <3>3. QED
      BY <3>1, <3>2, WithdrawJob
  <2>2. CASE UNCHANGED <<execVars, job>>
    <3>1. TicketsPlaced' /\ OneTransition'
      BY <1>1, <2>2, TaskStep DEF IInv, jobVars
    <3>2. QED
      BY <1>3, <2>2, <3>1 DEF TypeOK, Entry, execVars
  <2>3. QED
    BY <2>1, <2>2 DEF CancelNow
<1>5. TypeOK'
  <2>1. /\ queued_ticket' \in [Stream -> Exec!Ticket \cup {NoTicket}]
        /\ pc' \in [Stream -> {"asleep", "poll", "look", "submit", "relook", "expired",
                               "withdrawn", "cancelling", "over"}]
        /\ error' \in [Stream -> {"none", "admission", "timed_out", "cancelled", "step"}]
        /\ parked' \in [Stream -> BOOLEAN] /\ primed' \in [Stream -> BOOLEAN]
        /\ source' \in [Stream -> {"source", "after_item", "job", "dropped"}]
    BY <1>1, <1>2 DEF IInv, TypeOK
  <2>2. QED
    BY <1>1, <1>4, <2>1, SMTT(30) DEF IInv, TypeOK, Entry
<1>6. JobsFit'
  <2>1. ASSUME NEW t \in Exec!Ticket, job'[t] \in Live
        PROVE  source'[of'[t]] = "job" /\ slot'[of'[t]] \in {"cancelled", SlotOf(t)'}
    <3>1. job'[t] = job[t]
      BY <1>4, <2>1 DEF Live, OnWorker
    <3>2. SlotOf(t)' = SlotOf(t)
      BY <1>1, <3>1 DEF SlotOf
    <3>3. source[of[t]] = "job" /\ slot[of[t]] \in {"cancelled", SlotOf(t)}
      BY <2>1, <3>1 DEF IInv, JobsFit
    <3>4. QED
      BY <1>1, <1>2, <3>2, <3>3, SMTT(30) DEF IInv, TypeOK
  <2>2. QED
    BY <2>1 DEF JobsFit
<1>7. NoJobLeft'
  BY <1>1, <1>4, SMTT(30) DEF IInv, TypeOK, NoJobLeft, Live, OnWorker
<1>8. TasksFit'
  BY <1>1, <1>2, SMTT(30) DEF IInv, TypeOK, TasksFit, TaskFits
<1>9. WakersKept'
  BY <1>1, SMTT(30) DEF IInv, TypeOK, WakersKept
<1>10. QED
  BY <1>1, <1>4, <1>5, <1>6, <1>7, <1>8, <1>9 DEF IInv

\* cancel_now: then the slot is cancelled.
LEMMA CancelSlotStep ==
  ASSUME IInv, NEW s \in Stream, CancelSlot(s)
  PROVE  IInv'
<1>1. /\ pc[s] = "cancelling"
      /\ slot' = [slot EXCEPT ![s] = "cancelled"]
      /\ waker' = [waker EXCEPT ![s] = FALSE]
      /\ woken' = [woken EXCEPT ![s] = @ \/ waker[s]]
      /\ pc' = [pc EXCEPT ![s] = "over"]
      /\ UNCHANGED <<execVars, requested, source, parked, primed, committed,
                     queued_ticket, error, jobVars, panicked>>
  BY DEF CancelSlot, Wake, Goto
<1>2. TypeOK'
  <2>1. /\ woken' \in [Stream -> BOOLEAN] /\ waker' \in [Stream -> BOOLEAN]
    BY <1>1 DEF IInv, TypeOK
  <2>2. QED
    BY <1>1, <2>1, SMTT(30) DEF IInv, TypeOK, execVars, jobVars
<1>3. JobsFit' /\ NoJobLeft'
  BY <1>1, SMTT(30) DEF IInv, TypeOK, JobsFit, SlotOf, NoJobLeft, jobVars
<1>4. TasksFit'
  BY <1>1, SMTT(30) DEF IInv, TypeOK, TasksFit, TaskFits, jobVars
<1>5. WakersKept'
  BY <1>1, SMTT(30) DEF IInv, TypeOK, WakersKept
<1>6. QED
  BY <1>1, <1>2, <1>3, <1>4, <1>5, TaskStep DEF IInv

\* A shutdown is requested, or admission stops.
LEMMA ShutdownStep ==
  ASSUME IInv, RequestShutdown \/ StopAdmission \/ UNCHANGED vars
  PROVE  IInv'
<1>1. UNCHANGED <<queue, next_ticket, running, slot, waker, sourceVars, jobVars, panicked>>
  BY DEF RequestShutdown, StopAdmission, Exec!Close, vars, execVars, slotVars
<1>2. /\ woken' \in {woken, [s \in Stream |-> TRUE]}
      /\ open' \in {open, FALSE} /\ requested' \in {requested, TRUE}
  BY DEF RequestShutdown, StopAdmission, Exec!Close, vars, execVars, slotVars
<1>3. TypeOK'
  <2>1. woken' \in [Stream -> BOOLEAN]
    BY <1>2 DEF IInv, TypeOK
  <2>2. open' \in BOOLEAN /\ requested' \in BOOLEAN
    BY <1>2 DEF IInv, TypeOK
  <2>3. QED
    BY <1>1, <2>1, <2>2, SMTT(30) DEF IInv, TypeOK, sourceVars, jobVars
<1>4. TicketsPlaced' /\ OneTransition'
  BY <1>1 DEF IInv, TicketsPlaced, OneTransition, jobVars
<1>5. JobsFit' /\ NoJobLeft' /\ TasksFit'
  BY <1>1, SMTT(30) DEF IInv, JobsFit, SlotOf, NoJobLeft, TasksFit, TaskFits, sourceVars, jobVars
<1>6. WakersKept'
  BY <1>1, <1>2, SMTT(30) DEF IInv, TypeOK, WakersKept, sourceVars
<1>7. QED
  BY <1>1, <1>3, <1>4, <1>5, <1>6 DEF IInv

-----------------------------------------------------------------------------
(* The job's steps.                                                        *)

\* A worker claims the transition at the head of the ring.
LEMMA ClaimStep ==
  ASSUME IInv, NEW t \in Exec!Ticket, ClaimJob(t)
  PROVE  IInv'
<1>1. /\ queue # <<>> /\ t = Head(queue).ticket
      /\ running' = running \cup {t} /\ queue' = Tail(queue)
      /\ job' = [job EXCEPT ![t] = "claimed"]
      /\ UNCHANGED <<next_ticket, open, requested, slotVars, sourceVars, of, was_queued, panicked>>
  BY DEF ClaimJob, Exec!Start
<1>2. queue \in Seq(Entry)
  BY DEF IInv, TypeOK, Entry
<1>3. /\ queue' \in Seq(Entry) /\ Distinct(queue')
      /\ t \in Tickets(queue) /\ Tickets(queue') = Tickets(queue) \ {t}
  BY <1>1, <1>2, Claimed DEF IInv, TicketsPlaced
<1>4. job[t] = "queued"
  BY <1>3 DEF IInv, TicketsPlaced
<1>5. TypeOK'
  BY <1>1, <1>3, SMTT(30) DEF IInv, TypeOK, Entry, slotVars, sourceVars
<1>6. \A u \in Exec!Ticket : job'[u] = IF u = t THEN "claimed" ELSE job[u]
  BY <1>1 DEF IInv, TypeOK
<1>7. TicketsPlaced'
  BY <1>1, <1>3, <1>4, <1>6, SMTT(30) DEF IInv, TicketsPlaced
<1>8. OneTransition'
  BY <1>1, <1>4, <1>6, SMTT(30) DEF IInv, OneTransition, OnWorker
<1>9. JobsFit' /\ NoJobLeft'
  BY <1>1, <1>4, <1>6, SMTT(30) DEF IInv, JobsFit, SlotOf, NoJobLeft, Live, OnWorker, slotVars, sourceVars
<1>10. TasksFit' /\ WakersKept'
  BY <1>1 DEF IInv, TasksFit, TaskFits, WakersKept, slotVars, sourceVars
<1>11. QED
  BY <1>1, <1>5, <1>7, <1>8, <1>9, <1>10, SMTT(30) DEF IInv

\* A job that a worker has keeps its stream, and none other becomes live.
LEMMA WorkerStep ==
  ASSUME IInv, NEW t \in Exec!Ticket, job[t] \in OnWorker,
         NEW j \in OnWorker \cup {"over"}, job' = [job EXCEPT ![t] = j],
         UNCHANGED <<queue, next_ticket, of, was_queued, sourceVars>>
  PROVE  /\ of[t] \in Stream
         /\ job' \in [Exec!Ticket -> {"none", "queued", "withdrawn", "claimed", "running",
                                      "finished", "skipped", "retired", "over"}]
         /\ \A u \in Exec!Ticket : u # t => job'[u] = job[u] /\ SlotOf(u)' = SlotOf(u)
         /\ \A u \in Exec!Ticket : u # t /\ job[u] \in Live => of[u] # of[t]
         /\ TicketsPlaced' /\ OneTransition' /\ NoJobLeft'
<1>1. \A u \in Exec!Ticket : job'[u] = IF u = t THEN j ELSE job[u]
  BY DEF IInv, TypeOK
<1>2. of[t] \in Stream
  BY DEF IInv, TicketsPlaced, OnWorker
<1>3. TicketsPlaced'
  BY <1>1 DEF IInv, TicketsPlaced, OnWorker
<1>4. OneTransition' /\ NoJobLeft'
  BY <1>1, SMTT(30) DEF IInv, OneTransition, NoJobLeft, Live, OnWorker, sourceVars
<1>5. \A u \in Exec!Ticket : u # t /\ job[u] \in Live => of[u] # of[t]
  BY DEF IInv, OneTransition, Live
<1>6. \A u \in Exec!Ticket : u # t => SlotOf(u)' = SlotOf(u)
  BY <1>1 DEF SlotOf
<1>7. job' \in [Exec!Ticket -> {"none", "queued", "withdrawn", "claimed", "running",
                                "finished", "skipped", "retired", "over"}]
  BY DEF IInv, TypeOK, OnWorker
<1>8. QED
  BY <1>1, <1>2, <1>3, <1>4, <1>5, <1>6, <1>7

\* A step of the job that leaves the slot alone.
LEMMA QuietJobStep ==
  ASSUME IInv, NEW t \in Exec!Ticket, NEW j, job' = [job EXCEPT ![t] = j],
         \/ job[t] = "claimed" /\ slot[of[t]] = "cancelled" /\ j = "skipped"
         \/ job[t] = "running" /\ j = "finished"
         \/ job[t] = "finished" /\ j = "retired"
         \/ job[t] = "skipped" /\ j = "over"
         \/ job[t] = "retired" /\ slot[of[t]] = "cancelled" /\ j = "over",
         running' \subseteq running,
         UNCHANGED <<queue, next_ticket, open, requested, slotVars, sourceVars, of, was_queued,
                     panicked>>
  PROVE  IInv'
<1>1. job[t] \in OnWorker /\ j \in OnWorker \cup {"over"}
  BY DEF OnWorker
<1>2. /\ of[t] \in Stream
      /\ job' \in [Exec!Ticket -> {"none", "queued", "withdrawn", "claimed", "running",
                                   "finished", "skipped", "retired", "over"}]
      /\ \A u \in Exec!Ticket : u # t => job'[u] = job[u] /\ SlotOf(u)' = SlotOf(u)
      /\ TicketsPlaced' /\ OneTransition' /\ NoJobLeft'
  BY <1>1, WorkerStep
<1>3. TypeOK'
  BY <1>2 DEF IInv, TypeOK, slotVars, sourceVars
<1>4. job'[t] = j
  BY DEF IInv, TypeOK
<1>5. JobsFit'
  <2>1. ASSUME NEW u \in Exec!Ticket, u # t, job'[u] \in Live
        PROVE  source'[of'[u]] = "job" /\ slot'[of'[u]] \in {"cancelled", SlotOf(u)'}
    BY <1>2, <2>1 DEF IInv, JobsFit, slotVars, sourceVars
  <2>2. ASSUME job'[t] \in Live
        PROVE  source'[of'[t]] = "job" /\ slot'[of'[t]] \in {"cancelled", SlotOf(t)'}
    BY <1>1, <1>4, <2>2 DEF IInv, JobsFit, SlotOf, Live, OnWorker, slotVars, sourceVars
  <2>3. QED
    BY <2>1, <2>2 DEF JobsFit
<1>6. TasksFit' /\ WakersKept'
  BY SMTT(30) DEF IInv, TasksFit, TaskFits, WakersKept, slotVars, sourceVars
<1>7. QED
  BY <1>2, <1>3, <1>5, <1>6 DEF IInv

\* A step of the job that moves the slot on and wakes the task: nothing here
\* panics, and the task that sleeps has its wake.
LEMMA SlotStep ==
  ASSUME IInv, NEW t \in Exec!Ticket, NEW j, job' = [job EXCEPT ![t] = j],
         NEW s, s = of[t], NEW x, slot' = [slot EXCEPT ![s] = x],
         slot[s] # "cancelled", Wake(s), ~panicked', panicked' \in BOOLEAN,
         \/ job[t] = "claimed" /\ j = "running" /\ x = "running"
         \/ job[t] = "retired" /\ j = "over" /\ x = "ready",
         UNCHANGED <<execVars, requested, sourceVars, of, was_queued>>
  PROVE  IInv'
<1>1. job[t] \in OnWorker /\ j \in OnWorker \cup {"over"} /\ job[t] \in Live
  BY DEF OnWorker, Live
<1>2. UNCHANGED <<queue, running, next_ticket, open>>
  BY DEF execVars
<1>3. /\ s \in Stream
      /\ job' \in [Exec!Ticket -> {"none", "queued", "withdrawn", "claimed", "running",
                                   "finished", "skipped", "retired", "over"}]
      /\ \A u \in Exec!Ticket : u # t => job'[u] = job[u] /\ SlotOf(u)' = SlotOf(u)
      /\ \A u \in Exec!Ticket : u # t /\ job[u] \in Live => of[u] # s
      /\ TicketsPlaced' /\ OneTransition' /\ NoJobLeft'
  BY <1>1, <1>2, WorkerStep
<1>4. /\ waker' = [waker EXCEPT ![s] = FALSE]
      /\ woken' = [woken EXCEPT ![s] = @ \/ waker[s]]
  BY DEF Wake
<1>5. source[s] = "job" /\ slot[s] = SlotOf(t)
  BY <1>1 DEF IInv, JobsFit
<1>6. slot[s] \notin {"idle", "ready"} /\ pc[s] # "submit"
  <2>1. slot[s] \notin {"idle", "ready"}
    BY <1>1, <1>5 DEF SlotOf, OnWorker
  <2>2. pc[s] # "submit"
    BY <1>1, <1>3 DEF IInv, NoJobLeft
  <2>3. QED
    BY <2>1, <2>2
<1>7. TypeOK'
  <2>1. /\ slot' \in [Stream -> {"idle", "pending", "queued", "running", "ready", "cancelled"}]
        /\ woken' \in [Stream -> BOOLEAN] /\ waker' \in [Stream -> BOOLEAN]
    BY <1>3, <1>4 DEF IInv, TypeOK
  <2>2. QED
    BY <1>2, <1>3, <2>1, SMTT(30) DEF IInv, TypeOK, sourceVars
<1>8. JobsFit'
  <2>1. ASSUME NEW u \in Exec!Ticket, u # t, job'[u] \in Live
        PROVE  source'[of'[u]] = "job" /\ slot'[of'[u]] \in {"cancelled", SlotOf(u)'}
    <3>1. source[of[u]] = "job" /\ slot[of[u]] \in {"cancelled", SlotOf(u)} /\ of[u] # s
      BY <1>3, <2>1 DEF IInv, JobsFit
    <3>2. of[u] \in Stream
      BY <1>3, <2>1 DEF IInv, TicketsPlaced, Live, OnWorker
    <3>3. QED
      BY <1>3, <2>1, <3>1, <3>2, SMTT(30) DEF IInv, TypeOK, sourceVars
  <2>2. ASSUME job'[t] \in Live
        PROVE  source'[of'[t]] = "job" /\ slot'[of'[t]] \in {"cancelled", SlotOf(t)'}
    <3>1. job'[t] = j /\ slot'[s] = x
      BY <1>3 DEF IInv, TypeOK
    <3>2. QED
      BY <1>5, <2>2, <3>1 DEF SlotOf, Live, OnWorker, sourceVars
  <2>3. QED
    BY <2>1, <2>2 DEF JobsFit
<1>9. TasksFit'
  <2>1. \A y \in Stream : slot'[y] = IF y = s THEN x ELSE slot[y]
    BY DEF IInv, TypeOK
  <2>2. x \in {"running", "ready"}
    OBVIOUS
  <2>3. QED
    BY <1>5, <1>6, <2>1, <2>2, SMTT(30) DEF IInv, TasksFit, TaskFits, sourceVars
<1>10. WakersKept'
  <2>1. \A y \in Stream : y # s => slot'[y] = slot[y] /\ waker'[y] = waker[y] /\ woken'[y] = woken[y]
    BY <1>4 DEF IInv, TypeOK
  <2>2. woken'[s] = (woken[s] \/ waker[s])
    BY <1>3, <1>4 DEF IInv, TypeOK
  <2>3. pc[s] \in {"asleep", "look", "relook", "expired"} => waker[s] \/ woken[s]
    BY <1>3, <1>6 DEF IInv, WakersKept
  <2>4. QED
    BY <2>1, <2>2, <2>3 DEF IInv, WakersKept, sourceVars
<1>11. QED
  BY <1>3, <1>7, <1>8, <1>9, <1>10 DEF IInv

\* What a worker does with a transition, from its claim to its result.
LEMMA JobStep ==
  ASSUME IInv, NEW t \in Exec!Ticket, Worker(t)
  PROVE  IInv'
<1>1. CASE StartRunning(t)
  <2>1. CASE slot[of[t]] = "cancelled"
    BY <1>1, <2>1, QuietJobStep DEF StartRunning, execVars, slotVars
  <2>2. CASE slot[of[t]] # "cancelled"
    <3>0. PICK s : s = of[t]
      OBVIOUS
    <3>1. /\ job[t] = "claimed"
          /\ job' = [job EXCEPT ![t] = "running"]
          /\ slot' = [slot EXCEPT ![s] = "running"]
          /\ Wake(s)
          /\ panicked' = (panicked \/ slot[s] # IF t \in was_queued THEN "queued" ELSE "pending")
          /\ UNCHANGED <<execVars, requested, sourceVars, of, was_queued>>
      BY <1>1, <2>2, <3>0 DEF StartRunning
    <3>2. slot[s] = IF t \in was_queued THEN "queued" ELSE "pending"
      BY <2>2, <3>0, <3>1 DEF IInv, JobsFit, SlotOf, Live, OnWorker
    <3>3. ~panicked' /\ panicked' \in BOOLEAN
      BY <3>1, <3>2 DEF IInv
    <3>4. QED
      BY <2>2, <3>0, <3>1, <3>3, SlotStep
  <2>3. QED
    BY <2>1, <2>2
<1>2. CASE RocReturns(t)
  BY <1>2, QuietJobStep DEF RocReturns, execVars
<1>3. CASE RetireJob(t)
  <2>1. /\ job[t] \in {"finished", "skipped"}
        /\ running' \subseteq running
        /\ job' = [job EXCEPT ![t] = IF job[t] = "skipped" THEN "over" ELSE "retired"]
        /\ UNCHANGED <<queue, next_ticket, open, requested, slotVars, sourceVars, of, was_queued,
                       panicked>>
    BY <1>3 DEF RetireJob, Exec!Finish
  <2>2. QED
    BY <2>1, QuietJobStep
<1>4. CASE Complete(t)
  <2>1. CASE slot[of[t]] = "cancelled"
    BY <1>4, <2>1, QuietJobStep DEF Complete, execVars
  <2>2. CASE slot[of[t]] # "cancelled"
    <3>0. PICK s : s = of[t]
      OBVIOUS
    <3>1. /\ job[t] = "retired"
          /\ job' = [job EXCEPT ![t] = "over"]
          /\ slot' = [slot EXCEPT ![s] = "ready"]
          /\ Wake(s)
          /\ panicked' = (panicked \/ slot[s] # "running")
          /\ UNCHANGED <<execVars, requested, sourceVars, of, was_queued>>
      BY <1>4, <2>2, <3>0 DEF Complete
    <3>2. slot[s] = "running"
      BY <2>2, <3>0, <3>1 DEF IInv, JobsFit, SlotOf, Live, OnWorker
    <3>3. ~panicked' /\ panicked' \in BOOLEAN
      BY <3>1, <3>2 DEF IInv
    <3>4. QED
      BY <2>2, <3>0, <3>1, <3>3, SlotStep
  <2>3. QED
    BY <2>1, <2>2
<1>5. QED
  BY <1>1, <1>2, <1>3, <1>4, ClaimStep DEF Worker

-----------------------------------------------------------------------------
(* The theorems.                                                           *)

\* The invariant holds before the first poll.
LEMMA InitHolds == ASSUME Init PROVE IInv
<1>1. queue = <<>> /\ running = {} /\ next_ticket = 0 /\ open = TRUE
  BY DEF Init, Exec!Init
<1>2. Tickets(queue) = {} /\ Distinct(queue)
  BY <1>1, SMTT(30) DEF Tickets, Distinct
<1>3. TypeOK
  <2>1. queue \in Seq([ticket : Exec!Ticket, class : Exec!Class])
    BY <1>1, SMTT(30)
  <2>2. {open, requested, panicked} \subseteq BOOLEAN
    BY <1>1 DEF Init
  <2>3. {waker, woken, parked, primed, committed} \subseteq [Stream -> BOOLEAN]
    BY DEF Init
  <2>4. QED
    BY <1>1, <2>1, <2>2, <2>3, Constants, SMTT(30) DEF Init, TypeOK
<1>4. TicketsPlaced
  BY <1>1, <1>2, Constants, SMTT(30) DEF Init, TicketsPlaced
<1>5. OneTransition /\ JobsFit /\ NoJobLeft
  BY DEF Init, OneTransition, JobsFit, NoJobLeft, Live, OnWorker
<1>6. TasksFit /\ WakersKept
  BY DEF Init, TasksFit, TaskFits, WakersKept
<1>7. QED
  BY <1>3, <1>4, <1>5, <1>6 DEF Init, IInv

\* Every step of the specification preserves the invariant.
LEMMA StepHolds == ASSUME IInv, [Next]_vars PROVE IInv'
<1>1. ASSUME NEW s \in Stream, Task(s) PROVE IInv'
  <2>1. CASE Look(s)
    <3>1. \/ Begin(s)
          \/ slot[s] \in {"queued", "pending", "running"}
          \/ slot[s] = "ready"
      BY <2>1 DEF Look
    <3>2. QED
      BY <2>1, <3>1, BeginStep, UnderWayStep, ReadyStep
  <2>2. QED
    BY <1>1, <2>1, RegisterStep, SubmitStep, RefusedStep, ExpireStep, TimedOutStep,
       CancelSlotStep DEF Task
<1>2. QED
  BY <1>1, PollStep, WakeTimerStep, ItemDrainedStep, CancelNowStep, JobStep, ShutdownStep
     DEF Next, Finished, OutOfTickets

\* The slots, the tasks, the wakers and the jobs stay consistent.
THEOREM Invariance == Spec => []IInv
BY InitHolds, StepHolds, PTL DEF Spec

\* However polls, timeouts, cancellations and workers interleave, a slot serves
\* one transition at a time and none of its assertions fails.
THEOREM SlotNeverShared == Spec => []TransitionsExclusive
<1>1. IInv => TransitionsExclusive
  BY DEF IInv, TransitionsExclusive, NoInvalidState
<1>2. QED
  BY <1>1, Invariance, PTL

\* The result of a transition is never missed by the task that waits for it.
THEOREM WakeupsNeverLost == Spec => []WakeupKept
<1>1. IInv => WakeupKept
  BY DEF IInv, WakersKept, WakeupKept
<1>2. QED
  BY <1>1, Invariance, PTL

\* A transition that was reported as timed out never runs.
THEOREM TimedOutTransitionsNeverRun == Spec => []TimedOutNeverRuns
<1>1. ASSUME IInv PROVE TimedOutNeverRuns
  <2> SUFFICES ASSUME NEW t \in Exec!Ticket, of[t] # NoStream, error[of[t]] = "timed_out"
               PROVE  job[t] \in {"withdrawn", "over"}
    BY DEF TimedOutNeverRuns
  <2>1. of[t] \in Stream /\ job[t] # "none"
    BY <1>1 DEF IInv, TypeOK, TicketsPlaced
  <2>2. job[t] \notin Live
    BY <1>1, <2>1 DEF IInv, NoJobLeft
  <2>3. QED
    BY <1>1, <2>1, <2>2 DEF IInv, TypeOK, Live, OnWorker
<1>2. QED
  BY <1>1, Invariance, PTL
=============================================================================
