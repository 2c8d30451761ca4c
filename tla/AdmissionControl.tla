-------------------------- MODULE AdmissionControl --------------------------
(***************************************************************************)
(* What the fixed-worker executor promises to the code that submits Roc    *)
(* work to it, whatever its locks, its condition variable and its threads  *)
(* do: bounded first-come-first-served admission, at most one running job  *)
(* per worker, a job runs once or is withdrawn before it runs, and none is *)
(* admitted once admission is closed.  The modules about requests and      *)
(* streams build on this specification instead of on the executor.         *)
(***************************************************************************)
EXTENDS Integers, FiniteSets, Sequences

CONSTANTS
  Workers,    \* how many jobs may run at once
  Waiting,    \* how many more may be admitted
  MaxTickets  \* bound: how many jobs are ever admitted

VARIABLES
  queue,        \* admitted jobs that have not started: [ticket, class]
  running,      \* the tickets of started jobs that still hold capacity
  next_ticket,
  open          \* admission is open

vars == <<queue, running, next_ticket, open>>

Capacity == Workers + Waiting
Ticket == 0 .. MaxTickets - 1
Class == {"Active", "Queued"}
Load == Len(queue) + Cardinality(running)
AdmissionClass == IF Load < Workers THEN "Active" ELSE "Queued"
RemoveAt(s, i) == SubSeq(s, 1, i - 1) \o SubSeq(s, i + 1, Len(s))
QueuedTickets == {queue[i].ticket : i \in DOMAIN queue}

Init ==
  /\ queue = <<>>
  /\ running = {}
  /\ next_ticket = 0
  /\ open = TRUE

Admit ==
  /\ open
  /\ Load < Capacity
  /\ next_ticket < MaxTickets
  /\ queue' = Append(queue, [ticket |-> next_ticket, class |-> AdmissionClass])
  /\ next_ticket' = next_ticket + 1
  /\ UNCHANGED <<running, open>>

Start ==
  /\ queue # <<>>
  /\ Cardinality(running) < Workers
  /\ running' = running \cup {Head(queue).ticket}
  /\ queue' = Tail(queue)
  /\ UNCHANGED <<next_ticket, open>>

Finish(t) ==
  /\ t \in running
  /\ running' = running \ {t}
  /\ UNCHANGED <<queue, next_ticket, open>>

\* Only a job that was admitted as Queued may be withdrawn.
Withdraw(t) ==
  /\ \E i \in DOMAIN queue :
       /\ queue[i].ticket = t
       /\ queue[i].class = "Queued"
       /\ queue' = RemoveAt(queue, i)
  /\ UNCHANGED <<running, next_ticket, open>>

Close ==
  /\ open
  /\ open' = FALSE
  /\ UNCHANGED <<queue, running, next_ticket>>

Next ==
  \/ Admit
  \/ Start
  \/ \E t \in Ticket : Finish(t) \/ Withdraw(t)
  \/ Close

Spec == Init /\ [][Next]_vars

\* Every admitted job leaves the executor: it ran, or it was withdrawn.
EveryJobSettles ==
  \A t \in Ticket :
    (t \in QueuedTickets \cup running) ~> (t \notin QueuedTickets \cup running)
=============================================================================
