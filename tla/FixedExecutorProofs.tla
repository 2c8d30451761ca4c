------------------------ MODULE FixedExecutorProofs ------------------------
(***************************************************************************)
(* Proofs about FixedExecutor, for any finite set of workers, any number   *)
(* of waiting places and any number of submissions.                        *)
(***************************************************************************)
EXTENDS FixedExecutor, AdmissionQueueLemmas, FiniteSetTheorems, TLAPS

\* Zenon proves most leaves; the ones that need arithmetic, records or sequences
\* name SMT.
USE ZenonT(60)

\* What removing the entry at position i does to the ring.
LEMMA RemoveAtFacts ==
  ASSUME NEW S, NEW q \in Seq(S), NEW i \in 1 .. Len(q)
  PROVE  /\ RemoveAt(q, i) \in Seq(S)
         /\ Len(RemoveAt(q, i)) = Len(q) - 1
         /\ \A j \in 1 .. Len(q) - 1 :
              RemoveAt(q, i)[j] = IF j < i THEN q[j] ELSE q[j + 1]
<1>1. RemoveAt(q, i) = Without(q, i)
  BY DEF RemoveAt, Without
<1>2. QED
  BY <1>1, WithoutFacts DEF Lacks

\* The workers whose jobs count are finitely many, at most one per thread.
LEMMA UnretiredFinite ==
  /\ IsFiniteSet(Unretired)
  /\ Cardinality(Unretired) \in Nat
  /\ Cardinality(Unretired) <= NumWorkers
  /\ NumWorkers \in Nat
BY WorkerAssumption, FS_Subset, FS_CardinalityType DEF Unretired, NumWorkers

\* The four conjuncts of IInv about jobs.
JobsInv == CapacityExact /\ ActiveHasWorker /\ ClaimedInOrder /\ TicketsPlaced

\* A step that moves no job, and starts and ends no execution, keeps them.
LEMMA QuietStep ==
  ASSUME TypeOK, JobsInv,
         UNCHANGED <<queue, outstanding, next_ticket>>,
         \A w \in Worker :
           /\ pc'[w] = "executing" <=> pc[w] = "executing"
           /\ pc'[w] = "publishing" => pc[w] = "publishing"
           /\ pc'[w] \in {"executing", "publishing"} => holds'[w] = holds[w]
  PROVE  JobsInv'
<1>1. Unretired' = Unretired
  BY DEF Unretired
<1>2. CapacityExact'
  BY <1>1 DEF JobsInv, CapacityExact
<1>3. ActiveHasWorker'
  BY <1>1 DEF JobsInv, ActiveHasWorker
<1>4. ClaimedInOrder'
  BY DEF JobsInv, ClaimedInOrder
<1>5. TicketsPlaced'
  BY DEF JobsInv, TicketsPlaced
<1>6. QED
  BY <1>2, <1>3, <1>4, <1>5 DEF JobsInv

\* try_submit keeps the accounting: the new entry is last, and it is Active
\* only if the jobs ahead of it leave a worker for it.
LEMMA AcceptStep ==
  ASSUME TypeOK, JobsInv, OwnerProgress, Accept
  PROVE  TypeOK' /\ JobsInv' /\ OwnerProgress'
<1> DEFINE e == [ticket |-> next_ticket, class |-> AdmissionClass]
           E == [ticket : Ticket, class : Class]
<1>1. e \in E
  BY BoundsAssumption, SMTT(30) DEF TypeOK, Accept, AdmissionClass, Class, Ticket
<1>2. queue \in Seq(E) /\ Len(queue) \in Nat /\ DOMAIN queue = 1 .. Len(queue)
  BY SMTT(30) DEF TypeOK
<1>3. queue' = Append(queue, e)
  BY DEF Accept
<1> HIDE DEF e, E
<1>4. /\ queue' \in Seq(E)
      /\ Len(queue') = Len(queue) + 1
      /\ DOMAIN queue' = 1 .. Len(queue) + 1
      /\ \A i \in 1 .. Len(queue) : queue'[i] = queue[i]
      /\ queue'[Len(queue) + 1] = e
  BY <1>1, <1>2, <1>3, SMTT(30)
<1>5. /\ HasHandles /\ ~stopping /\ outstanding # Capacity
      /\ next_ticket < MaxTickets
      /\ next_ticket' = next_ticket + 1
      /\ outstanding' = outstanding + 1
      /\ wakeOne' = wakeOne + 1
      /\ UNCHANGED <<stopping, wakeAll, pc, holds, owner>>
  BY DEF Accept
<1>6. /\ outstanding \in Nat /\ next_ticket \in Nat
      /\ next_ticket \in Ticket
      /\ MaxTickets \in Nat
  BY <1>5, BoundsAssumption, SMTT(30) DEF TypeOK, Ticket
<1>7. Unretired' = Unretired
  BY <1>5 DEF Unretired
<1>8. /\ e.ticket = next_ticket
      /\ e.class = "Active" => outstanding < NumWorkers
  BY DEF e, AdmissionClass
<1>9. TypeOK'
  BY <1>4, <1>5, BoundsAssumption, SMTT(30) DEF TypeOK, E
<1>10. CapacityExact'
  <2>1. Capacity \in Nat
    BY UnretiredFinite, BoundsAssumption, SMTT(30) DEF Capacity
  <2>2. QED
    BY <1>2, <1>4, <1>5, <1>6, <1>7, <2>1, UnretiredFinite, SMTT(30)
       DEF JobsInv, CapacityExact
<1>11. ActiveHasWorker'
  <2>1. e.class = "Active" =>
          Cardinality(Unretired) + (Len(queue) + 1) <= NumWorkers
    BY <1>2, <1>6, <1>8, UnretiredFinite, SMTT(30) DEF JobsInv, CapacityExact
  <2>2. ASSUME NEW i \in 1 .. Len(queue) + 1, queue'[i].class = "Active"
        PROVE  Cardinality(Unretired) + i <= NumWorkers
    <3>1. CASE i = Len(queue) + 1
      BY <1>4, <2>1, <2>2, <3>1
    <3>2. CASE i \in 1 .. Len(queue)
      BY <1>2, <1>4, <2>2, <3>2 DEF JobsInv, ActiveHasWorker
    <3>3. QED
      BY <1>2, <3>1, <3>2, SMTT(30)
  <2>3. QED
    BY <1>4, <1>7, <2>2 DEF ActiveHasWorker
<1>12. \A i \in DOMAIN queue : queue[i].ticket \in Nat /\ queue[i].ticket < next_ticket
  <2>1. \A i \in DOMAIN queue : queue[i] \in E
    BY <1>2, SMTT(30)
  <2>2. QED
    BY <2>1, SMTT(30) DEF JobsInv, TicketsPlaced, E, Ticket
<1>13. \A i \in DOMAIN queue' : queue'[i].ticket \in Nat /\ queue'[i].ticket < next_ticket'
  BY <1>2, <1>4, <1>5, <1>6, <1>8, <1>12, SMTT(30)
<1>14. ClaimedInOrder'
  <2>1. ASSUME NEW i \in DOMAIN queue', NEW j \in DOMAIN queue', i < j
        PROVE  queue'[i].ticket < queue'[j].ticket
    <3>1. i \in 1 .. Len(queue) /\ queue'[i] = queue[i]
      BY <1>2, <1>4, <2>1, SMTT(30)
    <3>2. CASE j = Len(queue) + 1
      BY <1>2, <1>4, <1>8, <1>12, <3>1, <3>2
    <3>3. CASE j \in 1 .. Len(queue)
      BY <1>2, <1>4, <2>1, <3>1, <3>3 DEF JobsInv, ClaimedInOrder
    <3>4. QED
      BY <1>2, <1>4, <3>2, <3>3, SMTT(30)
  <2>2. ASSUME NEW w \in Worker, NEW i \in DOMAIN queue', pc[w] = "executing"
        PROVE  holds[w] < queue'[i].ticket
    <3>1. CASE i = Len(queue) + 1
      BY <1>4, <1>8, <2>2, <3>1 DEF JobsInv, TicketsPlaced
    <3>2. CASE i \in 1 .. Len(queue)
      BY <1>2, <1>4, <2>2, <3>2 DEF JobsInv, ClaimedInOrder
    <3>3. QED
      BY <1>2, <1>4, <3>1, <3>2, SMTT(30)
  <2>3. QED
    BY <1>5, <2>1, <2>2 DEF ClaimedInOrder
<1>15. TicketsPlaced'
  <2>1. \A w \in Worker : pc[w] \in {"executing", "publishing"} =>
          holds[w] \in Ticket /\ holds[w] < next_ticket + 1
    BY <1>6, SMTT(30) DEF JobsInv, TicketsPlaced, Ticket
  <2>2. QED
    BY <1>5, <1>13, <2>1 DEF JobsInv, TicketsPlaced
<1>16. OwnerProgress'
  BY <1>5 DEF OwnerProgress, HasHandles
<1>17. QED
  BY <1>9, <1>10, <1>11, <1>14, <1>15, <1>16 DEF JobsInv

\* What every removal from the ring, at the head or inside, leaves of it.
LEMMA RingShrinks ==
  ASSUME TypeOK, ClaimedInOrder,
         NEW i \in DOMAIN queue,
         queue' \in Seq([ticket : Ticket, class : Class]),
         Len(queue') = Len(queue) - 1,
         \A j \in 1 .. Len(queue) - 1 :
           queue'[j] = IF j < i THEN queue[j] ELSE queue[j + 1]
  PROVE  /\ \A j \in DOMAIN queue' : \E k \in DOMAIN queue :
              queue'[j] = queue[k] /\ j <= k /\ (i = 1 => k = j + 1)
         /\ \A j, k \in DOMAIN queue' : j < k => queue'[j].ticket < queue'[k].ticket
<1> DEFINE src(j) == IF j < i THEN j ELSE j + 1
<1>1. /\ Len(queue) \in Nat
      /\ DOMAIN queue = 1 .. Len(queue)
      /\ DOMAIN queue' = 1 .. Len(queue) - 1
      /\ i \in 1 .. Len(queue)
  BY SMTT(30) DEF TypeOK
<1>2. \A j \in 1 .. Len(queue) - 1 : /\ src(j) \in 1 .. Len(queue)
                                     /\ queue'[j] = queue[src(j)]
                                     /\ j <= src(j)
                                     /\ src(j) # i
                                     /\ i = 1 => src(j) = j + 1
  BY <1>1, SMTT(30)
<1>3. \A j, k \in 1 .. Len(queue) - 1 : j < k => src(j) < src(k)
  BY <1>1, SMTT(30)
<1> HIDE DEF src
<1>4. \A j \in DOMAIN queue' : \E k \in DOMAIN queue :
        queue'[j] = queue[k] /\ j <= k /\ (i = 1 => k = j + 1)
  BY <1>1, <1>2
<1>5. \A j, k \in DOMAIN queue' : j < k => queue'[j].ticket < queue'[k].ticket
  BY <1>1, <1>2, <1>3, SMTT(30) DEF ClaimedInOrder
<1>6. QED
  BY <1>4, <1>5

\* cancel_queued takes one entry out of the ring and gives its place back.
LEMMA CancelStep ==
  ASSUME TypeOK, JobsInv, OwnerProgress, NEW t \in Ticket, CancelQueued(t)
  PROVE  TypeOK' /\ JobsInv' /\ OwnerProgress'
<1> DEFINE E == [ticket : Ticket, class : Class]
<1>1. PICK i \in DOMAIN queue :
        /\ queue[i].ticket = t
        /\ queue' = RemoveAt(queue, i)
        /\ outstanding' = outstanding - 1
        /\ UNCHANGED <<next_ticket, stopping, wakeOne, wakeAll, pc, holds, owner>>
  BY DEF CancelQueued
<1>2. queue \in Seq(E) /\ Len(queue) \in Nat /\ DOMAIN queue = 1 .. Len(queue)
  BY SMTT(30) DEF TypeOK
<1>3. /\ queue' \in Seq(E)
      /\ Len(queue') = Len(queue) - 1
      /\ \A j \in 1 .. Len(queue) - 1 :
           queue'[j] = IF j < i THEN queue[j] ELSE queue[j + 1]
  <2> HIDE DEF E
  <2>1. i \in 1 .. Len(queue)
    BY <1>2
  <2>2. QED
    BY <1>1, <1>2, <2>1, RemoveAtFacts
<1>4. /\ \A j \in DOMAIN queue' : \E k \in DOMAIN queue :
           queue'[j] = queue[k] /\ j <= k
      /\ \A j, k \in DOMAIN queue' : j < k => queue'[j].ticket < queue'[k].ticket
  BY <1>1, <1>3, RingShrinks DEF JobsInv
<1>5. /\ outstanding' = outstanding - 1
      /\ UNCHANGED <<next_ticket, stopping, wakeOne, wakeAll, pc, holds, owner>>
  BY <1>1
<1>6. Unretired' = Unretired
  BY <1>5 DEF Unretired
<1>7. /\ outstanding \in Nat /\ next_ticket \in Nat /\ Len(queue) >= 1
      /\ Capacity \in Nat
  BY <1>1, <1>2, UnretiredFinite, BoundsAssumption, SMTT(30) DEF TypeOK, Capacity
<1>8. CapacityExact' /\ outstanding' \in Nat
  BY <1>2, <1>3, <1>5, <1>6, <1>7, UnretiredFinite, SMTT(30) DEF JobsInv, CapacityExact
<1>9. TypeOK'
  BY <1>3, <1>5, <1>8 DEF TypeOK
<1>10. DOMAIN queue' = 1 .. Len(queue) - 1
  BY <1>3, SMTT(30)
<1>11. ActiveHasWorker'
  <2>1. ASSUME NEW j \in DOMAIN queue', queue'[j].class = "Active"
        PROVE  Cardinality(Unretired) + j <= NumWorkers
    <3>1. PICK k \in DOMAIN queue : queue'[j] = queue[k] /\ j <= k
      BY <1>4
    <3>2. Cardinality(Unretired) + k <= NumWorkers
      BY <2>1, <3>1 DEF JobsInv, ActiveHasWorker
    <3>3. QED
      BY <1>2, <1>10, <3>1, <3>2, UnretiredFinite, SMTT(30)
  <2>2. QED
    BY <1>6, <2>1 DEF ActiveHasWorker
<1>12. ClaimedInOrder'
  BY <1>4, <1>5 DEF JobsInv, ClaimedInOrder
<1>13. TicketsPlaced'
  <2>1. \A j \in DOMAIN queue' : queue'[j].ticket < next_ticket
    BY <1>4 DEF JobsInv, TicketsPlaced
  <2>2. QED
    BY <1>5, <2>1 DEF JobsInv, TicketsPlaced
<1>14. OwnerProgress'
  <2>1. queue # <<>>
    BY <1>1, <1>2, SMTT(30)
  <2>2. QED
    BY <1>5, <2>1 DEF OwnerProgress
<1>15. QED
  BY <1>8, <1>9, <1>11, <1>12, <1>13, <1>14 DEF JobsInv

\* A worker claims the head: the ring shrinks by the job it starts.
LEMMA ClaimStep ==
  ASSUME TypeOK, JobsInv, OwnerProgress, NEW w \in Worker, Claim(w)
  PROVE  TypeOK' /\ JobsInv' /\ OwnerProgress'
<1> DEFINE E == [ticket : Ticket, class : Class]
           t == queue[1].ticket
<1>1. /\ pc[w] = "scanning"
      /\ queue # <<>>
      /\ holds' = [holds EXCEPT ![w] = Head(queue).ticket]
      /\ queue' = Tail(queue)
      /\ pc' = [pc EXCEPT ![w] = "executing"]
      /\ UNCHANGED <<outstanding, next_ticket, stopping, wakeOne, wakeAll, owner>>
  BY DEF Claim
<1>2. queue \in Seq(E) /\ Len(queue) \in Nat /\ DOMAIN queue = 1 .. Len(queue)
  BY SMTT(30) DEF TypeOK
<1>3. Len(queue) >= 1 /\ 1 \in DOMAIN queue /\ t \in Ticket /\ Head(queue).ticket = t
  <2>1. Len(queue) \in Nat \ {0}
    BY <1>1, <1>2, SMTT(30)
  <2>2. queue[1] \in E
    <3> HIDE DEF E
    <3>1. \A j \in DOMAIN queue : queue[j] \in E
      BY <1>2, SMTT(30)
    <3>2. 1 \in DOMAIN queue
      BY <1>2, <2>1, SMTT(30)
    <3>3. QED
      BY <3>1, <3>2
  <2>3. Head(queue) = queue[1]
    BY <1>1, <1>2, SMTT(30)
  <2>4. QED
    BY <1>2, <2>1, <2>2, <2>3, SMTT(30)
<1>4. /\ queue' \in Seq(E)
      /\ Len(queue') = Len(queue) - 1
      /\ \A j \in 1 .. Len(queue) - 1 :
           queue'[j] = IF j < 1 THEN queue[j] ELSE queue[j + 1]
  BY <1>1, <1>2, SMTT(30)
<1>5. /\ \A j \in DOMAIN queue' : \E k \in DOMAIN queue :
           queue'[j] = queue[k] /\ k = j + 1
      /\ \A j, k \in DOMAIN queue' : j < k => queue'[j].ticket < queue'[k].ticket
  BY <1>3, <1>4, RingShrinks DEF JobsInv
<1>6. /\ holds' = [holds EXCEPT ![w] = t]
      /\ pc[w] = "scanning"
      /\ pc' = [pc EXCEPT ![w] = "executing"]
      /\ UNCHANGED <<outstanding, next_ticket, stopping, wakeOne, wakeAll, owner>>
  BY <1>1, <1>3
<1>7. DOMAIN queue' = 1 .. Len(queue) - 1
  BY <1>4, SMTT(30)
<1> HIDE DEF t
<1>8. /\ outstanding \in Nat /\ next_ticket \in Nat /\ Capacity \in Nat
      /\ pc \in [Worker -> {"unborn", "scanning", "asleep", "executing",
                            "publishing", "exited"}]
      /\ holds \in [Worker -> Ticket \cup {NoTicket}]
  BY UnretiredFinite, BoundsAssumption, SMTT(30) DEF TypeOK, Capacity
<1>9. /\ Unretired' = Unretired \cup {w}
      /\ Cardinality(Unretired') = Cardinality(Unretired) + 1
  <2>1. Unretired' = Unretired \cup {w} /\ w \notin Unretired
    BY <1>6, <1>8 DEF Unretired
  <2>2. QED
    BY <2>1, UnretiredFinite, FS_AddElement
<1>10. TypeOK'
  BY <1>3, <1>4, <1>6, <1>8 DEF TypeOK
<1>11. CapacityExact'
  BY <1>2, <1>4, <1>6, <1>8, <1>9, UnretiredFinite, SMTT(30) DEF JobsInv, CapacityExact
<1>12. ActiveHasWorker'
  <2>1. ASSUME NEW j \in DOMAIN queue', queue'[j].class = "Active"
        PROVE  Cardinality(Unretired') + j <= NumWorkers
    <3>1. j + 1 \in DOMAIN queue /\ queue'[j] = queue[j + 1]
      BY <1>5, <2>1
    <3>2. Cardinality(Unretired) + (j + 1) <= NumWorkers
      BY <2>1, <3>1 DEF JobsInv, ActiveHasWorker
    <3>3. QED
      BY <1>2, <1>7, <1>9, <3>2, UnretiredFinite, SMTT(30)
  <2>2. NumWorkers' = NumWorkers
    BY DEF NumWorkers
  <2>3. QED
    BY <2>1, <2>2 DEF ActiveHasWorker
<1>13. \A j \in DOMAIN queue' : t < queue'[j].ticket
  <2>1. ASSUME NEW j \in DOMAIN queue' PROVE t < queue'[j].ticket
    <3>1. j + 1 \in DOMAIN queue /\ queue'[j] = queue[j + 1] /\ 1 < j + 1
      BY <1>2, <1>5, <1>7, SMTT(30)
    <3>2. QED
      BY <1>3, <3>1 DEF JobsInv, ClaimedInOrder, t
  <2>2. QED
    BY <2>1
<1>14. ClaimedInOrder'
  <2>1. ASSUME NEW v \in Worker, NEW j \in DOMAIN queue', pc'[v] = "executing"
        PROVE  holds'[v] < queue'[j].ticket
    <3>1. CASE v = w
      BY <1>6, <1>8, <1>13, <3>1
    <3>2. CASE v # w
      BY <1>5, <1>6, <1>8, <2>1, <3>2 DEF JobsInv, ClaimedInOrder
    <3>3. QED
      BY <3>1, <3>2
  <2>2. QED
    BY <1>5, <2>1 DEF ClaimedInOrder
<1>15. TicketsPlaced'
  <2>1. t < next_ticket
    BY <1>3 DEF JobsInv, TicketsPlaced, t
  <2>2. \A v \in Worker : pc[v] = "executing" => holds[v] < t
    BY <1>3 DEF JobsInv, ClaimedInOrder, t
  <2>5. \A j \in DOMAIN queue' : queue'[j].ticket < next_ticket
    BY <1>5 DEF JobsInv, TicketsPlaced
  <2>6. ASSUME NEW u \in Worker, NEW v \in Worker, u # v,
               pc'[u] = "executing", pc'[v] = "executing"
        PROVE  holds'[u] # holds'[v]
    <3>1. CASE u = w
      BY <1>3, <1>6, <1>8, <2>2, <2>6, <3>1, SMTT(30) DEF JobsInv, TicketsPlaced, Ticket
    <3>2. CASE v = w
      BY <1>3, <1>6, <1>8, <2>2, <2>6, <3>2, SMTT(30) DEF JobsInv, TicketsPlaced, Ticket
    <3>3. CASE u # w /\ v # w
      BY <1>6, <1>8, <2>6, <3>3 DEF JobsInv, TicketsPlaced
    <3>4. QED
      BY <3>1, <3>2, <3>3
  <2>7. \A v \in Worker : pc'[v] \in {"executing", "publishing"} =>
          holds'[v] \in Ticket /\ holds'[v] < next_ticket
    BY <1>3, <1>6, <1>8, <2>1 DEF JobsInv, TicketsPlaced
  <2>8. QED
    BY <1>6, <2>5, <2>6, <2>7 DEF TicketsPlaced
<1>16. OwnerProgress'
  BY <1>1, <1>6, <1>8, SMTT(30) DEF OwnerProgress
<1>17. QED
  BY <1>10, <1>11, <1>12, <1>14, <1>15, <1>16 DEF JobsInv

\* Retiring gives one place back, exactly once, and settles the ticket.
LEMMA RetireStep ==
  ASSUME TypeOK, JobsInv, OwnerProgress, NEW w \in Worker, Retire(w)
  PROVE  TypeOK' /\ JobsInv' /\ OwnerProgress'
<1> DEFINE t == holds[w]
<1>1. /\ pc[w] = "executing"
      /\ pc' = [pc EXCEPT ![w] = "publishing"]
      /\ outstanding' = outstanding - 1
      /\ wakeAll' \in {wakeAll, wakeAll + 1}
      /\ UNCHANGED <<queue, next_ticket, stopping, wakeOne, holds, owner>>
  BY DEF Retire
<1>2. /\ outstanding \in Nat /\ next_ticket \in Nat /\ Capacity \in Nat
      /\ Len(queue) \in Nat
      /\ pc \in [Worker -> {"unborn", "scanning", "asleep", "executing",
                            "publishing", "exited"}]
      /\ holds \in [Worker -> Ticket \cup {NoTicket}]
  BY UnretiredFinite, BoundsAssumption, SMTT(30) DEF TypeOK, Capacity
<1>3. t \in Ticket /\ t < next_ticket
  BY <1>1 DEF JobsInv, TicketsPlaced
<1>4. /\ Unretired' = Unretired \ {w}
      /\ Cardinality(Unretired') = Cardinality(Unretired) - 1
      /\ Cardinality(Unretired') \in Nat
  <2>1. Unretired' = Unretired \ {w} /\ w \in Unretired
    BY <1>1, <1>2 DEF Unretired
  <2>2. IsFiniteSet(Unretired') /\ Cardinality(Unretired') = Cardinality(Unretired) - 1
    BY <2>1, UnretiredFinite, FS_RemoveElement
  <2>3. QED
    BY <2>1, <2>2, FS_CardinalityType
<1>5. CapacityExact' /\ outstanding' \in Nat
  BY <1>1, <1>2, <1>4, UnretiredFinite, SMTT(30) DEF JobsInv, CapacityExact
<1>6. TypeOK'
  <2>1. wakeAll' \in Nat
    BY <1>1, SMTT(30) DEF TypeOK
  <2>2. QED
    BY <1>1, <1>2, <1>5, <2>1 DEF TypeOK
<1>7. ActiveHasWorker'
  <2>1. ASSUME NEW i \in DOMAIN queue, queue[i].class = "Active"
        PROVE  Cardinality(Unretired') + i <= NumWorkers
    <3>1. Cardinality(Unretired) + i <= NumWorkers
      BY <2>1 DEF JobsInv, ActiveHasWorker
    <3>2. i \in Int
      BY SMTT(30) DEF TypeOK
    <3>3. QED
      BY <1>4, <3>1, <3>2, UnretiredFinite, SMTT(30)
  <2>2. QED
    BY <1>1, <2>1 DEF ActiveHasWorker, NumWorkers
<1>8. ClaimedInOrder'
  BY <1>1, <1>2 DEF JobsInv, ClaimedInOrder
<1>9. TicketsPlaced'
  <2>1. \A v \in Worker : pc'[v] \in {"executing", "publishing"} =>
          pc[v] \in {"executing", "publishing"}
    BY <1>1, <1>2
  <2>2. \A v \in Worker : pc'[v] = "executing" => pc[v] = "executing"
    BY <1>1, <1>2
  <2>3. QED
    BY <1>1, <2>1, <2>2 DEF JobsInv, TicketsPlaced
<1>10. OwnerProgress'
  BY <1>1, <1>2 DEF OwnerProgress
<1>11. QED
  BY <1>5, <1>6, <1>7, <1>8, <1>9, <1>10 DEF JobsInv

\* The inductive invariant, split the way the step lemmas use it.
LEMMA IInvParts == IInv <=> TypeOK /\ JobsInv /\ OwnerProgress
BY DEF IInv, JobsInv

\* The executor as FixedExecutor::new leaves it satisfies the invariant.
LEMMA InitIInv == Init => IInv
<1> SUFFICES ASSUME Init PROVE IInv
  OBVIOUS
<1>1. TypeOK
  <2>1. queue \in Seq([ticket : Ticket, class : Class])
    BY SMTT(30) DEF Init
  <2>2. 0 \in 0 .. MaxTickets
    BY BoundsAssumption, SMTT(30)
  <2>3. QED
    BY <2>1, <2>2 DEF Init, TypeOK
<1>2. Unretired = {} /\ DOMAIN queue = {} /\ Len(queue) = 0
  BY SMTT(30) DEF Init, Unretired
<1>3. CapacityExact
  BY <1>2, FS_EmptySet, UnretiredFinite, BoundsAssumption, SMTT(30)
     DEF Init, CapacityExact, Capacity
<1>4. ActiveHasWorker /\ ClaimedInOrder
  BY <1>2 DEF ActiveHasWorker, ClaimedInOrder
<1>5. TicketsPlaced
  BY <1>2 DEF Init, TicketsPlaced, Ticket
<1>6. OwnerProgress
  BY DEF Init, OwnerProgress
<1>7. QED
  BY <1>1, <1>3, <1>4, <1>5, <1>6 DEF IInv

\* Every step of the executor preserves the inductive invariant.
LEMMA NextIInv == IInv /\ [Next]_execVars => IInv'
<1> SUFFICES ASSUME TypeOK, JobsInv, OwnerProgress, [Next]_execVars
             PROVE  TypeOK' /\ JobsInv' /\ OwnerProgress'
  BY IInvParts DEF IInv, JobsInv
<1> DEFINE Phase == {"unborn", "scanning", "asleep", "executing", "publishing",
                     "exited"}
<1>0. pc \in [Worker -> Phase]
  BY DEF TypeOK
<1>1. ASSUME NEW w \in Worker, Spawn(w)
      PROVE  TypeOK' /\ JobsInv' /\ OwnerProgress'
  <2>1. TypeOK'
    BY <1>1 DEF Spawn, TypeOK
  <2>2. JobsInv'
    BY <1>0, <1>1, QuietStep DEF Spawn
  <2>3. OwnerProgress'
    BY <1>0, <1>1 DEF Spawn, OwnerProgress
  <2>4. QED
    BY <2>1, <2>2, <2>3
<1>2. ASSUME SpawnFails \/ Shutdown \/ StopAdmission
      PROVE  TypeOK' /\ JobsInv' /\ OwnerProgress'
  <2>1. TypeOK'
    <3>1. /\ wakeAll' = wakeAll + 1
          /\ stopping' = TRUE
          /\ owner' \in {"unwinding", "running", "joining"}
          /\ UNCHANGED <<queue, outstanding, next_ticket, wakeOne, pc, holds>>
      BY <1>2 DEF SpawnFails, Shutdown, StopAdmission, SetStopping
    <3>2. QED
      BY <3>1, SMTT(30) DEF TypeOK
  <2>2. JobsInv'
    BY <1>2, QuietStep DEF SpawnFails, Shutdown, StopAdmission
  <2>3. OwnerProgress'
    BY <1>2 DEF SpawnFails, Shutdown, StopAdmission, SetStopping, OwnerProgress
  <2>4. QED
    BY <2>1, <2>2, <2>3
<1>3. CASE Join
  <2>1. TypeOK'
    BY <1>3 DEF Join, TypeOK
  <2>2. JobsInv'
    BY <1>3, QuietStep DEF Join
  <2>3. OwnerProgress'
    BY <1>3 DEF Join, OwnerProgress
  <2>4. QED
    BY <2>1, <2>2, <2>3
<1>4. CASE Accept
  BY <1>4, AcceptStep
<1>5. ASSUME NEW t \in Ticket, CancelQueued(t)
      PROVE  TypeOK' /\ JobsInv' /\ OwnerProgress'
  BY <1>5, CancelStep
<1>6. ASSUME NEW w \in Worker, Claim(w)
      PROVE  TypeOK' /\ JobsInv' /\ OwnerProgress'
  BY <1>6, ClaimStep, SMTT(30)
<1>7. ASSUME NEW w \in Worker, Exit(w) \/ Sleep(w) \/ SpuriousWake(w)
      PROVE  TypeOK' /\ JobsInv' /\ OwnerProgress'
  <2>1. TypeOK'
    BY <1>0, <1>7 DEF Exit, Sleep, SpuriousWake, TypeOK
  <2>2. JobsInv'
    BY <1>0, <1>7, QuietStep DEF Exit, Sleep, SpuriousWake
  <2>3. OwnerProgress'
    BY <1>0, <1>7, SMTT(30) DEF Exit, Sleep, SpuriousWake, OwnerProgress
  <2>4. QED
    BY <2>1, <2>2, <2>3
<1>8. ASSUME NEW w \in Worker, Retire(w)
      PROVE  TypeOK' /\ JobsInv' /\ OwnerProgress'
  BY <1>8, RetireStep
<1>9. ASSUME NEW w \in Worker, Return(w)
      PROVE  TypeOK' /\ JobsInv' /\ OwnerProgress'
  <2>0. holds \in [Worker -> Ticket \cup {NoTicket}]
    BY DEF TypeOK
  <2>1. TypeOK'
    BY <1>0, <1>9 DEF Return, TypeOK
  <2>2. JobsInv'
    BY <1>0, <1>9, <2>0, QuietStep DEF Return
  <2>3. OwnerProgress'
    BY <1>0, <1>9 DEF Return, OwnerProgress
  <2>4. QED
    BY <2>1, <2>2, <2>3
<1>10. CASE Notify
  <2>1. TypeOK'
    BY <1>0, <1>10, SMTT(30) DEF Notify, NotifyOne, NotifyAll, TypeOK
  <2>2. JobsInv'
    <3>1. UNCHANGED <<queue, outstanding, next_ticket, holds>>
      BY <1>10 DEF Notify, NotifyOne, NotifyAll
    <3>2. \A w \in Worker : pc'[w] = pc[w] \/ (pc[w] = "asleep" /\ pc'[w] = "scanning")
      BY <1>0, <1>10 DEF Notify, NotifyOne, NotifyAll
    <3>3. QED
      BY <3>1, <3>2, QuietStep
  <2>3. OwnerProgress'
    BY <1>0, <1>10, SMTT(30) DEF Notify, NotifyOne, NotifyAll, OwnerProgress
  <2>4. QED
    BY <2>1, <2>2, <2>3
<1>11. CASE UNCHANGED execVars
  <2>1. TypeOK'
    BY <1>11 DEF execVars, TypeOK
  <2>2. JobsInv'
    BY <1>11, QuietStep DEF execVars
  <2>3. OwnerProgress'
    BY <1>11 DEF execVars, OwnerProgress
  <2>4. QED
    BY <2>1, <2>2, <2>3
<1>12. QED
  BY <1>1, <1>2, <1>3, <1>4, <1>5, <1>6, <1>7, <1>8, <1>9, <1>10, <1>11
     DEF Next, OwnerStep, WorkerLoop, Terminated

\* The inductive invariant holds in every reachable state.
THEOREM Invariance == Spec => []IInv
<1>1. QED
  BY InitIInv, NextIInv, PTL DEF Spec

-----------------------------------------------------------------------------
(* The promised properties.                                                *)

\* Type correctness of the executor's state.
THEOREM TypeCorrect == Spec => []TypeOK
<1>1. IInv => TypeOK
  BY DEF IInv
<1>2. QED
  BY <1>1, Invariance, PTL

\* The outstanding count never drifts from the jobs it counts and never
\* exceeds workers + waiting.
THEOREM CapacityIsExact == Spec => []CapacityExact
<1>1. IInv => CapacityExact
  BY DEF IInv
<1>2. QED
  BY <1>1, Invariance, PTL

\* A job admitted as Active always has a worker of its own.
THEOREM ActiveJobsHaveWorkers == Spec => []ActiveHasWorker
<1>1. IInv => ActiveHasWorker
  BY DEF IInv
<1>2. QED
  BY <1>1, Invariance, PTL

\* Jobs are claimed in admission order.
THEOREM JobsClaimedInOrder == Spec => []ClaimedInOrder
<1>1. IInv => ClaimedInOrder
  BY DEF IInv
<1>2. QED
  BY <1>1, Invariance, PTL

\* When shutdown returns, every accepted job has been run or cancelled.
THEOREM ShutdownDrains == Spec => []ShutdownDrained
<1>1. IInv => ShutdownDrained
  <2> SUFFICES ASSUME IInv, owner = "joined"
               PROVE  outstanding = 0 /\ queue = <<>> /\ \A w \in Worker : pc[w] = "exited"
    BY DEF ShutdownDrained
  <2>1. \A w \in Worker : pc[w] = "exited"
    BY DEF IInv, OwnerProgress
  <2>2. queue = <<>>
    BY <2>1, WorkerAssumption DEF IInv, OwnerProgress
  <2>3. Unretired = {} /\ Len(queue) = 0
    BY <2>1, <2>2 DEF Unretired
  <2>4. outstanding = 0
    BY <2>3, FS_EmptySet, SMTT(30) DEF IInv, CapacityExact
  <2>5. QED
    BY <2>1, <2>2, <2>4
<1>2. QED
  BY <1>1, Invariance, PTL

\* The discipline of the ring as a whole, for any number of workers and jobs.
THEOREM QueueIsSound == Spec => []QueueSound
<1>1. QED
  BY TypeCorrect, ActiveJobsHaveWorkers, JobsClaimedInOrder, ShutdownDrains, PTL
     DEF QueueSound

-----------------------------------------------------------------------------
(* Refinement of AdmissionControl.                                         *)

\* The abstract `running` set: the jobs whose execution is not retired.
Running == {holds[w] : w \in Unretired}

\* The abstract specification counts with the same Cardinality.
LEMMA SameCardinality == \A S : Admission!Cardinality(S) = Cardinality(S)
BY Zenon DEF Admission!Cardinality, Cardinality

\* Workers hold different jobs, so the abstract load is `outstanding`.
LEMMA LoadIsOutstanding ==
  ASSUME IInv
  PROVE  /\ Cardinality(Running) = Cardinality(Unretired)
         /\ Admission!Load = outstanding
         /\ Admission!AdmissionClass = AdmissionClass
<1> DEFINE g == [w \in Unretired |-> holds[w]]
<1>1. \A v, w \in Unretired : holds[v] = holds[w] => v = w
  BY DEF IInv, TicketsPlaced, Unretired
<1>2. g \in Surjection(Unretired, Running) /\ g \in Injection(Unretired, Running)
  BY <1>1 DEF Surjection, Injection, IsInjective, Running
<1> HIDE DEF g
<1>3. Cardinality(Running) = Cardinality(Unretired)
  BY <1>2, UnretiredFinite, FS_Surjection
<1>4. Admission!Load = Len(queue) + Cardinality(Running)
  BY SameCardinality, Zenon DEF Admission!Load, Running
<1>5. Admission!Load = outstanding
  BY <1>3, <1>4 DEF IInv, CapacityExact
<1>6. QED
  BY <1>3, <1>5 DEF Admission!AdmissionClass, AdmissionClass

\* An accepted submission is an abstract admission.
LEMMA AcceptRefines ==
  ASSUME IInv, Accept
  PROVE  Admission!Admit
<1>1. /\ ~stopping /\ outstanding # Capacity /\ next_ticket < MaxTickets
      /\ UNCHANGED <<stopping, pc, holds>>
      /\ next_ticket' = next_ticket + 1
      /\ queue' = Append(queue, [ticket |-> next_ticket, class |-> AdmissionClass])
  BY DEF Accept
<1>2. UNCHANGED <<Running, ~stopping>>
  BY <1>1 DEF Running, Unretired
<1>3. outstanding < Capacity
  <2>1. outstanding \in Nat /\ Capacity \in Nat /\ outstanding <= Capacity
    BY UnretiredFinite, BoundsAssumption, SMTT(30) DEF IInv, TypeOK, CapacityExact, Capacity
  <2>2. QED
    BY <1>1, <2>1, SMTT(30)
<1>4. Admission!Capacity = Capacity
  BY DEF Admission!Capacity, Capacity
<1>5. QED
  BY <1>1, <1>2, <1>3, <1>4, LoadIsOutstanding, Zenon DEF Admission!Admit, Running

\* Cancelling a queued job is the abstract withdrawal.
LEMMA CancelRefines ==
  ASSUME IInv, NEW t \in Ticket, CancelQueued(t)
  PROVE  Admission!Withdraw(t)
<1>1. /\ \E i \in DOMAIN queue :
           /\ queue[i].ticket = t
           /\ queue[i].class = "Queued"
           /\ queue' = RemoveAt(queue, i)
      /\ UNCHANGED <<next_ticket, stopping, pc, holds>>
  BY DEF CancelQueued
<1>2. UNCHANGED <<Running, next_ticket, ~stopping>>
  BY <1>1 DEF Running, Unretired
<1>3. \A i : Admission!RemoveAt(queue, i) = RemoveAt(queue, i)
  BY DEF Admission!RemoveAt, RemoveAt
<1>4. QED
  BY <1>1, <1>2, <1>3, Zenon DEF Admission!Withdraw, Running

\* Claiming the head is the abstract start.
LEMMA ClaimRefines ==
  ASSUME IInv, NEW w \in Worker, Claim(w)
  PROVE  Admission!Start
<1> DEFINE t == Head(queue).ticket
<1>1. /\ pc[w] = "scanning" /\ queue # <<>>
      /\ holds' = [holds EXCEPT ![w] = t]
      /\ queue' = Tail(queue)
      /\ pc' = [pc EXCEPT ![w] = "executing"]
      /\ UNCHANGED <<next_ticket, stopping>>
  BY DEF Claim
<1> HIDE DEF t
<1>2. /\ pc \in [Worker -> {"unborn", "scanning", "asleep", "executing",
                            "publishing", "exited"}]
      /\ holds \in [Worker -> Ticket \cup {NoTicket}]
  BY DEF IInv, TypeOK
<1>3. Unretired' = Unretired \cup {w} /\ w \notin Unretired
  BY <1>1, <1>2 DEF Unretired
<1>4. Running' = Running \cup {t}
  <2>1. \A v \in Unretired : holds'[v] = holds[v]
    BY <1>1, <1>2, <1>3 DEF Unretired
  <2>2. holds'[w] = t
    BY <1>1, <1>2
  <2>3. QED
    BY <1>3, <2>1, <2>2 DEF Running
<1>5. Cardinality(Running) < NumWorkers
  <2>1. IsFiniteSet(Unretired \cup {w})
        /\ Cardinality(Unretired \cup {w}) = Cardinality(Unretired) + 1
    BY <1>3, UnretiredFinite, FS_AddElement
  <2>2. Unretired \cup {w} \subseteq Worker
    BY DEF Unretired
  <2>3. Cardinality(Unretired \cup {w}) <= NumWorkers
    BY <2>2, WorkerAssumption, FS_Subset DEF NumWorkers
  <2>4. QED
    BY <2>1, <2>3, LoadIsOutstanding, UnretiredFinite, SMTT(30)
<1>6. UNCHANGED <<next_ticket, ~stopping>>
  BY <1>1
<1>7. QED
  BY <1>1, <1>4, <1>5, <1>6, SameCardinality, Zenon
     DEF Admission!Start, Running, t

\* Retiring is the abstract finish: no other worker holds the same job.
LEMMA RetireRefines ==
  ASSUME IInv, NEW w \in Worker, Retire(w)
  PROVE  \E t \in Ticket : Admission!Finish(t)
<1>1. PICK t \in Ticket : t = holds[w]
  BY DEF Retire, IInv, TicketsPlaced
<1>2. /\ pc[w] = "executing"
      /\ pc' = [pc EXCEPT ![w] = "publishing"]
      /\ UNCHANGED <<queue, next_ticket, stopping, holds>>
  BY DEF Retire
<1>3. t \in Running
  BY <1>1, <1>2 DEF Running, Unretired
<1>4. Running' = Running \ {t}
  <2>1. Unretired' = Unretired \ {w}
    BY <1>2 DEF Unretired, IInv, TypeOK
  <2>2. \A v \in Unretired \ {w} : holds[v] # t
    BY <1>1, <1>2 DEF IInv, TicketsPlaced, Unretired
  <2>3. QED
    BY <1>1, <1>2, <2>1, <2>2, SMTT(30) DEF Running
<1>5. UNCHANGED <<queue, next_ticket, ~stopping>>
  BY <1>2
<1>6. Admission!Finish(t)
  BY <1>3, <1>4, <1>5, Zenon DEF Admission!Finish, Running
<1>7. QED
  BY <1>6

\* A step that only moves threads between scanning, sleeping and publishing.
LEMMA QuietRefines ==
  ASSUME UNCHANGED <<queue, next_ticket, stopping>>,
         \A w \in Worker :
           /\ pc'[w] = "executing" <=> pc[w] = "executing"
           /\ pc'[w] = "executing" => holds'[w] = holds[w]
  PROVE  UNCHANGED Admission!vars
<1>1. Unretired' = Unretired /\ \A w \in Unretired : holds'[w] = holds[w]
  BY DEF Unretired
<1>2. Running' = Running
  BY <1>1 DEF Running
<1>3. QED
  BY <1>2 DEF Admission!vars, Running

\* The executor's steps are steps or stutters of AdmissionControl.
LEMMA StepRefines ==
  ASSUME IInv, [Next]_execVars
  PROVE  [Admission!Next]_(Admission!vars)
<1>0. /\ pc \in [Worker -> {"unborn", "scanning", "asleep", "executing",
                            "publishing", "exited"}]
      /\ holds \in [Worker -> Ticket \cup {NoTicket}]
  BY DEF IInv, TypeOK
<1>1. ASSUME SpawnFails \/ Shutdown \/ StopAdmission
      PROVE  Admission!Close \/ UNCHANGED Admission!vars
  <2>1. UNCHANGED <<queue, next_ticket, pc, holds>> /\ stopping' = TRUE
    BY <1>1 DEF SpawnFails, Shutdown, StopAdmission, SetStopping
  <2>2. UNCHANGED Running
    BY <2>1 DEF Running, Unretired
  <2>3. CASE stopping
    <3>1. UNCHANGED ~stopping
      BY <2>1, <2>3
    <3>2. QED
      BY <2>1, <2>2, <3>1 DEF Admission!vars, Running
  <2>4. CASE ~stopping
    BY <2>1, <2>2, <2>4 DEF Admission!Close, Running
  <2>5. QED
    BY <2>3, <2>4
<1>2. ASSUME \/ \E w \in Worker : Spawn(w) \/ Exit(w) \/ Sleep(w) \/ SpuriousWake(w)
                                  \/ Return(w)
             \/ Join
             \/ UNCHANGED execVars
      PROVE  UNCHANGED Admission!vars
  <2>1. UNCHANGED <<queue, next_ticket, stopping>>
    BY <1>2 DEF Spawn, Exit, Sleep, SpuriousWake, Return, Join, execVars
  <2>2. \A w \in Worker :
          /\ pc'[w] = "executing" <=> pc[w] = "executing"
          /\ pc'[w] = "executing" => holds'[w] = holds[w]
    BY <1>0, <1>2 DEF Spawn, Exit, Sleep, SpuriousWake, Return, Join, execVars
  <2>3. QED
    BY <2>1, <2>2, QuietRefines
<1>3. CASE Notify
  <2>1. UNCHANGED <<queue, next_ticket, stopping, holds>>
    BY <1>3 DEF Notify, NotifyOne, NotifyAll
  <2>2. \A w \in Worker : pc'[w] = pc[w] \/ (pc[w] = "asleep" /\ pc'[w] = "scanning")
    BY <1>0, <1>3 DEF Notify, NotifyOne, NotifyAll
  <2>3. QED
    BY <2>1, <2>2, QuietRefines
<1>4. CASE Accept
  BY <1>4, AcceptRefines DEF Admission!Next
<1>5. ASSUME NEW t \in Ticket, CancelQueued(t)
      PROVE  Admission!Next
  BY <1>5, CancelRefines DEF Admission!Next, Admission!Ticket, Ticket
<1>6. ASSUME NEW w \in Worker, Claim(w)
      PROVE  Admission!Next
  BY <1>6, ClaimRefines DEF Admission!Next
<1>7. ASSUME NEW w \in Worker, Retire(w)
      PROVE  Admission!Next
  BY <1>7, RetireRefines DEF Admission!Next, Admission!Ticket, Ticket
<1>8. QED
  BY <1>1, <1>2, <1>3, <1>4, <1>5, <1>6, <1>7
     DEF Next, OwnerStep, WorkerLoop, Terminated, Admission!Next

\* The executor implements AdmissionControl: whatever the interleaving of
\* submitters, cancellers, workers and the owner, admission is bounded and
\* first come first served, at most one job per worker runs, a job runs once
\* or is withdrawn, and none is admitted after stop.
THEOREM ExecutorImplementsAdmission == Spec => ImplementsAdmission
<1>1. Init => Admission!Init
  <2> SUFFICES ASSUME Init PROVE Admission!Init
    OBVIOUS
  <2>1. Unretired = {}
    BY DEF Init, Unretired
  <2>2. QED
    BY <2>1 DEF Init, Admission!Init
<1>2. IInv /\ [Next]_execVars => [Admission!Next]_(Admission!vars)
  BY StepRefines
<1>3. QED
  BY <1>1, <1>2, Invariance, PTL DEF Spec, ImplementsAdmission, Admission!Spec

=============================================================================
