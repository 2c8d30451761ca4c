------------------------ MODULE BrotliExecutorProofs ------------------------
(***************************************************************************)
(* Proofs about BrotliExecutor, for any number of lanes, any finite set of *)
(* workers and any set of streams.                                         *)
(***************************************************************************)
EXTENDS BrotliExecutor, FiniteSetTheorems, TLAPS

Has(q, x) == \E i \in DOMAIN q : q[i] = x

\* No element of T is twice in q.
Once(q, T) == \A i, j \in DOMAIN q : q[i] = q[j] /\ q[i] \in T => i = j

Holding == {"admitted", "lane", "retire", "push"}
Dropping == {"drop_waker", "drop_result"}
Handling == {"received", "publish", "retire", "push"}

StreamHas(l) == \E s \in Stream : lane[s] = l /\ pc[s] \in Holding
WorkerHas(l) == \E w \in Worker : work[w] = l /\ at[w] \in Handling

\* Who has a lane knows which.
LanesKnown ==
  /\ \A s \in Stream : pc[s] \in Holding \cup InFlight \cup Dropping => lane[s] \in Lane
  /\ \A w \in Worker : at[w] \in Handling \cup {"wake"} => work[w] \in Lane

\* The five places a lane can be in exclude each other, and it is in one.
OneOwner ==
  \A l \in Lane :
    /\ Has(available, l) \/ Has(channel, l) \/ StreamHas(l) \/ WorkerHas(l) \/ result[l]
    /\ Has(available, l) => ~Has(channel, l) /\ ~StreamHas(l) /\ ~WorkerHas(l) /\ ~result[l]
    /\ Has(channel, l) => ~StreamHas(l) /\ ~WorkerHas(l) /\ ~result[l]
    /\ StreamHas(l) => ~WorkerHas(l) /\ ~result[l]
    /\ WorkerHas(l) => ~result[l]

\* Nor is it twice in one of them.
NoneTwice ==
  /\ Once(available, Lane)
  /\ Once(channel, Lane)
  /\ \A s, t \in Stream :
       lane[s] = lane[t] /\ pc[s] \in Holding /\ pc[t] \in Holding => s = t
  /\ \A v, w \in Worker :
       work[v] = work[w] /\ at[v] \in Handling /\ at[w] \in Handling => v = w

\* A lane has an encoder from the end of try_admit until it is retired.
Fitted(l) ==
  \/ Has(channel, l)
  \/ result[l]
  \/ \E s \in Stream : lane[s] = l /\ pc[s] \in {"lane", "retire"}
  \/ \E w \in Worker : work[w] = l /\ at[w] \in {"received", "publish", "retire"}

Encoders == {l \in Lane : encoder[l]}

EncodersCounted ==
  /\ \A l \in Lane : encoder[l] <=> Fitted(l)
  /\ active = Cardinality(Encoders)

\* A completion has somebody to take it, and so has the one that work which
\* was not cancelled will publish.
Takers ==
  \A l \in Lane :
    /\ result[l] => \E s \in Stream : lane[s] = l /\ pc[s] \in InFlight \cup Dropping
    /\ /\ ~cancelled[l]
       /\ \/ Has(channel, l)
          \/ \E w \in Worker : work[w] = l /\ at[w] \in {"received", "publish"}
       => \E s \in Stream : lane[s] = l /\ pc[s] \in InFlight

\* The streams that have a slot.
Slotted == {s \in Stream : pc[s] \notin {"new", "over"}}

SlotsCounted == IsFiniteSet(Slotted) /\ free_slots + Cardinality(Slotted) = Lanes

\* A Stop is sent only when nobody can submit any more.
StopsLast == Has(channel, Stop) => \A s \in Stream : pc[s] = "over"

IInv ==
  /\ TypeOK /\ ~panicked /\ LanesKnown /\ OneOwner /\ NoneTwice /\ EncodersCounted
  /\ Takers /\ SlotsCounted /\ StopsLast

\* On one lane: the operation in flight is not cancelled, and its lane is in
\* the channel, in the hands of a worker that will complete it, or completed.
Underway(s) ==
  /\ ~cancelled[lane[s]]
  /\ \/ Has(channel, lane[s])
     \/ result[lane[s]]
     \/ \E w \in Worker : work[w] = lane[s] /\ at[w] \in {"received", "publish"}

OneLane ==
  \A s \in Stream : /\ pc[s] = "new" => lane[s] = NoLane
                    /\ pc[s] \in InFlight => Underway(s)

-----------------------------------------------------------------------------
(* Sequences *)

\* Zenon proves most leaves; the ones that need arithmetic, records or sequences
\* name SMT.
USE ZenonT(60)

\* Appending adds one element.
LEMMA Appended ==
  ASSUME NEW S, NEW q \in Seq(S), NEW e \in S, NEW T
  PROVE  /\ Append(q, e) \in Seq(S)
         /\ Len(Append(q, e)) = Len(q) + 1
         /\ \A x : Has(Append(q, e), x) <=> Has(q, x) \/ x = e
         /\ Once(q, T) /\ (e \in T => ~Has(q, e)) => Once(Append(q, e), T)
<1>1. /\ Len(q) \in Nat
      /\ DOMAIN q = 1 .. Len(q)
      /\ Append(q, e) \in Seq(S)
      /\ Len(Append(q, e)) = Len(q) + 1
      /\ DOMAIN Append(q, e) = 1 .. Len(q) + 1
      /\ \A i \in 1 .. Len(q) : Append(q, e)[i] = q[i]
      /\ Append(q, e)[Len(q) + 1] = e
  BY SMTT(30)
<1>2. PICK r : r = Append(q, e)
  OBVIOUS
<1>3. PICK n \in Nat : n = Len(q)
  BY <1>1
<1>4. DOMAIN r = 1 .. n + 1 /\ DOMAIN q = 1 .. n /\ r[n + 1] = e /\ \A i \in 1 .. n : r[i] = q[i]
  BY <1>1, <1>2, <1>3
<1>5. \A i \in 1 .. n + 1 : i \in 1 .. n \/ i = n + 1
  BY SMTT(30)
<1>6. n + 1 \in 1 .. n + 1 /\ \A i \in 1 .. n : i \in 1 .. n + 1
  BY SMTT(30)
<1>7. \A x : Has(r, x) <=> Has(q, x) \/ x = e
  BY <1>4, <1>5, <1>6 DEF Has
<1>8. ASSUME Once(q, T), e \in T => ~Has(q, e)
      PROVE  Once(r, T)
  BY <1>4, <1>5, <1>8 DEF Has, Once
<1>9. QED
  BY <1>1, <1>2, <1>7, <1>8

\* Taking the last element of the stack removes just that one.
LEMMA Popped ==
  ASSUME NEW S, NEW q \in Seq(S), q # <<>>, Once(q, S)
  PROVE  /\ SubSeq(q, 1, Len(q) - 1) \in Seq(S)
         /\ q[Len(q)] \in S
         /\ Has(q, q[Len(q)])
         /\ \A x \in S : Has(SubSeq(q, 1, Len(q) - 1), x) <=> Has(q, x) /\ x # q[Len(q)]
         /\ Once(SubSeq(q, 1, Len(q) - 1), S)
<1>1. Len(q) \in Nat \ {0} /\ DOMAIN q = 1 .. Len(q) /\ \A i \in 1 .. Len(q) : q[i] \in S
  BY SMTT(30)
<1>2. PICK n \in Nat \ {0} : n = Len(q)
  BY <1>1
<1>3. PICK r : r = SubSeq(q, 1, n - 1)
  OBVIOUS
<1>4. r \in Seq(S) /\ Len(r) = n - 1 /\ \A i \in 1 .. n - 1 : r[i] = q[i]
  <2>1. \A i \in 1 .. n - 1 : q[i] \in S
    BY <1>1, <1>2, SMTT(30)
  <2>2. QED
    BY <2>1, <1>3, Z3, SMTT(30)
<1>5. DOMAIN r = 1 .. n - 1 /\ DOMAIN q = 1 .. n
  BY <1>1, <1>2, <1>4, SMTT(30)
<1>6. \A i \in 1 .. n : i \in 1 .. n - 1 \/ i = n
  BY SMTT(30)
<1>7. n \in 1 .. n /\ n \notin 1 .. n - 1 /\ \A i \in 1 .. n - 1 : i \in 1 .. n
  BY SMTT(30)
<1>8. \A x \in S : Has(r, x) <=> Has(q, x) /\ x # q[n]
  BY <1>1, <1>2, <1>4, <1>5, <1>6, <1>7 DEF Has, Once
<1>9. Once(r, S)
  BY <1>4, <1>5, <1>7 DEF Once
<1>10. Has(q, q[n])
  BY <1>5, <1>7 DEF Has
<1>11. QED
  BY <1>1, <1>2, <1>3, <1>4, <1>8, <1>9, <1>10, SMTT(30)

\* Receiving takes the head out of the channel.
LEMMA Received ==
  ASSUME NEW S, NEW q \in Seq(S), q # <<>>, NEW T, Once(q, T)
  PROVE  /\ Head(q) \in S /\ Tail(q) \in Seq(S) /\ Len(Tail(q)) = Len(q) - 1
         /\ Has(q, Head(q))
         /\ \A x \in T : Has(Tail(q), x) <=> Has(q, x) /\ x # Head(q)
         /\ \A x : Has(Tail(q), x) => Has(q, x)
         /\ Once(Tail(q), T)
<1>1. /\ Len(q) \in Nat \ {0} /\ DOMAIN q = 1 .. Len(q)
      /\ Head(q) \in S /\ Head(q) = q[1]
      /\ Tail(q) \in Seq(S) /\ Len(Tail(q)) = Len(q) - 1
      /\ \A i \in 1 .. Len(Tail(q)) : Tail(q)[i] = q[i + 1]
  BY SMTT(30)
<1>2. PICK n \in Nat \ {0} : n = Len(q)
  BY <1>1
<1>3. PICK r : r = Tail(q)
  OBVIOUS
<1>4. DOMAIN r = 1 .. n - 1 /\ DOMAIN q = 1 .. n /\ \A i \in 1 .. n - 1 : r[i] = q[i + 1]
  BY <1>1, <1>2, <1>3, SMTT(30)
<1>5. \A i \in 1 .. n - 1 : i + 1 \in 1 .. n /\ i + 1 # 1
  BY SMTT(30)
<1>6. \A i \in 1 .. n : i = 1 \/ (i - 1 \in 1 .. n - 1 /\ (i - 1) + 1 = i)
  BY SMTT(30)
<1>7. 1 \in 1 .. n
  BY SMTT(30)
<1>8. \A x : Has(r, x) => Has(q, x)
  BY <1>4, <1>5 DEF Has
<1>9. \A x \in T : Has(r, x) <=> Has(q, x) /\ x # q[1]
  <2>1. ASSUME NEW x, Has(q, x), x # q[1]
        PROVE  Has(r, x)
    <3>1. PICK i \in 1 .. n : q[i] = x
      BY <2>1, <1>4 DEF Has
    <3>2. i - 1 \in 1 .. n - 1 /\ q[(i - 1) + 1] = x
      BY <2>1, <3>1, <1>6
    <3>3. QED
      BY <3>2, <1>4 DEF Has
  <2>2. \A x \in T : Has(r, x) => x # q[1]
    BY <1>4, <1>5, <1>7, SMTT(30) DEF Has, Once
  <2>3. QED
    BY <2>1, <2>2, <1>8
<1>10. Once(r, T)
  <2>1. \A i, j \in 1 .. n - 1 : i + 1 = j + 1 => i = j
    BY SMTT(30)
  <2>2. QED
    BY <2>1, <1>4, <1>5 DEF Once
<1>11. Has(q, q[1])
  BY <1>4, <1>7 DEF Has
<1>12. QED
  BY <1>1, <1>2, <1>3, <1>8, <1>9, <1>10, <1>11

\* What the assumption says of the lanes.
LEMMA Constants ==
  /\ Lanes \in Nat \ {0} /\ MaxOps \in Nat
  /\ IsFiniteSet(Lane) /\ Cardinality(Lane) = Lanes
  /\ Cardinality(Worker) \in Nat
  /\ Stop \notin Lane /\ NoLane \notin Lane /\ Stop # NoLane
<1>1. IsFiniteSet(Lane) /\ Cardinality(Lane) = Lanes
  BY LanesAssumption, FS_Interval, SMTT(30) DEF Lane
<1>2. Cardinality(Worker) \in Nat
  BY LanesAssumption, FS_CardinalityType
<1>3. QED
  BY <1>1, <1>2, LanesAssumption, SMTT(30) DEF Lane, Stop, NoLane

-----------------------------------------------------------------------------
(* The stream *)

\* A stream goes on without a lane changing hands: each lane stays where it is,
\* with or without its encoder.
LEMMA QuietStream ==
  ASSUME IInv, NEW s \in Stream, NEW p,
         pc' = [pc EXCEPT ![s] = p], pc[s] # "over",
         p \in Holding <=> pc[s] \in Holding,
         p \in {"lane", "retire"} <=> pc[s] \in {"lane", "retire"},
         p \in InFlight \cup Dropping => pc[s] \in InFlight \cup Dropping,
         UNCHANGED <<available, active, channel, encoder, result, lane, workerVars>>
  PROVE  LanesKnown' /\ OneOwner' /\ NoneTwice' /\ EncodersCounted' /\ StopsLast'
<1>1. /\ pc'[s] = p
      /\ \A t \in Stream \ {s} : pc'[t] = pc[t]
      /\ available' = available /\ active' = active /\ channel' = channel
      /\ encoder' = encoder /\ result' = result /\ lane' = lane /\ at' = at /\ work' = work
  BY DEF IInv, TypeOK, workerVars
<1>2. \A t \in Stream : /\ pc'[t] \in Holding <=> pc[t] \in Holding
                        /\ pc'[t] \in {"lane", "retire"} <=> pc[t] \in {"lane", "retire"}
                        /\ pc'[t] \in InFlight \cup Dropping => pc[t] \in InFlight \cup Dropping
  BY <1>1
<1>3. LanesKnown'
  BY <1>1, <1>2 DEF IInv, LanesKnown
<1>4. \A l \in Lane : /\ StreamHas(l)' <=> StreamHas(l)
                      /\ WorkerHas(l)' <=> WorkerHas(l)
                      /\ Fitted(l)' <=> Fitted(l)
  BY <1>1, <1>2, SMTT(30) DEF StreamHas, WorkerHas, Fitted
<1>5. OneOwner'
  BY <1>1, <1>4 DEF IInv, OneOwner
<1>6. NoneTwice'
  BY <1>1, <1>2, SMTT(30) DEF IInv, NoneTwice
<1>7. EncodersCounted'
  <2>1. Encoders' = Encoders
    BY <1>1 DEF Encoders
  <2>2. QED
    BY <1>1, <1>4, <2>1 DEF IInv, EncodersCounted
<1>8. StopsLast'
  BY <1>1 DEF IInv, StopsLast
<1>9. QED
  BY <1>3, <1>5, <1>6, <1>7, <1>8

\* A stream that keeps its slot, or the lack of it, keeps the slots counted.
LEMMA SlotKept ==
  ASSUME IInv, NEW s \in Stream, NEW p, pc' = [pc EXCEPT ![s] = p],
         p \in {"new", "over"} <=> pc[s] \in {"new", "over"}, free_slots' = free_slots
  PROVE  SlotsCounted'
<1>1. Slotted' = Slotted
  BY DEF IInv, TypeOK, Slotted
<1>2. QED
  BY <1>1 DEF IInv, SlotsCounted

\* A stream takes a slot, and gives it back when it is over.
LEMMA SlotMoved ==
  ASSUME IInv, NEW s \in Stream, NEW p, pc' = [pc EXCEPT ![s] = p],
         \/ pc[s] = "new" /\ p = "admit" /\ free_slots # 0 /\ free_slots' = free_slots - 1
         \/ pc[s] = "source" /\ p = "over" /\ free_slots' = free_slots + 1
  PROVE  SlotsCounted' /\ free_slots' \in 0 .. Lanes
<1>1. PICK S : S = Slotted
  OBVIOUS
<1>2. IsFiniteSet(S) /\ Cardinality(S) \in Nat /\ free_slots + Cardinality(S) = Lanes
  BY <1>1, FS_CardinalityType DEF IInv, SlotsCounted
<1>3. free_slots \in Nat /\ Lanes \in Nat
  BY Constants, SMTT(30) DEF IInv, TypeOK
<1>4. CASE pc[s] = "new" /\ p = "admit" /\ free_slots # 0 /\ free_slots' = free_slots - 1
  <2>1. Slotted' = S \cup {s} /\ s \notin S
    BY <1>1, <1>4 DEF IInv, TypeOK, Slotted
  <2>2. IsFiniteSet(S \cup {s}) /\ Cardinality(S \cup {s}) = Cardinality(S) + 1
    BY <1>2, <2>1, FS_AddElement
  <2>3. QED
    BY <1>2, <1>3, <1>4, <2>1, <2>2, SMTT(30) DEF SlotsCounted
<1>5. CASE pc[s] = "source" /\ p = "over" /\ free_slots' = free_slots + 1
  <2>1. Slotted' = S \ {s} /\ s \in S
    BY <1>1, <1>5 DEF IInv, TypeOK, Slotted
  <2>2. /\ IsFiniteSet(S \ {s}) /\ Cardinality(S \ {s}) = Cardinality(S) - 1
        /\ Cardinality(S \ {s}) \in Nat
    BY <1>2, <2>1, FS_RemoveElement, FS_CardinalityType
  <2>3. QED
    BY <1>2, <1>3, <1>5, <2>1, <2>2, SMTT(30) DEF SlotsCounted
<1>6. QED
  BY <1>4, <1>5

\* A stream takes a slot, drops its source, or is refused.
LEMMA SlotStep ==
  ASSUME IInv, NEW s \in Stream, TakeSlot(s) \/ DropSource(s)
  PROVE  IInv'
<1>1. /\ UNCHANGED <<available, active, channel, cellVars, lane, woken, ops,
                     workerVars, ownerVars, panicked>>
  BY DEF TakeSlot, DropSource
<1>2. PICK p \in {"admit", "over"} :
        /\ pc' = [pc EXCEPT ![s] = p]
        /\ \/ pc[s] = "new" /\ p = "over" /\ free_slots' = free_slots
           \/ pc[s] = "new" /\ p = "admit" /\ free_slots # 0 /\ free_slots' = free_slots - 1
           \/ pc[s] = "source" /\ p = "over" /\ free_slots' = free_slots + 1
  BY DEF TakeSlot, DropSource, Goto
<1>3. SlotsCounted' /\ free_slots' \in 0 .. Lanes
  <2>1. CASE pc[s] = "new" /\ p = "over" /\ free_slots' = free_slots
    BY <1>2, <2>1, SlotKept DEF IInv, TypeOK
  <2>2. QED
    BY <1>2, <2>1, SlotMoved
<1>4. LanesKnown' /\ OneOwner' /\ NoneTwice' /\ EncodersCounted' /\ StopsLast'
  BY <1>1, <1>2, QuietStream DEF Holding, Dropping, InFlight, cellVars
<1>5. TypeOK'
  BY <1>1, <1>2, <1>3 DEF IInv, TypeOK, cellVars, workerVars, ownerVars
<1>6. \A t \in Stream : pc[t] \in InFlight \cup Dropping => pc'[t] = pc[t]
  BY <1>2 DEF IInv, TypeOK, InFlight, Dropping
<1>7. Takers'
  BY <1>1, <1>6 DEF IInv, Takers, cellVars, workerVars
<1>8. QED
  BY <1>1, <1>3, <1>4, <1>5, <1>7 DEF IInv

\* A job polls its cell and finds no completion, or is dropped before one.
LEMMA PollStep ==
  ASSUME IInv, NEW s \in Stream,
         \/ PollTake(s) /\ ~result[lane[s]]
         \/ Register(s) \/ Recheck(s) \/ PollAgain(s) \/ DropLane(s) \/ DropJob(s) \/ DropWaker(s)
         \/ DropResult(s) /\ ~result[lane[s]]
  PROVE  IInv'
<1>1. UNCHANGED <<free_slots, available, active, channel, encoder, lane, ops, workerVars,
                  ownerVars, panicked>>
  BY DEF PollTake, Register, Recheck, PollAgain, DropLane, DropJob, DropWaker, DropResult, cellVars
<1>2. lane[s] \in Lane
  BY DEF PollTake, Register, Recheck, PollAgain, DropLane, DropJob, DropWaker, DropResult,
         IInv, LanesKnown, InFlight, Holding, Dropping
<1>3. PICK p : /\ pc' = [pc EXCEPT ![s] = p]
               /\ \/ pc[s] \in InFlight /\ p \in InFlight
                  \/ pc[s] = "lane" /\ p = "retire"
                  \/ pc[s] = "asleep" /\ p = "drop_waker"
                  \/ pc[s] = "drop_waker" /\ p = "drop_result"
                  \/ pc[s] = "drop_result" /\ p = "source" /\ ~result[lane[s]]
  BY DEF PollTake, Register, Recheck, PollAgain, DropLane, DropJob, DropWaker, DropResult,
         InFlight, Goto
<1>4. result' = result
  <2>1. CASE DropResult(s) /\ ~result[lane[s]]
    <3>1. result \in [Lane -> BOOLEAN] /\ result' = [result EXCEPT ![lane[s]] = FALSE]
      BY <2>1 DEF DropResult, IInv, TypeOK
    <3>2. result[lane[s]] = FALSE
      BY <2>1, <3>1, <1>2
    <3>3. QED
      BY <3>1, <3>2, <1>2
  <2>2. QED
    BY <2>1 DEF PollTake, Register, Recheck, PollAgain, DropLane, DropJob, DropWaker, cellVars
<1>5. /\ cancelled' \in [Lane -> BOOLEAN]
      /\ \A l \in Lane :
           cancelled'[l] = IF l = lane[s] /\ p = "drop_waker" THEN TRUE ELSE cancelled[l]
  <2>1. CASE DropJob(s)
    BY <2>1, <1>2, <1>3 DEF DropJob, IInv, TypeOK, Goto
  <2>2. CASE ~DropJob(s)
    <3>1. cancelled' = cancelled
      BY <2>2 DEF PollTake, Register, Recheck, PollAgain, DropLane, DropWaker, DropResult, cellVars
    <3>2. pc'[s] # "drop_waker"
      BY <2>2 DEF PollTake, Register, Recheck, PollAgain, DropLane, DropWaker, DropResult,
                  IInv, TypeOK, Goto
    <3>3. p # "drop_waker"
      BY <1>3, <3>2 DEF IInv, TypeOK
    <3>4. QED
      BY <3>1, <3>3 DEF IInv, TypeOK
  <2>3. QED
    BY <2>1, <2>2
<1>6. LanesKnown' /\ OneOwner' /\ NoneTwice' /\ EncodersCounted' /\ StopsLast'
  BY <1>1, <1>3, <1>4, QuietStream DEF Holding, Dropping, InFlight
<1>7. SlotsCounted'
  BY <1>1, <1>3, SlotKept DEF InFlight
<1>8. TypeOK'
  <2>1. pc' \in [Stream -> {"new", "admit", "admitted", "lane", "poll", "register", "recheck",
                            "asleep", "drop_waker", "drop_result", "retire", "push",
                            "source", "over"}]
    BY <1>3 DEF IInv, TypeOK, InFlight
  <2>2. waker' \in [Lane -> Stream \cup {None}]
    BY DEF PollTake, Register, Recheck, PollAgain, DropLane, DropJob, DropWaker, DropResult,
           IInv, TypeOK, cellVars
  <2>3. woken' \in [Stream -> BOOLEAN]
    <3>1. result[lane[s]] \in BOOLEAN /\ woken[s] \in BOOLEAN /\ woken \in [Stream -> BOOLEAN]
      BY <1>2 DEF IInv, TypeOK
    <3>2. woken' = woken \/ \E b \in BOOLEAN : woken' = [woken EXCEPT ![s] = b]
      BY <3>1 DEF PollTake, Register, Recheck, PollAgain, DropLane, DropJob, DropWaker, DropResult
    <3>3. QED
      BY <3>1, <3>2
  <2>4. QED
    BY <1>1, <1>4, <1>5, <2>1, <2>2, <2>3, SMTT(30) DEF IInv, TypeOK, workerVars, ownerVars
<1>9. Takers'
  <2> SUFFICES ASSUME NEW l \in Lane
               PROVE  /\ result[l] =>
                           \E t \in Stream : lane[t] = l /\ pc'[t] \in InFlight \cup Dropping
                      /\ /\ ~cancelled'[l]
                         /\ \/ Has(channel, l)
                            \/ \E w \in Worker : work[w] = l /\ at[w] \in {"received", "publish"}
                         => \E t \in Stream : lane[t] = l /\ pc'[t] \in InFlight
    BY <1>1, <1>4 DEF Takers, workerVars
  <2>1. \A t \in Stream : t # s => pc'[t] = pc[t]
    BY <1>3 DEF IInv, TypeOK
  <2>2. pc'[s] = p
    BY <1>3 DEF IInv, TypeOK
  <2>3. result[l] => \E t \in Stream : lane[t] = l /\ pc'[t] \in InFlight \cup Dropping
    <3>1. SUFFICES ASSUME result[l]
                   PROVE  \E t \in Stream : lane[t] = l /\ pc'[t] \in InFlight \cup Dropping
      OBVIOUS
    <3>2. PICK t \in Stream : lane[t] = l /\ pc[t] \in InFlight \cup Dropping
      BY <3>1 DEF IInv, Takers
    <3>3. pc'[t] \in InFlight \cup Dropping
      BY <1>3, <2>1, <2>2, <3>1, <3>2 DEF InFlight, Dropping
    <3>4. QED
      BY <3>2, <3>3
  <2>4. SUFFICES ASSUME ~cancelled'[l],
                        \/ Has(channel, l)
                        \/ \E w \in Worker : work[w] = l /\ at[w] \in {"received", "publish"}
                 PROVE  \E t \in Stream : lane[t] = l /\ pc'[t] \in InFlight
    BY <2>3
  <2>5. ~cancelled[l]
    BY <1>5, <2>4
  <2>6. PICK t \in Stream : lane[t] = l /\ pc[t] \in InFlight
    BY <2>4, <2>5 DEF IInv, Takers
  <2>7. pc'[t] \in InFlight
    BY <1>3, <1>5, <2>1, <2>2, <2>4, <2>6 DEF InFlight
  <2>8. QED
    BY <2>6, <2>7
<1>10. QED
  BY <1>1, <1>6, <1>7, <1>8, <1>9 DEF IInv

\* A lane goes from one place to another: it is in no other, so it is in one
\* again.
LEMMA Handover ==
  ASSUME IInv, NEW m \in Lane,
         \A l \in Lane \ {m} : /\ Has(available, l)' <=> Has(available, l)
                               /\ Has(channel, l)' <=> Has(channel, l)
                               /\ StreamHas(l)' <=> StreamHas(l)
                               /\ WorkerHas(l)' <=> WorkerHas(l)
                               /\ result'[l] = result[l],
         NEW A \in BOOLEAN, NEW C \in BOOLEAN, NEW S \in BOOLEAN, NEW W \in BOOLEAN,
         NEW R \in BOOLEAN,
         \/ A /\ ~C /\ ~S /\ ~W /\ ~R
         \/ ~A /\ C /\ ~S /\ ~W /\ ~R
         \/ ~A /\ ~C /\ S /\ ~W /\ ~R
         \/ ~A /\ ~C /\ ~S /\ W /\ ~R
         \/ ~A /\ ~C /\ ~S /\ ~W /\ R,
         Has(available, m)' <=> A, Has(channel, m)' <=> C, StreamHas(m)' <=> S,
         WorkerHas(m)' <=> W, result'[m] <=> R
  PROVE  OneOwner'
<1> SUFFICES ASSUME NEW l \in Lane
             PROVE  /\ \/ Has(available, l)' \/ Has(channel, l)' \/ StreamHas(l)'
                       \/ WorkerHas(l)' \/ result'[l]
                    /\ Has(available, l)' => /\ ~Has(channel, l)' /\ ~StreamHas(l)'
                                             /\ ~WorkerHas(l)' /\ ~result'[l]
                    /\ Has(channel, l)' => ~StreamHas(l)' /\ ~WorkerHas(l)' /\ ~result'[l]
                    /\ StreamHas(l)' => ~WorkerHas(l)' /\ ~result'[l]
                    /\ WorkerHas(l)' => ~result'[l]
  BY DEF OneOwner
<1>1. CASE l = m
  BY <1>1
<1>2. CASE l # m
  BY <1>2 DEF IInv, OneOwner
<1>3. QED
  BY <1>1, <1>2

\* What a stream that moves to p, with lane l, changes of who has a lane.
LEMMA StreamMoves ==
  ASSUME IInv, NEW s \in Stream, NEW p, NEW m \in Lane,
         pc' = [pc EXCEPT ![s] = p],
         \/ lane' = lane /\ lane[s] = m
         \/ lane' = [lane EXCEPT ![s] = m] /\ pc[s] = "admit",
         pc[s] \in Holding => p \notin Holding \/ lane' = lane,
         p \in Holding => pc[s] \in Holding \/ ~StreamHas(m)
  PROVE  /\ lane'[s] = m /\ pc'[s] = p
         /\ \A t \in Stream \ {s} : lane'[t] = lane[t] /\ pc'[t] = pc[t]
         /\ \A l \in Lane \ {m} : StreamHas(l)' <=> StreamHas(l)
         /\ p \in Holding => StreamHas(m)'
         /\ pc[s] \in Holding /\ p \notin Holding => ~StreamHas(m)'
         /\ \A u, t \in Stream :
              lane'[u] = lane'[t] /\ pc'[u] \in Holding /\ pc'[t] \in Holding => u = t
<1>1. /\ lane'[s] = m /\ pc'[s] = p
      /\ \A t \in Stream \ {s} : lane'[t] = lane[t] /\ pc'[t] = pc[t]
  BY DEF IInv, TypeOK
<1>2. \A l \in Lane \ {m} : StreamHas(l)' <=> StreamHas(l)
  <2>1. lane[s] = m \/ pc[s] \notin Holding
    BY DEF Holding
  <2>2. QED
    BY <1>1, <2>1 DEF StreamHas
<1>3. p \in Holding => StreamHas(m)'
  BY <1>1 DEF StreamHas
<1>4. \A t \in Stream \ {s} :
        ~(lane[t] = m /\ pc[t] \in Holding /\ (p \in Holding \/ pc[s] \in Holding))
  <2>1. pc[s] \in Holding => lane[s] = m
    BY DEF Holding
  <2>2. QED
    BY <2>1 DEF IInv, NoneTwice, StreamHas
<1>5. pc[s] \in Holding /\ p \notin Holding => ~StreamHas(m)'
  BY <1>1, <1>4 DEF StreamHas
<1>6. \A u, t \in Stream :
        lane'[u] = lane'[t] /\ pc'[u] \in Holding /\ pc'[t] \in Holding => u = t
  BY <1>1, <1>4, SMTT(30) DEF IInv, NoneTwice
<1>7. QED
  BY <1>1, <1>2, <1>3, <1>5, <1>6

\* try_admit takes a lane out of the pool, or refuses.
LEMMA TryAdmitStep ==
  ASSUME IInv, NEW s \in Stream, TryAdmit(s)
  PROVE  IInv'
<1>1. /\ pc[s] = "admit"
      /\ UNCHANGED <<free_slots, active, channel, cellVars, woken, ops, workerVars,
                     ownerVars, panicked>>
  BY DEF TryAdmit
<1>2. PICK p \in {"source", "admitted"} : pc' = [pc EXCEPT ![s] = p]
  BY DEF TryAdmit, Goto
<1>3. SlotsCounted'
  BY <1>1, <1>2, SlotKept
<1>4. \A t \in Stream : pc[t] \in InFlight \cup Dropping => pc'[t] = pc[t]
  BY <1>1, <1>2 DEF IInv, TypeOK, InFlight, Dropping
<1>5. CASE available = <<>>
  <2>1. pc' = [pc EXCEPT ![s] = "source"] /\ available' = available /\ lane' = lane
    BY <1>5 DEF TryAdmit, Goto
  <2>2. LanesKnown' /\ OneOwner' /\ NoneTwice' /\ EncodersCounted' /\ StopsLast'
    BY <1>1, <2>1, QuietStream DEF Holding, Dropping, InFlight, cellVars
  <2>3. TypeOK'
    BY <1>1, <2>1 DEF IInv, TypeOK, cellVars, workerVars, ownerVars
  <2>4. Takers'
    BY <1>1, <1>4, <2>1, SMTT(30) DEF IInv, Takers, cellVars, workerVars
  <2>5. QED
    BY <1>1, <1>3, <2>2, <2>3, <2>4 DEF IInv
<1>6. CASE available # <<>>
  <2>1. PICK m : m = available[Len(available)]
    OBVIOUS
  <2>2. /\ pc' = [pc EXCEPT ![s] = "admitted"]
        /\ available' = SubSeq(available, 1, Len(available) - 1)
        /\ lane' = [lane EXCEPT ![s] = m]
    BY <1>6, <2>1 DEF TryAdmit, Goto
  <2>3. /\ available' \in Seq(Lane) /\ m \in Lane /\ Has(available, m)
        /\ \A l \in Lane : Has(available', l) <=> Has(available, l) /\ l # m
        /\ Once(available', Lane)
    BY <1>6, <2>1, <2>2, Popped DEF IInv, TypeOK, NoneTwice
  <2>4. ~Has(channel, m) /\ ~StreamHas(m) /\ ~WorkerHas(m) /\ ~result[m]
    BY <2>3 DEF IInv, OneOwner
  <2>5. /\ lane'[s] = m /\ pc'[s] = "admitted"
        /\ \A t \in Stream \ {s} : lane'[t] = lane[t] /\ pc'[t] = pc[t]
        /\ \A l \in Lane \ {m} : StreamHas(l)' <=> StreamHas(l)
        /\ StreamHas(m)'
        /\ \A u, t \in Stream :
             lane'[u] = lane'[t] /\ pc'[u] \in Holding /\ pc'[t] \in Holding => u = t
    <3>1. pc[s] \notin Holding /\ "admitted" \in Holding /\ pc[s] = "admit"
      BY <1>1 DEF Holding
    <3>2. QED
      BY <2>2, <2>3, <2>4, <3>1, StreamMoves
  <2>6. channel' = channel /\ result' = result /\ cancelled' = cancelled /\ at' = at /\ work' = work
    BY <1>1 DEF cellVars, workerVars
  <2>7. \A l \in Lane : WorkerHas(l)' <=> WorkerHas(l)
    BY <2>6 DEF WorkerHas
  <2>8. OneOwner'
    <3>1. \A l \in Lane \ {m} : Has(available, l)' <=> Has(available, l)
      BY <2>3
    <3>2. ~Has(available, m)'
      BY <2>3
    <3>3. QED
      BY <2>3, <2>4, <2>5, <2>6, <2>7, <3>1, <3>2, Handover
  <2>9. NoneTwice'
    BY <2>3, <2>5, <2>6 DEF IInv, NoneTwice
  <2>10. TypeOK'
    BY <1>1, <2>2, <2>3 DEF IInv, TypeOK, cellVars, workerVars, ownerVars
  <2>11. LanesKnown'
    BY <2>3, <2>5, <2>6 DEF IInv, LanesKnown
  <2>12. EncodersCounted'
    <3>1. \A l \in Lane : Fitted(l)' <=> Fitted(l)
      BY <1>1, <2>5, <2>6 DEF Fitted
    <3>2. Encoders' = Encoders /\ encoder' = encoder /\ active' = active
      BY <1>1 DEF Encoders, cellVars
    <3>3. QED
      BY <3>1, <3>2 DEF IInv, EncodersCounted
  <2>13. StopsLast'
    BY <1>1, <2>6 DEF IInv, StopsLast
  <2>14. Takers'
    <3>1. \A t \in Stream : pc[t] \in InFlight \cup Dropping => pc'[t] = pc[t] /\ lane'[t] = lane[t]
      BY <1>1, <2>5 DEF InFlight, Dropping
    <3>2. QED
      BY <2>6, <3>1, SMTT(30) DEF IInv, Takers
  <2>15. QED
    BY <1>1, <1>3, <2>8, <2>9, <2>10, <2>11, <2>12, <2>13, <2>14 DEF IInv
<1>7. QED
  BY <1>5, <1>6

\* The rest of try_admit finds neither an encoder nor a completion.
LEMMA PrepareStep ==
  ASSUME IInv, NEW s \in Stream, Prepare(s)
  PROVE  IInv'
<1>1. PICK m : m = lane[s]
  OBVIOUS
<1>2. /\ pc[s] = "admitted" /\ pc' = [pc EXCEPT ![s] = "lane"]
      /\ active' = active + 1
      /\ encoder' = [encoder EXCEPT ![m] = TRUE]
      /\ cancelled' = [cancelled EXCEPT ![m] = FALSE]
      /\ waker' = [waker EXCEPT ![m] = None]
      /\ panicked' = (panicked \/ encoder[m] \/ result[m])
      /\ UNCHANGED <<free_slots, available, channel, result, lane, woken, ops, workerVars,
                     ownerVars>>
  BY <1>1 DEF Prepare, Goto
<1>3. m \in Lane
  BY <1>1, <1>2 DEF IInv, LanesKnown, Holding
<1>4. StreamHas(m) /\ ~Has(channel, m) /\ ~WorkerHas(m) /\ ~result[m]
  <2>1. StreamHas(m)
    BY <1>1, <1>2 DEF StreamHas, Holding
  <2>2. QED
    BY <1>3, <2>1 DEF IInv, OneOwner
<1>5. \A t \in Stream : lane[t] = m /\ pc[t] \in Holding => t = s
  BY <1>1, <1>2 DEF IInv, NoneTwice, Holding
<1>6. ~encoder[m]
  <2>1. ~Fitted(m)
    BY <1>2, <1>4, <1>5 DEF Fitted, WorkerHas, Handling, Holding
  <2>2. QED
    BY <1>3, <2>1 DEF IInv, EncodersCounted
<1>7. /\ pc'[s] = "lane"
      /\ \A t \in Stream \ {s} : pc'[t] = pc[t]
      /\ \A l \in Lane \ {m} : StreamHas(l)' <=> StreamHas(l)
      /\ StreamHas(m)'
      /\ \A u, t \in Stream :
           lane'[u] = lane'[t] /\ pc'[u] \in Holding /\ pc'[t] \in Holding => u = t
  BY <1>1, <1>2, <1>3, StreamMoves DEF Holding
<1>8. available' = available /\ channel' = channel /\ result' = result /\ lane' = lane
      /\ at' = at /\ work' = work
  BY <1>2 DEF workerVars
<1>9. OneOwner'
  <2>1. \A l \in Lane : /\ WorkerHas(l)' <=> WorkerHas(l)
                        /\ StreamHas(l)' <=> StreamHas(l)
    BY <1>4, <1>7, <1>8 DEF WorkerHas
  <2>2. QED
    BY <1>8, <2>1 DEF IInv, OneOwner
<1>10. NoneTwice'
  BY <1>7, <1>8 DEF IInv, NoneTwice
<1>11. LanesKnown'
  BY <1>1, <1>3, <1>7, <1>8 DEF IInv, LanesKnown
<1>12. /\ encoder' \in [Lane -> BOOLEAN] /\ cancelled' \in [Lane -> BOOLEAN]
       /\ encoder'[m] /\ \A l \in Lane \ {m} : encoder'[l] = encoder[l]
       /\ \A l \in Lane \ {m} : cancelled'[l] = cancelled[l]
  BY <1>2, <1>3 DEF IInv, TypeOK
<1>13. EncodersCounted' /\ active' \in 0 .. Lanes
  <2>1. PICK E : E = Encoders
    OBVIOUS
  <2>2. IsFiniteSet(E) /\ Cardinality(E) \in Nat /\ active = Cardinality(E) /\ m \notin E
    BY <2>1, <1>6, Constants, FS_Subset, FS_CardinalityType DEF IInv, EncodersCounted, Encoders
  <2>3. Encoders' = E \cup {m} /\ E \cup {m} \in SUBSET Lane
    BY <2>1, <1>3, <1>12 DEF Encoders
  <2>4. Cardinality(E \cup {m}) = Cardinality(E) + 1 /\ Cardinality(E \cup {m}) <= Lanes
    BY <2>2, <2>3, FS_AddElement, FS_Subset, Constants
  <2>5. \A l \in Lane \ {m} : Fitted(l)' <=> Fitted(l)
    BY <1>1, <1>7, <1>8 DEF Fitted
  <2>6. Fitted(m)'
    BY <1>1, <1>7, <1>8 DEF Fitted
  <2>7. \A l \in Lane : encoder'[l] <=> Fitted(l)'
    BY <1>12, <2>5, <2>6 DEF IInv, EncodersCounted
  <2>8. active' = Cardinality(Encoders')
    BY <1>2, <2>2, <2>3, <2>4
  <2>9. active' \in 0 .. Lanes
    BY <1>2, <2>2, <2>4, Constants, SMTT(30)
  <2>10. QED
    BY <2>7, <2>8, <2>9 DEF EncodersCounted
<1>14. ~panicked'
  BY <1>2, <1>4, <1>6 DEF IInv
<1>15. TypeOK'
  <2>1. panicked' \in BOOLEAN
    BY <1>2
  <2>2. waker' \in [Lane -> Stream \cup {None}]
    BY <1>2 DEF IInv, TypeOK
  <2>3. QED
    BY <1>2, <1>8, <1>12, <1>13, <2>1, <2>2, SMTT(30) DEF IInv, TypeOK, workerVars, ownerVars
<1>16. SlotsCounted'
  BY <1>2, SlotKept
<1>17. StopsLast'
  BY <1>2, <1>8 DEF IInv, StopsLast
<1>18. Takers'
  <2>1. \A t \in Stream : pc[t] \in InFlight \cup Dropping => pc'[t] = pc[t]
    BY <1>2, <1>7 DEF InFlight, Dropping
  <2>2. \A w \in Worker : work[w] = m => at[w] \notin {"received", "publish"}
    BY <1>4 DEF WorkerHas, Handling
  <2>3. QED
    BY <1>4, <1>8, <1>12, <2>1, <2>2, SMTT(30) DEF IInv, Takers
<1>19. QED
  BY <1>9, <1>10, <1>11, <1>13, <1>14, <1>15, <1>16, <1>17, <1>18 DEF IInv

\* The channel has as many places as there are lanes, and the one that a stream
\* is about to submit is not in it, so it is not full.
LEMMA ChannelHasRoom ==
  ASSUME IInv, NEW s \in Stream, pc[s] = "lane"
  PROVE  Len(channel) < Lanes
<1>1. PICK m : m = lane[s]
  OBVIOUS
<1>2. m \in Lane /\ ~Has(channel, m) /\ ~Has(channel, Stop)
  <2>1. m \in Lane
    BY <1>1 DEF IInv, LanesKnown, Holding
  <2>2. StreamHas(m)
    BY <1>1 DEF StreamHas, Holding
  <2>3. QED
    BY <2>1, <2>2 DEF IInv, OneOwner, StopsLast
<1>3. PICK n \in Nat : n = Len(channel)
  BY SMTT(30) DEF IInv, TypeOK
<1>4. DOMAIN channel = 1 .. n /\ channel \in [1 .. n -> Lane \cup {Stop}]
  BY <1>3, SMTT(30) DEF IInv, TypeOK
<1>5. PICK T : T = Lane \ {m}
  OBVIOUS
<1>6. channel \in [1 .. n -> T]
  BY <1>2, <1>4, <1>5 DEF Has
<1>7. IsFiniteSet(T) /\ Cardinality(T) = Lanes - 1
  BY <1>2, <1>5, FS_RemoveElement, Constants
<1>8. IsFiniteSet(1 .. n) /\ Cardinality(1 .. n) = n
  BY FS_Interval, SMTT(30)
<1>9. ASSUME Cardinality(T) < Cardinality(1 .. n)
      PROVE  FALSE
  <2>1. PICK x, y \in 1 .. n : x # y /\ channel[x] = channel[y]
    BY <1>6, <1>7, <1>8, <1>9, FS_PigeonHole, SMTT(30)
  <2>2. channel[x] \in Lane
    BY <1>5, <1>6
  <2>3. QED
    BY <1>4, <2>1, <2>2 DEF IInv, NoneTwice, Once
<1>10. QED
  BY <1>3, <1>7, <1>8, <1>9, Constants, SMTT(30)

\* An operation is submitted: the lane goes into the channel.
LEMMA SubmitStep ==
  ASSUME IInv, NEW s \in Stream, Submit(s)
  PROVE  IInv'
<1>1. PICK m : m = lane[s]
  OBVIOUS
<1>2. pc[s] = "lane"
  BY DEF Submit
<1>3. /\ pc' = [pc EXCEPT ![s] = "poll"]
      /\ ops[s] < MaxOps /\ ops' = [ops EXCEPT ![s] = @ + 1]
      /\ cancelled' = [cancelled EXCEPT ![m] = FALSE]
      /\ channel' = Append(channel, m)
      /\ UNCHANGED <<free_slots, available, active, encoder, result, waker, lane, woken,
                     workerVars, ownerVars, panicked>>
  BY <1>1, <1>2, ChannelHasRoom DEF Submit, Goto
<1>4. m \in Lane /\ StreamHas(m)
  BY <1>1, <1>2 DEF IInv, LanesKnown, Holding, StreamHas
<1>5. ~Has(available, m) /\ ~Has(channel, m) /\ ~WorkerHas(m) /\ ~result[m]
  BY <1>4 DEF IInv, OneOwner
<1>6. /\ channel' \in Seq(Lane \cup {Stop})
      /\ Len(channel') = Len(channel) + 1
      /\ \A x : Has(channel', x) <=> Has(channel, x) \/ x = m
      /\ Once(channel', Lane)
  <2>1. PICK S : S = Lane \cup {Stop}
    OBVIOUS
  <2>2. PICK q \in Seq(S) : q = channel
    BY <2>1 DEF IInv, TypeOK
  <2>3. m \in S /\ Once(q, Lane) /\ ~Has(q, m)
    BY <1>4, <1>5, <2>1, <2>2 DEF IInv, NoneTwice
  <2>4. /\ Append(q, m) \in Seq(S)
        /\ Len(Append(q, m)) = Len(q) + 1
        /\ \A x : Has(Append(q, m), x) <=> Has(q, x) \/ x = m
        /\ Once(Append(q, m), Lane)
    BY <2>3, Appended
  <2>5. QED
    BY <1>3, <2>1, <2>2, <2>4
<1>7. /\ pc'[s] = "poll"
      /\ \A t \in Stream \ {s} : pc'[t] = pc[t]
      /\ \A l \in Lane \ {m} : StreamHas(l)' <=> StreamHas(l)
      /\ ~StreamHas(m)'
      /\ \A u, t \in Stream :
           lane'[u] = lane'[t] /\ pc'[u] \in Holding /\ pc'[t] \in Holding => u = t
  <2>1. pc[s] \in Holding /\ "poll" \notin Holding
    BY <1>2 DEF Holding
  <2>2. QED
    BY <1>1, <1>3, <1>4, <2>1, StreamMoves
<1>8. available' = available /\ result' = result /\ lane' = lane /\ at' = at /\ work' = work
  BY <1>3 DEF workerVars
<1>9. \A l \in Lane : WorkerHas(l)' <=> WorkerHas(l)
  BY <1>8 DEF WorkerHas
<1>10. OneOwner'
  <2>1. \A l \in Lane \ {m} : Has(channel, l)' <=> Has(channel, l)
    BY <1>6
  <2>2. Has(channel, m)'
    BY <1>6
  <2>3. QED
    BY <1>4, <1>5, <1>7, <1>8, <1>9, <2>1, <2>2, Handover
<1>11. NoneTwice'
  BY <1>6, <1>7, <1>8 DEF IInv, NoneTwice
<1>12. LanesKnown'
  BY <1>1, <1>4, <1>7, <1>8 DEF IInv, LanesKnown
<1>13. EncodersCounted'
  <2>1. \A l \in Lane \ {m} : Fitted(l)' <=> Fitted(l)
    BY <1>1, <1>6, <1>7, <1>8 DEF Fitted
  <2>2. Fitted(m)' /\ Fitted(m)
    BY <1>1, <1>2, <1>6 DEF Fitted
  <2>3. Encoders' = Encoders /\ encoder' = encoder /\ active' = active
    BY <1>3 DEF Encoders
  <2>4. QED
    BY <2>1, <2>2, <2>3 DEF IInv, EncodersCounted
<1>14. /\ cancelled' \in [Lane -> BOOLEAN]
       /\ \A l \in Lane \ {m} : cancelled'[l] = cancelled[l]
  BY <1>3, <1>4 DEF IInv, TypeOK
<1>15. TypeOK'
  <2>1. ops' \in [Stream -> 0 .. MaxOps]
    BY <1>3, Constants, SMTT(30) DEF IInv, TypeOK
  <2>2. Len(channel') <= Lanes
    <3>1. PICK n \in Nat : n = Len(channel)
      BY SMTT(30) DEF IInv, TypeOK
    <3>2. n < Lanes
      BY <1>2, <3>1, ChannelHasRoom
    <3>3. QED
      BY <1>6, <3>1, <3>2, Constants, SMTT(30)
  <2>3. pc' \in [Stream -> {"new", "admit", "admitted", "lane", "poll", "register", "recheck",
                            "asleep", "drop_waker", "drop_result", "retire", "push",
                            "source", "over"}]
    BY <1>3 DEF IInv, TypeOK
  <2>4. QED
    BY <1>3, <1>6, <1>14, <2>1, <2>2, <2>3, SMTT(30) DEF IInv, TypeOK, workerVars, ownerVars
<1>16. SlotsCounted'
  BY <1>2, <1>3, SlotKept
<1>17. StopsLast'
  BY <1>2, <1>4, <1>6, Constants DEF IInv, StopsLast
<1>18. Takers'
  <2>1. \A t \in Stream : pc[t] \in InFlight \cup Dropping => pc'[t] = pc[t]
    BY <1>2, <1>7 DEF InFlight, Dropping
  <2>2. lane[s] = m /\ pc'[s] \in InFlight
    BY <1>1, <1>7 DEF InFlight
  <2>3. QED
    BY <1>6, <1>8, <1>14, <2>1, <2>2, SMTT(30) DEF IInv, Takers
<1>19. QED
  BY <1>3, <1>10, <1>11, <1>12, <1>13, <1>15, <1>16, <1>17, <1>18 DEF IInv

\* A completion is taken by a poll, or by the drop of a job, whichever stream it
\* was published for: the lane goes to the stream that took it.
LEMMA TakeStep ==
  ASSUME IInv, NEW s \in Stream, PollTake(s) \/ DropResult(s), result[lane[s]]
  PROVE  IInv'
<1>1. PICK m : m = lane[s]
  OBVIOUS
<1>2. PICK p \in {"lane", "retire"} :
        /\ pc[s] \in {"poll", "drop_result"} /\ pc' = [pc EXCEPT ![s] = p]
        /\ result' = [result EXCEPT ![m] = FALSE]
        /\ UNCHANGED <<free_slots, available, active, channel, encoder, cancelled, waker, lane,
                       woken, ops, workerVars, ownerVars, panicked>>
  BY <1>1 DEF PollTake, DropResult, Goto
<1>3. m \in Lane /\ result[m]
  BY <1>1, <1>2 DEF IInv, LanesKnown, InFlight, Dropping
<1>4. ~Has(available, m) /\ ~Has(channel, m) /\ ~StreamHas(m) /\ ~WorkerHas(m)
  BY <1>3 DEF IInv, OneOwner
<1>5. /\ pc'[s] = p
      /\ \A t \in Stream \ {s} : pc'[t] = pc[t]
      /\ \A l \in Lane \ {m} : StreamHas(l)' <=> StreamHas(l)
      /\ StreamHas(m)'
      /\ \A u, t \in Stream :
           lane'[u] = lane'[t] /\ pc'[u] \in Holding /\ pc'[t] \in Holding => u = t
  <2>1. pc[s] \notin Holding /\ p \in Holding
    BY <1>2 DEF Holding
  <2>2. QED
    BY <1>1, <1>2, <1>3, <1>4, <2>1, StreamMoves
<1>6. available' = available /\ channel' = channel /\ lane' = lane /\ at' = at /\ work' = work
  BY <1>2 DEF workerVars
<1>7. /\ result' \in [Lane -> BOOLEAN] /\ ~result'[m]
      /\ \A l \in Lane \ {m} : result'[l] = result[l]
  BY <1>2, <1>3 DEF IInv, TypeOK
<1>8. \A l \in Lane : WorkerHas(l)' <=> WorkerHas(l)
  BY <1>6 DEF WorkerHas
<1>9. OneOwner'
  BY <1>3, <1>4, <1>5, <1>6, <1>7, <1>8, Handover
<1>10. NoneTwice'
  BY <1>5, <1>6 DEF IInv, NoneTwice
<1>11. LanesKnown'
  BY <1>1, <1>3, <1>5, <1>6 DEF IInv, LanesKnown
<1>12. EncodersCounted'
  <2>1. \A l \in Lane \ {m} : Fitted(l)' <=> Fitted(l)
    BY <1>1, <1>5, <1>6, <1>7, SMTT(30) DEF Fitted
  <2>2. Fitted(m)' /\ Fitted(m)
    BY <1>1, <1>3, <1>5, <1>6 DEF Fitted
  <2>3. Encoders' = Encoders /\ encoder' = encoder /\ active' = active
    BY <1>2 DEF Encoders
  <2>4. QED
    BY <2>1, <2>2, <2>3 DEF IInv, EncodersCounted
<1>13. TypeOK'
  <2>1. pc' \in [Stream -> {"new", "admit", "admitted", "lane", "poll", "register", "recheck",
                            "asleep", "drop_waker", "drop_result", "retire", "push",
                            "source", "over"}]
    BY <1>2 DEF IInv, TypeOK
  <2>2. QED
    BY <1>2, <1>7, <2>1, SMTT(30) DEF IInv, TypeOK, workerVars, ownerVars
<1>14. SlotsCounted'
  BY <1>2, SlotKept
<1>15. StopsLast'
  BY <1>2, <1>6 DEF IInv, StopsLast
<1>16. Takers'
  <2>1. \A t \in Stream : lane[t] # m => pc'[t] = pc[t]
    BY <1>1, <1>5
  <2>2. \A w \in Worker : work[w] = m => at[w] \notin {"received", "publish"}
    BY <1>4 DEF WorkerHas, Handling
  <2>3. cancelled' = cancelled
    BY <1>2
  <2>4. QED
    BY <1>4, <1>6, <1>7, <2>1, <2>2, <2>3, SMTT(30) DEF IInv, Takers
<1>17. QED
  BY <1>2, <1>9, <1>10, <1>11, <1>12, <1>13, <1>14, <1>15, <1>16 DEF IInv

\* Destroying an encoder retires one lease.
LEMMA EncoderDropped ==
  ASSUME IInv, NEW m \in Lane, Fitted(m), Retire(m)
  PROVE  /\ ~panicked' /\ active' \in 0 .. Lanes
         /\ encoder' \in [Lane -> BOOLEAN] /\ ~encoder'[m]
         /\ \A l \in Lane \ {m} : encoder'[l] = encoder[l]
         /\ active' = Cardinality(Encoders')
<1>1. PICK E : E = Encoders
  OBVIOUS
<1>2. IsFiniteSet(E) /\ Cardinality(E) \in Nat /\ active = Cardinality(E) /\ m \in E
  BY <1>1, Constants, FS_Subset, FS_CardinalityType DEF IInv, EncodersCounted, Encoders
<1>3. /\ encoder' \in [Lane -> BOOLEAN] /\ ~encoder'[m]
      /\ \A l \in Lane \ {m} : encoder'[l] = encoder[l]
  BY DEF Retire, IInv, TypeOK
<1>4. Encoders' = E \ {m}
  BY <1>1, <1>3 DEF Encoders
<1>5. /\ Cardinality(E \ {m}) = Cardinality(E) - 1
      /\ Cardinality(E \ {m}) \in Nat
  BY <1>2, FS_RemoveElement, FS_CardinalityType
<1>6. active' = Cardinality(Encoders')
  BY <1>2, <1>4, <1>5 DEF Retire
<1>7. active \in 0 .. Lanes /\ active # 0
  BY <1>2, <1>5, SMTT(30) DEF IInv, TypeOK
<1>8. active' \in 0 .. Lanes
  BY <1>7, Constants, SMTT(30) DEF Retire
<1>9. ~panicked'
  BY <1>7 DEF Retire, IInv
<1>10. QED
  BY <1>3, <1>6, <1>8, <1>9

\* What a released lane does to the pool.
LEMMA LanePushed ==
  ASSUME IInv, NEW m \in Lane, ~Has(available, m), Push(m)
  PROVE  /\ available' \in Seq(Lane) /\ Once(available', Lane)
         /\ \A l : Has(available', l) <=> Has(available, l) \/ l = m
         /\ encoder' = encoder /\ active' = active /\ panicked' = panicked
<1>1. PICK q \in Seq(Lane) : q = available
  BY DEF IInv, TypeOK
<1>2. Once(q, Lane) /\ ~Has(q, m)
  BY <1>1 DEF IInv, NoneTwice
<1>3. /\ Append(q, m) \in Seq(Lane) /\ Once(Append(q, m), Lane)
      /\ \A x : Has(Append(q, m), x) <=> Has(q, x) \/ x = m
  BY <1>2, Appended
<1>4. QED
  BY <1>1, <1>3 DEF Push

\* A stream retires its lease and then makes its lane available.
LEMMA StreamReleasesStep ==
  ASSUME IInv, NEW s \in Stream, StreamReleases(s)
  PROVE  IInv'
<1>1. PICK m : m = lane[s]
  OBVIOUS
<1>2. /\ UNCHANGED <<free_slots, channel, cancelled, result, waker, lane, woken, ops,
                     workerVars, ownerVars>>
      /\ \/ pc[s] = "retire" /\ Retire(m) /\ pc' = [pc EXCEPT ![s] = "push"]
         \/ pc[s] = "push" /\ Push(m) /\ pc' = [pc EXCEPT ![s] = "source"]
  BY <1>1 DEF StreamReleases, Goto
<1>3. m \in Lane /\ StreamHas(m)
  BY <1>1, <1>2 DEF IInv, LanesKnown, StreamHas, Holding
<1>4. ~Has(available, m) /\ ~Has(channel, m) /\ ~WorkerHas(m) /\ ~result[m]
  BY <1>3 DEF IInv, OneOwner
<1>5. \A t \in Stream : lane[t] = m /\ pc[t] \in Holding => t = s
  BY <1>1, <1>2 DEF IInv, NoneTwice, Holding
<1>6. channel' = channel /\ result' = result /\ lane' = lane /\ cancelled' = cancelled
      /\ at' = at /\ work' = work
  BY <1>2 DEF workerVars
<1>7. \A l \in Lane : WorkerHas(l)' <=> WorkerHas(l)
  BY <1>6 DEF WorkerHas
<1>8. SlotsCounted'
  BY <1>2, SlotKept
<1>9. StopsLast'
  BY <1>2, <1>6 DEF IInv, StopsLast
<1>10. Takers'
  <2>1. \A t \in Stream : pc[t] \in InFlight \cup Dropping => pc'[t] = pc[t]
    BY <1>2 DEF IInv, TypeOK, InFlight, Dropping
  <2>2. QED
    BY <1>6, <2>1 DEF IInv, Takers
<1>11. pc' \in [Stream -> {"new", "admit", "admitted", "lane", "poll", "register", "recheck",
                           "asleep", "drop_waker", "drop_result", "retire", "push",
                           "source", "over"}]
  BY <1>2 DEF IInv, TypeOK
<1>12. CASE pc[s] = "retire"
  <2>1. Retire(m) /\ pc' = [pc EXCEPT ![s] = "push"]
    BY <1>2, <1>12
  <2>2. Fitted(m)
    BY <1>1, <1>12 DEF Fitted
  <2>3. /\ ~panicked' /\ active' \in 0 .. Lanes
        /\ encoder' \in [Lane -> BOOLEAN] /\ ~encoder'[m]
        /\ \A l \in Lane \ {m} : encoder'[l] = encoder[l]
        /\ active' = Cardinality(Encoders')
    BY <1>3, <2>1, <2>2, EncoderDropped
  <2>4. available' = available
    BY <2>1 DEF Retire
  <2>5. /\ pc'[s] = "push"
        /\ \A t \in Stream \ {s} : pc'[t] = pc[t]
        /\ \A l \in Lane \ {m} : StreamHas(l)' <=> StreamHas(l)
        /\ StreamHas(m)'
        /\ \A u, t \in Stream :
             lane'[u] = lane'[t] /\ pc'[u] \in Holding /\ pc'[t] \in Holding => u = t
    BY <1>1, <1>3, <1>6, <1>12, <2>1, StreamMoves DEF Holding
  <2>6. OneOwner'
    <3>1. \A l \in Lane : StreamHas(l)' <=> StreamHas(l)
      BY <1>3, <2>5
    <3>2. QED
      BY <1>6, <1>7, <2>4, <3>1 DEF IInv, OneOwner
  <2>7. NoneTwice'
    BY <1>6, <2>4, <2>5 DEF IInv, NoneTwice
  <2>8. LanesKnown'
    BY <1>1, <1>3, <1>6, <2>5 DEF IInv, LanesKnown
  <2>9. EncodersCounted'
    <3>1. \A l \in Lane \ {m} : Fitted(l)' <=> Fitted(l)
      BY <1>1, <1>6, <2>5 DEF Fitted
    <3>2. ~Fitted(m)'
      BY <1>4, <1>5, <1>6, <2>5 DEF Fitted, WorkerHas, Handling, Holding
    <3>3. QED
      BY <2>3, <3>1, <3>2 DEF IInv, EncodersCounted
  <2>10. TypeOK'
    <3>1. panicked' \in BOOLEAN
      BY <2>1 DEF Retire
    <3>2. QED
      BY <1>2, <1>11, <2>3, <2>4, <3>1 DEF IInv, TypeOK, workerVars, ownerVars
  <2>11. QED
    BY <1>8, <1>9, <1>10, <2>3, <2>6, <2>7, <2>8, <2>9, <2>10 DEF IInv
<1>13. CASE pc[s] = "push"
  <2>1. Push(m) /\ pc' = [pc EXCEPT ![s] = "source"]
    BY <1>2, <1>13
  <2>2. /\ available' \in Seq(Lane) /\ Once(available', Lane)
        /\ \A l : Has(available', l) <=> Has(available, l) \/ l = m
        /\ encoder' = encoder /\ active' = active /\ panicked' = panicked
    BY <1>3, <1>4, <2>1, LanePushed
  <2>3. /\ pc'[s] = "source"
        /\ \A t \in Stream \ {s} : pc'[t] = pc[t]
        /\ \A l \in Lane \ {m} : StreamHas(l)' <=> StreamHas(l)
        /\ ~StreamHas(m)'
        /\ \A u, t \in Stream :
             lane'[u] = lane'[t] /\ pc'[u] \in Holding /\ pc'[t] \in Holding => u = t
    <3>1. pc[s] \in Holding /\ "source" \notin Holding
      BY <1>13 DEF Holding
    <3>2. QED
      BY <1>1, <1>3, <1>6, <2>1, <3>1, StreamMoves
  <2>4. OneOwner'
    <3>1. \A l \in Lane \ {m} : Has(available, l)' <=> Has(available, l)
      BY <2>2
    <3>2. Has(available, m)'
      BY <2>2
    <3>3. QED
      BY <1>3, <1>4, <1>6, <1>7, <2>3, <3>1, <3>2, Handover
  <2>5. NoneTwice'
    BY <1>6, <2>2, <2>3 DEF IInv, NoneTwice
  <2>6. LanesKnown'
    BY <1>6, <2>3 DEF IInv, LanesKnown, Holding, InFlight, Dropping
  <2>7. EncodersCounted'
    <3>1. \A l \in Lane : Fitted(l)' <=> Fitted(l)
      BY <1>6, <1>13, <2>3 DEF Fitted
    <3>2. Encoders' = Encoders
      BY <2>2 DEF Encoders
    <3>3. QED
      BY <2>2, <3>1, <3>2 DEF IInv, EncodersCounted
  <2>8. TypeOK'
    BY <1>2, <1>11, <2>2 DEF IInv, TypeOK, workerVars, ownerVars
  <2>9. QED
    BY <1>8, <1>9, <1>10, <2>2, <2>4, <2>5, <2>6, <2>7, <2>8 DEF IInv
<1>14. QED
  BY <1>2, <1>12, <1>13

-----------------------------------------------------------------------------
(* The workers and the owner *)

\* What a worker that moves to p, with lane l, changes of who has a lane.
LEMMA WorkerMoves ==
  ASSUME IInv, NEW w \in Worker, NEW p, NEW m \in Lane, NEW k,
         at' = [at EXCEPT ![w] = p], work' = [work EXCEPT ![w] = k],
         \/ at[w] \in Handling /\ work[w] = m /\ (p \in Handling => k = m)
         \/ at[w] \notin Handling /\ p \in Handling /\ k = m /\ ~WorkerHas(m)
  PROVE  /\ work'[w] = k /\ at'[w] = p
         /\ \A v \in Worker \ {w} : work'[v] = work[v] /\ at'[v] = at[v]
         /\ \A l \in Lane \ {m} : WorkerHas(l)' <=> WorkerHas(l)
         /\ p \in Handling => WorkerHas(m)'
         /\ p \notin Handling => ~WorkerHas(m)'
         /\ \A u, v \in Worker :
              work'[u] = work'[v] /\ at'[u] \in Handling /\ at'[v] \in Handling => u = v
<1>1. /\ work'[w] = k /\ at'[w] = p
      /\ \A v \in Worker \ {w} : work'[v] = work[v] /\ at'[v] = at[v]
  BY DEF IInv, TypeOK
<1>2. \A v \in Worker \ {w} : ~(work[v] = m /\ at[v] \in Handling)
  BY DEF IInv, NoneTwice, WorkerHas
<1>3. \A l \in Lane \ {m} : WorkerHas(l)' <=> WorkerHas(l)
  BY <1>1, SMTT(30) DEF WorkerHas
<1>4. p \in Handling => WorkerHas(m)'
  BY <1>1 DEF WorkerHas
<1>5. p \notin Handling => ~WorkerHas(m)'
  BY <1>1, <1>2 DEF WorkerHas
<1>6. \A u, v \in Worker :
        work'[u] = work'[v] /\ at'[u] \in Handling /\ at'[v] \in Handling => u = v
  BY <1>1, <1>2, SMTT(30) DEF IInv, NoneTwice
<1>7. QED
  BY <1>1, <1>3, <1>4, <1>5, <1>6

\* A worker goes on without a lane changing hands.
LEMMA QuietWorker ==
  ASSUME IInv, NEW w \in Worker, NEW p, NEW k,
         at' = [at EXCEPT ![w] = p], work' = [work EXCEPT ![w] = k],
         \/ p \in Handling /\ at[w] \in Handling /\ k = work[w]
         \/ p \notin Handling \cup {"wake"} /\ at[w] \notin Handling,
         p \in {"received", "publish", "retire"} <=> at[w] \in {"received", "publish", "retire"},
         \A l \in Lane : Has(channel, l)' <=> Has(channel, l),
         Has(channel, Stop)' => Has(channel, Stop),
         Once(channel', Lane),
         UNCHANGED <<free_slots, available, active, encoder, result, pc, lane>>
  PROVE  LanesKnown' /\ OneOwner' /\ NoneTwice' /\ EncodersCounted' /\ StopsLast' /\ SlotsCounted'
<1>1. /\ work'[w] = k /\ at'[w] = p
      /\ \A v \in Worker \ {w} : work'[v] = work[v] /\ at'[v] = at[v]
      /\ available' = available /\ active' = active /\ encoder' = encoder /\ result' = result
      /\ pc' = pc /\ lane' = lane /\ free_slots' = free_slots
  BY DEF IInv, TypeOK
<1>2. \A l \in Lane : /\ StreamHas(l)' <=> StreamHas(l)
                      /\ WorkerHas(l)' <=> WorkerHas(l)
  BY <1>1, SMTT(30) DEF StreamHas, WorkerHas
<1>3. \A l \in Lane : Fitted(l)' <=> Fitted(l)
  <2>1. \A l \in Lane :
          (\E v \in Worker : work'[v] = l /\ at'[v] \in {"received", "publish", "retire"})
          <=> (\E v \in Worker : work[v] = l /\ at[v] \in {"received", "publish", "retire"})
    BY <1>1, SMTT(30) DEF Handling
  <2>2. QED
    BY <1>1, <2>1, SMTT(30) DEF Fitted
<1>4. LanesKnown'
  BY <1>1, SMTT(30) DEF IInv, LanesKnown
<1>5. OneOwner'
  BY <1>1, <1>2 DEF IInv, OneOwner
<1>6. NoneTwice'
  BY <1>1, SMTT(30) DEF IInv, NoneTwice
<1>7. EncodersCounted'
  <2>1. Encoders' = Encoders
    BY <1>1 DEF Encoders
  <2>2. QED
    BY <1>1, <1>3, <2>1 DEF IInv, EncodersCounted
<1>8. StopsLast' /\ SlotsCounted'
  <2>1. Slotted' = Slotted
    BY <1>1 DEF Slotted
  <2>2. QED
    BY <1>1, <2>1 DEF IInv, StopsLast, SlotsCounted
<1>9. QED
  BY <1>4, <1>5, <1>6, <1>7, <1>8

\* A worker receives an operation, with its lane, or a Stop.
LEMMA ReceiveStep ==
  ASSUME IInv, NEW w \in Worker, Receive(w)
  PROVE  IInv'
<1>1. PICK m : m = Head(channel)
  OBVIOUS
<1>2. /\ at[w] = "receive" /\ channel # <<>> /\ channel' = Tail(channel)
      /\ UNCHANGED <<free_slots, available, active, cellVars, streamVars, ownerVars, panicked>>
      /\ \/ m = Stop /\ at' = [at EXCEPT ![w] = "stopped"] /\ work' = work
         \/ /\ m # Stop /\ at' = [at EXCEPT ![w] = "received"]
            /\ work' = [work EXCEPT ![w] = m]
  BY <1>1 DEF Receive, WGoto
<1>3. /\ m \in Lane \cup {Stop} /\ channel' \in Seq(Lane \cup {Stop})
      /\ Len(channel') <= Lanes
      /\ Has(channel, m)
      /\ \A x \in Lane : Has(channel', x) <=> Has(channel, x) /\ x # m
      /\ \A x : Has(channel', x) => Has(channel, x)
      /\ Once(channel', Lane)
  <2>1. PICK S : S = Lane \cup {Stop}
    OBVIOUS
  <2>2. PICK q \in Seq(S) : q = channel
    BY <2>1 DEF IInv, TypeOK
  <2>3. Once(q, Lane) /\ q # <<>> /\ Len(q) <= Lanes /\ Len(q) \in Nat
    BY <1>2, <2>2, SMTT(30) DEF IInv, NoneTwice, TypeOK
  <2>4. /\ Head(q) \in S /\ Tail(q) \in Seq(S) /\ Len(Tail(q)) = Len(q) - 1
        /\ Has(q, Head(q))
        /\ \A x \in Lane : Has(Tail(q), x) <=> Has(q, x) /\ x # Head(q)
        /\ \A x : Has(Tail(q), x) => Has(q, x)
        /\ Once(Tail(q), Lane)
    BY <2>3, Received
  <2>5. Len(Tail(q)) <= Lanes
    BY <2>3, <2>4, Constants, SMTT(30)
  <2>6. QED
    BY <1>1, <1>2, <2>1, <2>2, <2>4, <2>5
<1>4. available' = available /\ result' = result /\ cancelled' = cancelled /\ pc' = pc
      /\ lane' = lane /\ active' = active /\ encoder' = encoder /\ free_slots' = free_slots
  BY <1>2 DEF cellVars, streamVars
<1>5. CASE m = Stop
  <2>1. at' = [at EXCEPT ![w] = "stopped"] /\ work' = [work EXCEPT ![w] = work[w]]
    BY <1>2, <1>5 DEF IInv, TypeOK
  <2>2. \A l \in Lane : Has(channel, l)' <=> Has(channel, l)
    BY <1>3, <1>5, Constants
  <2>3. LanesKnown' /\ OneOwner' /\ NoneTwice' /\ EncodersCounted' /\ StopsLast' /\ SlotsCounted'
    BY <1>2, <1>3, <1>4, <2>1, <2>2, QuietWorker DEF Handling
  <2>4. TypeOK'
    BY <1>2, <1>3, <2>1 DEF IInv, TypeOK, cellVars, streamVars, ownerVars
  <2>5. Takers'
    <3>1. \A v \in Worker : at'[v] \in {"received", "publish"} =>
            at[v] \in {"received", "publish"} /\ work'[v] = work[v]
      BY <2>1 DEF IInv, TypeOK
    <3>2. QED
      BY <1>4, <2>2, <3>1, SMTT(30) DEF IInv, Takers
  <2>6. QED
    BY <1>2, <2>3, <2>4, <2>5 DEF IInv
<1>6. CASE m # Stop
  <2>1. at' = [at EXCEPT ![w] = "received"] /\ work' = [work EXCEPT ![w] = m] /\ m \in Lane
    BY <1>2, <1>3, <1>6
  <2>2. ~Has(available, m) /\ ~StreamHas(m) /\ ~WorkerHas(m) /\ ~result[m]
    BY <1>3, <2>1 DEF IInv, OneOwner
  <2>3. /\ work'[w] = m /\ at'[w] = "received"
        /\ \A v \in Worker \ {w} : work'[v] = work[v] /\ at'[v] = at[v]
        /\ \A l \in Lane \ {m} : WorkerHas(l)' <=> WorkerHas(l)
        /\ WorkerHas(m)'
        /\ \A u, v \in Worker :
             work'[u] = work'[v] /\ at'[u] \in Handling /\ at'[v] \in Handling => u = v
    <3>1. at[w] \notin Handling /\ "received" \in Handling
      BY <1>2 DEF Handling
    <3>2. QED
      BY <2>1, <2>2, <3>1, WorkerMoves
  <2>4. \A l \in Lane : StreamHas(l)' <=> StreamHas(l)
    BY <1>4 DEF StreamHas
  <2>5. OneOwner'
    <3>1. \A l \in Lane \ {m} : Has(channel, l)' <=> Has(channel, l)
      BY <1>3
    <3>2. ~Has(channel, m)'
      BY <1>3, <2>1
    <3>3. QED
      BY <1>4, <2>1, <2>2, <2>3, <2>4, <3>1, <3>2, Handover
  <2>6. NoneTwice'
    BY <1>3, <1>4, <2>3 DEF IInv, NoneTwice
  <2>7. LanesKnown'
    BY <1>4, <2>1, <2>3 DEF IInv, LanesKnown
  <2>8. EncodersCounted'
    <3>1. \A l \in Lane \ {m} : Fitted(l)' <=> Fitted(l)
      BY <1>2, <1>3, <1>4, <2>3 DEF Fitted
    <3>2. Fitted(m)' /\ Fitted(m)
      BY <1>3, <2>3 DEF Fitted
    <3>3. Encoders' = Encoders
      BY <1>4 DEF Encoders
    <3>4. QED
      BY <1>4, <3>1, <3>2, <3>3 DEF IInv, EncodersCounted
  <2>9. TypeOK'
    BY <1>2, <1>3, <2>1 DEF IInv, TypeOK, cellVars, streamVars, ownerVars
  <2>10. StopsLast' /\ SlotsCounted'
    <3>1. Slotted' = Slotted
      BY <1>4 DEF Slotted
    <3>2. QED
      BY <1>3, <1>4, <3>1 DEF IInv, StopsLast, SlotsCounted
  <2>11. Takers'
    BY <1>3, <1>4, <2>3, SMTT(30) DEF IInv, Takers
  <2>12. QED
    BY <1>2, <2>5, <2>6, <2>7, <2>8, <2>9, <2>10, <2>11 DEF IInv
<1>7. QED
  BY <1>5, <1>6

\* Work is run or skipped, a cancelled completion is dropped, or a stream is
\* woken: running work finds the encoder.
LEMMA WorkStep ==
  ASSUME IInv, NEW w \in Worker,
         Run(w) \/ (Publish(w) /\ cancelled[work[w]]) \/ WakeJob(w)
  PROVE  IInv'
<1>1. PICK m : m = work[w]
  OBVIOUS
<1>2. m \in Lane
  BY <1>1 DEF Run, Publish, WakeJob, IInv, LanesKnown, Handling
<1>3. UNCHANGED <<free_slots, available, active, channel, encoder, cancelled, result, pc,
                  lane, ops, ownerVars>>
  BY <1>1 DEF Run, Publish, WakeJob, cellVars, streamVars
<1>4. PICK p, k :
        /\ at' = [at EXCEPT ![w] = p] /\ work' = [work EXCEPT ![w] = k]
        /\ \/ at[w] = "received" /\ p \in {"publish", "retire"} /\ k = m
           \/ at[w] = "publish" /\ p = "retire" /\ k = m
           \/ at[w] = "wake" /\ p = "receive" /\ k = NoLane
  <2>1. CASE WakeJob(w)
    BY <2>1 DEF WakeJob, WGoto
  <2>2. CASE Run(w) \/ (Publish(w) /\ cancelled[work[w]])
    <3>1. work' = [work EXCEPT ![w] = m]
      BY <2>2, <1>1 DEF Run, Publish, IInv, TypeOK
    <3>2. QED
      BY <2>2, <3>1 DEF Run, Publish, WGoto
  <2>3. QED
    BY <2>1, <2>2
<1>5. LanesKnown' /\ OneOwner' /\ NoneTwice' /\ EncodersCounted' /\ StopsLast' /\ SlotsCounted'
  <2>1. Once(channel', Lane) /\ \A l : Has(channel, l)' <=> Has(channel, l)
    BY <1>3 DEF IInv, NoneTwice
  <2>2. QED
    BY <1>1, <1>3, <1>4, <2>1, QuietWorker DEF Handling
<1>6. panicked' = panicked
  <2>1. CASE Run(w)
    <3>1. at[w] = "received"
      BY <2>1 DEF Run
    <3>2. Fitted(m)
      BY <1>1, <3>1 DEF Fitted
    <3>3. encoder[m]
      BY <1>2, <3>2 DEF IInv, EncodersCounted
    <3>4. panicked \in BOOLEAN
      BY DEF IInv, TypeOK
    <3>5. QED
      BY <1>1, <2>1, <3>3, <3>4 DEF Run
  <2>2. QED
    BY <2>1 DEF Publish, WakeJob
<1>7. TypeOK'
  <2>1. waker' \in [Lane -> Stream \cup {None}] /\ woken' \in [Stream -> BOOLEAN]
    <3>1. CASE WakeJob(w)
      <4>1. woken' = [s \in Stream |-> woken[s] \/ waker[work[w]] = s]
        BY <3>1 DEF WakeJob
      <4>2. woken' \in [Stream -> BOOLEAN]
        BY <4>1
      <4>3. waker' \in [Lane -> Stream \cup {None}]
        BY <3>1 DEF WakeJob, IInv, TypeOK
      <4>4. QED
        BY <4>2, <4>3
    <3>2. QED
      BY <3>1 DEF Run, Publish, IInv, TypeOK, cellVars, streamVars
  <2>2. work' \in [Worker -> Lane \cup {NoLane}]
        /\ at' \in [Worker -> {"receive", "received", "publish", "wake", "retire",
                               "push", "stopped"}]
    BY <1>2, <1>4 DEF IInv, TypeOK
  <2>3. QED
    BY <1>3, <1>6, <2>1, <2>2 DEF IInv, TypeOK, ownerVars
<1>8. Takers'
  <2>1. \A v \in Worker : at'[v] \in {"received", "publish"} =>
          at[v] \in {"received", "publish"} /\ work'[v] = work[v]
    BY <1>1, <1>4 DEF IInv, TypeOK
  <2>2. QED
    BY <1>3, <2>1, SMTT(30) DEF IInv, Takers
<1>9. QED
  BY <1>5, <1>6, <1>7, <1>8 DEF IInv

\* A completion is published: the lane goes into its own cell, where somebody
\* will take it.
LEMMA PublishStep ==
  ASSUME IInv, NEW w \in Worker, Publish(w), ~cancelled[work[w]]
  PROVE  IInv'
<1>1. PICK m : m = work[w]
  OBVIOUS
<1>2. /\ at[w] = "publish" /\ at' = [at EXCEPT ![w] = "wake"]
      /\ work' = [work EXCEPT ![w] = m]
      /\ result' = [result EXCEPT ![m] = TRUE]
      /\ UNCHANGED <<free_slots, available, active, channel, encoder, cancelled, waker,
                     streamVars, ownerVars, panicked>>
  <2>1. work' = work /\ [work EXCEPT ![w] = m] = work
    BY <1>1 DEF Publish, IInv, TypeOK
  <2>2. QED
    BY <1>1, <2>1 DEF Publish, WGoto
<1>3. m \in Lane /\ WorkerHas(m)
  BY <1>1, <1>2 DEF IInv, LanesKnown, WorkerHas, Handling
<1>4. ~Has(available, m) /\ ~Has(channel, m) /\ ~StreamHas(m) /\ ~result[m]
  BY <1>3 DEF IInv, OneOwner
<1>5. /\ work'[w] = m /\ at'[w] = "wake"
      /\ \A v \in Worker \ {w} : work'[v] = work[v] /\ at'[v] = at[v]
      /\ \A l \in Lane \ {m} : WorkerHas(l)' <=> WorkerHas(l)
      /\ ~WorkerHas(m)'
      /\ \A u, v \in Worker :
           work'[u] = work'[v] /\ at'[u] \in Handling /\ at'[v] \in Handling => u = v
  <2>1. at[w] \in Handling /\ "wake" \notin Handling
    BY <1>2 DEF Handling
  <2>2. QED
    BY <1>1, <1>2, <1>3, <2>1, WorkerMoves
<1>6. available' = available /\ channel' = channel /\ lane' = lane /\ pc' = pc
      /\ cancelled' = cancelled /\ free_slots' = free_slots
  BY <1>2 DEF streamVars
<1>7. /\ result' \in [Lane -> BOOLEAN] /\ result'[m]
      /\ \A l \in Lane \ {m} : result'[l] = result[l]
  BY <1>2, <1>3 DEF IInv, TypeOK
<1>8. OneOwner'
  <2>1. \A l \in Lane : StreamHas(l)' <=> StreamHas(l)
    BY <1>6 DEF StreamHas
  <2>2. QED
    BY <1>3, <1>4, <1>5, <1>6, <1>7, <2>1, Handover
<1>9. NoneTwice'
  BY <1>5, <1>6 DEF IInv, NoneTwice
<1>10. LanesKnown'
  BY <1>3, <1>5, <1>6 DEF IInv, LanesKnown
<1>11. EncodersCounted'
  <2>1. \A l \in Lane \ {m} : Fitted(l)' <=> Fitted(l)
    BY <1>1, <1>5, <1>6, <1>7, SMTT(30) DEF Fitted
  <2>2. Fitted(m)' /\ Fitted(m)
    BY <1>1, <1>2, <1>7 DEF Fitted
  <2>3. Encoders' = Encoders /\ encoder' = encoder /\ active' = active
    BY <1>2 DEF Encoders
  <2>4. QED
    BY <2>1, <2>2, <2>3 DEF IInv, EncodersCounted
<1>12. TypeOK'
  BY <1>2, <1>3, <1>7, SMTT(30) DEF IInv, TypeOK, streamVars, ownerVars
<1>13. StopsLast' /\ SlotsCounted'
  <2>1. Slotted' = Slotted
    BY <1>6 DEF Slotted
  <2>2. QED
    BY <1>6, <2>1 DEF IInv, StopsLast, SlotsCounted
<1>14. Takers'
  <2>1. \E s \in Stream : lane[s] = m /\ pc[s] \in InFlight
    BY <1>1, <1>2, <1>3, SMTT(30) DEF IInv, Takers
  <2>2. QED
    BY <1>5, <1>6, <1>7, <2>1, SMTT(30) DEF IInv, Takers
<1>15. QED
  BY <1>2, <1>8, <1>9, <1>10, <1>11, <1>12, <1>13, <1>14 DEF IInv

\* A worker retires the lease of cancelled work and then makes its lane
\* available.
LEMMA WorkerReleasesStep ==
  ASSUME IInv, NEW w \in Worker, WorkerReleases(w)
  PROVE  IInv'
<1>1. PICK m : m = work[w]
  OBVIOUS
<1>2. /\ UNCHANGED <<free_slots, channel, cancelled, result, waker, streamVars, ownerVars>>
      /\ \/ /\ at[w] = "retire" /\ Retire(m) /\ at' = [at EXCEPT ![w] = "push"]
            /\ work' = work
         \/ /\ at[w] = "push" /\ Push(m) /\ at' = [at EXCEPT ![w] = "receive"]
            /\ work' = [work EXCEPT ![w] = NoLane]
  BY <1>1 DEF WorkerReleases, WGoto
<1>3. m \in Lane /\ WorkerHas(m)
  BY <1>1, <1>2 DEF IInv, LanesKnown, WorkerHas, Handling
<1>4. ~Has(available, m) /\ ~Has(channel, m) /\ ~StreamHas(m) /\ ~result[m]
  BY <1>3 DEF IInv, OneOwner
<1>5. \A v \in Worker : work[v] = m /\ at[v] \in Handling => v = w
  BY <1>1, <1>2 DEF IInv, NoneTwice, Handling
<1>6. channel' = channel /\ result' = result /\ lane' = lane /\ pc' = pc
      /\ cancelled' = cancelled /\ free_slots' = free_slots
  BY <1>2 DEF streamVars
<1>7. \A l \in Lane : StreamHas(l)' <=> StreamHas(l)
  BY <1>6 DEF StreamHas
<1>8. StopsLast' /\ SlotsCounted'
  <2>1. Slotted' = Slotted
    BY <1>6 DEF Slotted
  <2>2. QED
    BY <1>6, <2>1 DEF IInv, StopsLast, SlotsCounted
<1>9. Takers'
  <2>1. \A v \in Worker : at'[v] \in {"received", "publish"} =>
          at[v] \in {"received", "publish"} /\ work'[v] = work[v]
    BY <1>2, SMTT(30) DEF IInv, TypeOK
  <2>2. QED
    BY <1>6, <2>1, SMTT(30) DEF IInv, Takers
<1>10. /\ at' \in [Worker -> {"receive", "received", "publish", "wake", "retire",
                              "push", "stopped"}]
       /\ work' \in [Worker -> Lane \cup {NoLane}]
  BY <1>2 DEF IInv, TypeOK
<1>11. CASE at[w] = "retire"
  <2>1. /\ Retire(m) /\ at' = [at EXCEPT ![w] = "push"]
        /\ work' = [work EXCEPT ![w] = m]
    BY <1>1, <1>2, <1>11 DEF IInv, TypeOK
  <2>2. Fitted(m)
    BY <1>1, <1>11 DEF Fitted
  <2>3. /\ ~panicked' /\ active' \in 0 .. Lanes
        /\ encoder' \in [Lane -> BOOLEAN] /\ ~encoder'[m]
        /\ \A l \in Lane \ {m} : encoder'[l] = encoder[l]
        /\ active' = Cardinality(Encoders')
    BY <1>3, <2>1, <2>2, EncoderDropped
  <2>4. available' = available
    BY <2>1 DEF Retire
  <2>5. /\ work'[w] = m /\ at'[w] = "push"
        /\ \A v \in Worker \ {w} : work'[v] = work[v] /\ at'[v] = at[v]
        /\ \A l \in Lane \ {m} : WorkerHas(l)' <=> WorkerHas(l)
        /\ WorkerHas(m)'
        /\ \A u, v \in Worker :
             work'[u] = work'[v] /\ at'[u] \in Handling /\ at'[v] \in Handling => u = v
    <3>1. at[w] \in Handling /\ "push" \in Handling
      BY <1>11 DEF Handling
    <3>2. QED
      BY <1>1, <1>3, <2>1, <3>1, WorkerMoves
  <2>6. OneOwner'
    <3>1. \A l \in Lane : WorkerHas(l)' <=> WorkerHas(l)
      BY <1>3, <2>5
    <3>2. QED
      BY <1>6, <1>7, <2>4, <3>1 DEF IInv, OneOwner
  <2>7. NoneTwice'
    BY <1>6, <2>4, <2>5 DEF IInv, NoneTwice
  <2>8. LanesKnown'
    BY <1>3, <1>6, <2>5 DEF IInv, LanesKnown
  <2>9. EncodersCounted'
    <3>1. \A l \in Lane \ {m} : Fitted(l)' <=> Fitted(l)
      BY <1>1, <1>6, <2>5 DEF Fitted
    <3>2. ~Fitted(m)'
      BY <1>4, <1>5, <1>6, <2>5 DEF Fitted, StreamHas, Handling, Holding
    <3>3. QED
      BY <2>3, <3>1, <3>2 DEF IInv, EncodersCounted
  <2>10. TypeOK'
    <3>1. panicked' \in BOOLEAN
      BY <2>1 DEF Retire
    <3>2. QED
      BY <1>2, <1>10, <2>3, <2>4, <3>1, SMTT(30) DEF IInv, TypeOK, streamVars, ownerVars
  <2>11. QED
    BY <1>8, <1>9, <2>3, <2>6, <2>7, <2>8, <2>9, <2>10 DEF IInv
<1>12. CASE at[w] = "push"
  <2>1. /\ Push(m) /\ at' = [at EXCEPT ![w] = "receive"]
        /\ work' = [work EXCEPT ![w] = NoLane]
    BY <1>2, <1>12
  <2>2. /\ available' \in Seq(Lane) /\ Once(available', Lane)
        /\ \A l : Has(available', l) <=> Has(available, l) \/ l = m
        /\ encoder' = encoder /\ active' = active /\ panicked' = panicked
    BY <1>3, <1>4, <2>1, LanePushed
  <2>3. /\ at'[w] = "receive"
        /\ \A v \in Worker \ {w} : work'[v] = work[v] /\ at'[v] = at[v]
        /\ \A l \in Lane \ {m} : WorkerHas(l)' <=> WorkerHas(l)
        /\ ~WorkerHas(m)'
        /\ \A u, v \in Worker :
             work'[u] = work'[v] /\ at'[u] \in Handling /\ at'[v] \in Handling => u = v
    <3>1. at[w] \in Handling /\ "receive" \notin Handling
      BY <1>12 DEF Handling
    <3>2. QED
      BY <1>1, <1>3, <2>1, <3>1, WorkerMoves
  <2>4. OneOwner'
    <3>1. \A l \in Lane \ {m} : Has(available, l)' <=> Has(available, l)
      BY <2>2
    <3>2. Has(available, m)'
      BY <2>2
    <3>3. QED
      BY <1>3, <1>4, <1>6, <1>7, <2>3, <3>1, <3>2, Handover
  <2>5. NoneTwice'
    BY <1>6, <2>2, <2>3 DEF IInv, NoneTwice
  <2>6. LanesKnown'
    BY <1>6, <2>3 DEF IInv, LanesKnown, Handling
  <2>7. EncodersCounted'
    <3>1. \A l \in Lane : Fitted(l)' <=> Fitted(l)
      BY <1>6, <1>12, <2>3 DEF Fitted
    <3>2. Encoders' = Encoders
      BY <2>2 DEF Encoders
    <3>3. QED
      BY <2>2, <3>1, <3>2 DEF IInv, EncodersCounted
  <2>8. TypeOK'
    BY <1>2, <1>10, <2>2 DEF IInv, TypeOK, streamVars, ownerVars
  <2>9. QED
    BY <1>8, <1>9, <2>2, <2>4, <2>5, <2>6, <2>7, <2>8 DEF IInv
<1>13. QED
  BY <1>2, <1>11, <1>12

\* The owner's drop sends a Stop, when no stream is left.
LEMMA SendStopStep ==
  ASSUME IInv, SendStop
  PROVE  IInv'
<1>1. /\ \A s \in Stream : pc[s] = "over"
      /\ stops < Cardinality(Worker) /\ stops' = stops + 1
      /\ Len(channel) < Lanes /\ channel' = Append(channel, Stop)
      /\ UNCHANGED <<free_slots, available, active, cellVars, streamVars, workerVars, joined,
                     panicked>>
  BY DEF SendStop
<1>2. /\ channel' \in Seq(Lane \cup {Stop}) /\ Len(channel') <= Lanes
      /\ \A x \in Lane : Has(channel', x) <=> Has(channel, x)
      /\ Once(channel', Lane)
  <2>1. PICK S : S = Lane \cup {Stop}
    OBVIOUS
  <2>2. PICK q \in Seq(S) : q = channel
    BY <2>1 DEF IInv, TypeOK
  <2>3. Stop \in S /\ Stop \notin Lane /\ Once(q, Lane) /\ Len(q) < Lanes /\ Len(q) \in Nat
    BY <1>1, <2>1, <2>2, Constants, SMTT(30) DEF IInv, NoneTwice
  <2>4. /\ Append(q, Stop) \in Seq(S)
        /\ Len(Append(q, Stop)) = Len(q) + 1
        /\ \A x : Has(Append(q, Stop), x) <=> Has(q, x) \/ x = Stop
        /\ Once(Append(q, Stop), Lane)
    BY <2>3, Appended
  <2>5. Len(Append(q, Stop)) <= Lanes
    BY <2>3, <2>4, Constants, SMTT(30)
  <2>6. QED
    BY <1>1, <2>1, <2>2, <2>3, <2>4, <2>5
<1>3. available' = available /\ active' = active /\ encoder' = encoder /\ result' = result
      /\ cancelled' = cancelled /\ pc' = pc /\ lane' = lane /\ at' = at /\ work' = work
      /\ free_slots' = free_slots
  BY <1>1 DEF cellVars, streamVars, workerVars
<1>4. \A l \in Lane : /\ StreamHas(l)' <=> StreamHas(l)
                      /\ WorkerHas(l)' <=> WorkerHas(l)
                      /\ Fitted(l)' <=> Fitted(l)
  BY <1>2, <1>3 DEF StreamHas, WorkerHas, Fitted
<1>5. OneOwner'
  BY <1>2, <1>3, <1>4 DEF IInv, OneOwner
<1>6. NoneTwice' /\ LanesKnown'
  BY <1>2, <1>3 DEF IInv, NoneTwice, LanesKnown
<1>7. EncodersCounted'
  <2>1. Encoders' = Encoders
    BY <1>3 DEF Encoders
  <2>2. QED
    BY <1>3, <1>4, <2>1 DEF IInv, EncodersCounted
<1>8. TypeOK'
  <2>1. stops' \in 0 .. Cardinality(Worker)
    BY <1>1, Constants, SMTT(30) DEF IInv, TypeOK
  <2>2. QED
    BY <1>1, <1>2, <2>1 DEF IInv, TypeOK, cellVars, streamVars, workerVars
<1>9. StopsLast' /\ SlotsCounted'
  <2>1. Slotted' = Slotted
    BY <1>3 DEF Slotted
  <2>2. QED
    BY <1>1, <1>3, <2>1 DEF IInv, StopsLast, SlotsCounted
<1>10. Takers'
  BY <1>2, <1>3 DEF IInv, Takers
<1>11. QED
  BY <1>1, <1>5, <1>6, <1>7, <1>8, <1>9, <1>10 DEF IInv

\* A step that leaves everything but the owner's return alone.
LEMMA StillStep ==
  ASSUME IInv, joined' \in BOOLEAN,
         UNCHANGED <<free_slots, available, active, channel, cellVars, streamVars, workerVars,
                     stops, panicked>>
  PROVE  IInv'
<1>1. TypeOK'
  BY DEF IInv, TypeOK, cellVars, streamVars, workerVars
<1>2. \A l \in Lane : /\ StreamHas(l)' <=> StreamHas(l)
                      /\ WorkerHas(l)' <=> WorkerHas(l)
                      /\ Fitted(l)' <=> Fitted(l)
  BY DEF StreamHas, WorkerHas, Fitted, cellVars, streamVars, workerVars
<1>3. OneOwner'
  BY <1>2 DEF IInv, OneOwner, cellVars
<1>4. NoneTwice' /\ LanesKnown' /\ StopsLast' /\ Takers'
  BY DEF IInv, NoneTwice, LanesKnown, StopsLast, Takers, cellVars, streamVars, workerVars
<1>5. EncodersCounted' /\ SlotsCounted'
  <2>1. Encoders' = Encoders /\ Slotted' = Slotted /\ encoder' = encoder
    BY DEF Encoders, Slotted, cellVars, streamVars
  <2>2. QED
    BY <1>2, <2>1 DEF IInv, EncodersCounted, SlotsCounted
<1>6. QED
  BY <1>1, <1>3, <1>4, <1>5 DEF IInv

-----------------------------------------------------------------------------
(* The invariant *)

\* The invariant holds when the executor is built: all lanes are in the pool.
LEMMA InitHolds == Init => IInv
<1> SUFFICES ASSUME Init PROVE IInv
  OBVIOUS
<1>1. PICK n \in Nat \ {0} : n = Lanes
  BY Constants
<1>2. available = [i \in 1 .. n |-> n - i] /\ Lane = 0 .. n - 1
  BY <1>1 DEF Init, Lane
<1>3. available \in [1 .. n -> Lane]
  <2>1. \A i \in 1 .. n : n - i \in 0 .. n - 1
    BY SMTT(30)
  <2>2. QED
    BY <1>2, <2>1
<1>4. available \in Seq(Lane)
  BY <1>3, SMTT(30)
<1>5. Once(available, Lane)
  BY <1>2, SMTT(30) DEF Once
<1>6. \A l \in Lane : Has(available, l)
  <2>1. ASSUME NEW l \in Lane PROVE Has(available, l)
    <3>1. n - l \in 1 .. n /\ n - (n - l) = l
      BY <1>2, <2>1, SMTT(30)
    <3>2. QED
      BY <1>2, <3>1 DEF Has
  <2>2. QED
    BY <2>1
<1>7. channel = <<>> /\ channel \in Seq(Lane \cup {Stop}) /\ Len(channel) = 0
      /\ \A x : ~Has(channel, x)
  BY SMTT(30) DEF Init, Has
<1>8. TypeOK
  <2>1. /\ {encoder, cancelled, result} \subseteq [Lane -> BOOLEAN]
        /\ waker \in [Lane -> Stream \cup {None}]
        /\ woken \in [Stream -> BOOLEAN] /\ {joined, panicked} \subseteq BOOLEAN
    BY DEF Init
  <2>2. /\ lane \in [Stream -> Lane \cup {NoLane}] /\ work \in [Worker -> Lane \cup {NoLane}]
        /\ ops \in [Stream -> 0 .. MaxOps] /\ stops \in 0 .. Cardinality(Worker)
        /\ free_slots \in 0 .. Lanes /\ active \in 0 .. Lanes /\ Len(channel) <= Lanes
    BY <1>7, Constants, SMTT(30) DEF Init
  <2>3. /\ pc \in [Stream -> {"new", "admit", "admitted", "lane", "poll", "register", "recheck",
                              "asleep", "drop_waker", "drop_result", "retire", "push",
                              "source", "over"}]
        /\ at \in [Worker -> {"receive", "received", "publish", "wake", "retire",
                              "push", "stopped"}]
    BY DEF Init
  <2>4. QED
    BY <1>4, <1>7, <2>1, <2>2, <2>3 DEF TypeOK
<1>9. \A l \in Lane : ~StreamHas(l) /\ ~WorkerHas(l) /\ ~Fitted(l) /\ ~result[l] /\ ~encoder[l]
  BY <1>7 DEF Init, StreamHas, WorkerHas, Fitted, Holding, Handling
<1>10. OneOwner
  BY <1>6, <1>7, <1>9 DEF OneOwner
<1>11. NoneTwice
  <2>1. Once(channel, Lane)
    BY <1>7 DEF Once, Has
  <2>2. QED
    BY <1>5, <2>1 DEF Init, NoneTwice, Holding, Handling
<1>12. EncodersCounted
  <2>1. Encoders = {}
    BY <1>9 DEF Encoders
  <2>2. QED
    BY <1>9, <2>1, FS_EmptySet DEF Init, EncodersCounted
<1>13. SlotsCounted
  <2>1. Slotted = {}
    BY DEF Init, Slotted
  <2>2. QED
    BY <2>1, FS_EmptySet, Constants, SMTT(30) DEF Init, SlotsCounted
<1>14. LanesKnown /\ Takers /\ StopsLast /\ ~panicked
  BY <1>7, <1>9 DEF Init, LanesKnown, Takers, StopsLast, Holding, InFlight, Dropping, Handling
<1>15. QED
  BY <1>8, <1>10, <1>11, <1>12, <1>13, <1>14 DEF IInv

\* Every step of the executor and of its streams preserves the invariant.
LEMMA StepHolds == IInv /\ [Next]_vars => IInv'
<1> SUFFICES ASSUME IInv, [Next]_vars PROVE IInv'
  OBVIOUS
<1>1. CASE \E s \in Stream : Task(s)
  BY <1>1, SlotStep, TryAdmitStep, PrepareStep, PollStep, TakeStep, StreamReleasesStep DEF Task
<1>2. CASE \E s \in Stream : Submit(s) \/ PollAgain(s) \/ DropLane(s) \/ DropJob(s)
  BY <1>2, SubmitStep, PollStep
<1>3. CASE \E w \in Worker : WorkerLoop(w)
  BY <1>3, ReceiveStep, WorkStep, PublishStep, WorkerReleasesStep DEF WorkerLoop
<1>4. CASE SendStop
  BY <1>4, SendStopStep
<1>5. CASE Join
  <2>1. joined' \in BOOLEAN
    BY <1>5 DEF Join
  <2>2. QED
    BY <1>5, <2>1, StillStep DEF Join
<1>6. CASE UNCHANGED vars
  <2>1. joined' \in BOOLEAN
    BY <1>6 DEF vars, ownerVars, IInv, TypeOK
  <2>2. QED
    BY <1>6, <2>1, StillStep DEF vars, ownerVars
<1>7. QED
  BY <1>1, <1>2, <1>3, <1>4, <1>5, <1>6 DEF Next

\* The invariant holds in every reachable state.
THEOREM Invariance == Spec => []IInv
BY InitHolds, StepHolds, PTL DEF Spec

\* A set without two different elements has at most one.
LEMMA AtMostOne ==
  ASSUME NEW T, \A x, y \in T : x = y
  PROVE  Cardinality(T) = IF T = {} THEN 0 ELSE 1
<1>1. CASE T = {}
  BY <1>1, FS_EmptySet
<1>2. CASE T # {}
  <2>1. PICK x : T = {x}
    BY <1>2, SMTT(30)
  <2>2. Cardinality({x}) = 1
    BY FS_Singleton
  <2>3. QED
    BY <1>2, <2>1, <2>2
<1>3. QED
  BY <1>1, <1>2

\* Every lane has one owner, and at most one.
LEMMA OwnedOnce == IInv => LaneOwnedOnce
<1> SUFFICES ASSUME IInv, NEW l \in Lane
             PROVE  Cardinality({i \in DOMAIN available : available[i] = l})
                      + Cardinality({i \in DOMAIN channel : channel[i] = l})
                      + Cardinality(StreamsOwning(l)) + Cardinality(WorkersOwning(l))
                      + (IF result[l] THEN 1 ELSE 0) = 1
  BY DEF LaneOwnedOnce
<1>1. PICK a : a = Cardinality({i \in DOMAIN available : available[i] = l})
  OBVIOUS
<1>2. a = IF Has(available, l) THEN 1 ELSE 0
  <2>1. PICK T : T = {i \in DOMAIN available : available[i] = l}
    OBVIOUS
  <2>2. \A x, y \in T : x = y
    BY <2>1 DEF IInv, NoneTwice, Once
  <2>3. T = {} <=> ~Has(available, l)
    BY <2>1 DEF Has
  <2>4. Cardinality(T) = IF T = {} THEN 0 ELSE 1
    BY <2>2, AtMostOne, SMTT(30)
  <2>5. QED
    BY <1>1, <2>1, <2>3, <2>4
<1>3. PICK c : c = Cardinality({i \in DOMAIN channel : channel[i] = l})
  OBVIOUS
<1>4. c = IF Has(channel, l) THEN 1 ELSE 0
  <2>1. PICK T : T = {i \in DOMAIN channel : channel[i] = l}
    OBVIOUS
  <2>2. \A x, y \in T : x = y
    BY <2>1 DEF IInv, NoneTwice, Once
  <2>3. T = {} <=> ~Has(channel, l)
    BY <2>1 DEF Has
  <2>4. Cardinality(T) = IF T = {} THEN 0 ELSE 1
    BY <2>2, AtMostOne
  <2>5. QED
    BY <1>3, <2>1, <2>3, <2>4
<1>5. PICK u : u = Cardinality(StreamsOwning(l))
  OBVIOUS
<1>6. u = IF StreamHas(l) THEN 1 ELSE 0
  <2>1. PICK T : T = StreamsOwning(l)
    OBVIOUS
  <2>2. \A x, y \in T : x = y
    BY <2>1, SMTT(30) DEF IInv, NoneTwice, StreamsOwning, Holding
  <2>3. T = {} <=> ~StreamHas(l)
    BY <2>1 DEF StreamHas, StreamsOwning, Holding
  <2>4. Cardinality(T) = IF T = {} THEN 0 ELSE 1
    BY <2>2, AtMostOne
  <2>5. QED
    BY <1>5, <2>1, <2>3, <2>4
<1>7. PICK w : w = Cardinality(WorkersOwning(l))
  OBVIOUS
<1>8. w = IF WorkerHas(l) THEN 1 ELSE 0
  <2>1. PICK T : T = WorkersOwning(l)
    OBVIOUS
  <2>2. \A x, y \in T : x = y
    BY <2>1, SMTT(30) DEF IInv, NoneTwice, WorkersOwning, Handling
  <2>3. T = {} <=> ~WorkerHas(l)
    BY <2>1 DEF WorkerHas, WorkersOwning, Handling
  <2>4. Cardinality(T) = IF T = {} THEN 0 ELSE 1
    BY <2>2, AtMostOne
  <2>5. QED
    BY <1>7, <2>1, <2>3, <2>4
<1>9. PICK r : r = IF result[l] THEN 1 ELSE 0
  OBVIOUS
<1>10. a + c + u + w + r = 1
  BY <1>2, <1>4, <1>6, <1>8, <1>9, SMTT(30) DEF IInv, OneOwner
<1>11. QED
  BY <1>1, <1>3, <1>5, <1>7, <1>9, <1>10

\* A lane is never lost or released twice, whichever of poll, drop, publish and
\* cancellation wins: it has one owner; the active count never includes a lane
\* that is available; a completion has somebody to take it; and no assertion
\* of the executor fails.  This holds for any number of lanes, streams,
\* workers and operations, although with two or more lanes a stream may take
\* the completion of another.
THEOREM LanesNeverLost == Spec => []LanesAccounted
<1>1. IInv => NoFalseHighWater
  <2> SUFFICES ASSUME IInv PROVE active <= Cardinality(Leased)
    BY DEF NoFalseHighWater
  <2>1. Encoders \in SUBSET Leased
    <3> SUFFICES ASSUME NEW l \in Lane, encoder[l] PROVE l \in Leased
      BY DEF Encoders
    <3>1. Fitted(l)
      BY DEF IInv, EncodersCounted
    <3>2. ~Has(available, l)
      BY <3>1 DEF IInv, OneOwner, Fitted, StreamHas, WorkerHas, Holding, Handling
    <3>3. QED
      BY <3>2 DEF Has, Leased
  <2>2. IsFiniteSet(Leased)
    BY Constants, FS_Subset DEF Leased
  <2>3. QED
    BY <2>1, <2>2, FS_Subset DEF IInv, EncodersCounted
<1>2. IInv => CompletionHasTaker
  BY DEF IInv, Takers, CompletionHasTaker, Dropping
<1>3. IInv => TypeOK /\ NoInvalidState
  BY DEF IInv, NoInvalidState
<1>4. IInv => LanesAccounted
  BY <1>1, <1>2, <1>3, OwnedOnce DEF LanesAccounted
<1>5. QED
  BY <1>4, Invariance, PTL

-----------------------------------------------------------------------------
(* One lane *)

\* There is one slot for one lane, so only one stream is between its slot and
\* its end.
LEMMA OneSlot ==
  ASSUME Lanes = 1, IInv, NEW s \in Stream, pc[s] \notin {"new", "over"},
         NEW t \in Stream, t # s
  PROVE  pc[t] \in {"new", "over"} /\ free_slots = 0
<1>1. PICK S : S = Slotted
  OBVIOUS
<1>2. IsFiniteSet(S) /\ free_slots \in Nat /\ free_slots + Cardinality(S) = 1 /\ s \in S
  BY <1>1, SMTT(30) DEF IInv, SlotsCounted, TypeOK, Slotted
<1>3. Cardinality(S) \in Nat /\ Cardinality(S) # 0
  BY <1>2, FS_CardinalityType, FS_EmptySet
<1>4. Cardinality(S) = 1 /\ free_slots = 0
  BY <1>2, <1>3, SMTT(30)
<1>5. S = {s}
  BY <1>2, <1>4, FS_Singleton, SMTT(30)
<1>6. QED
  BY <1>1, <1>4, <1>5 DEF Slotted

\* No step takes its lane from the operation in flight.
LEMMA OneLaneStep ==
  ASSUME Lanes = 1, IInv, OneLane, Next
  PROVE  OneLane'
<1>1. Lane = {0}
  BY SMTT(30) DEF Lane
<1>2. ASSUME NEW s \in Stream, pc'[s] = "new"
      PROVE  lane'[s] = NoLane
  <2>1. CASE \E t \in Stream : TryAdmit(t)
    <3>1. PICK t \in Stream : TryAdmit(t)
      BY <2>1
    <3>2. s # t
      BY <1>2, <3>1 DEF TryAdmit, Goto, IInv, TypeOK
    <3>3. lane'[s] = lane[s] /\ pc'[s] = pc[s]
      BY <3>1, <3>2 DEF TryAdmit, Goto, IInv, TypeOK
    <3>4. QED
      BY <1>2, <3>3 DEF OneLane
  <2>2. CASE ~\E t \in Stream : TryAdmit(t)
    <3>1. lane' = lane
      BY <2>2 DEF Next, Task, WorkerLoop, TakeSlot, Prepare, PollTake, Register, Recheck,
           DropWaker, DropResult, StreamReleases, DropSource, Submit, PollAgain, DropLane,
           DropJob, Receive, Run, Publish, WakeJob, WorkerReleases, SendStop, Join, vars,
           streamVars
    <3>2. pc[s] = "new"
      BY <1>2, <2>2 DEF Next, Task, WorkerLoop, TakeSlot, Prepare, PollTake, Register, Recheck,
           DropWaker, DropResult, StreamReleases, DropSource, Submit, PollAgain, DropLane,
           DropJob, Receive, Run, Publish, WakeJob, WorkerReleases, SendStop, Join, vars,
           streamVars, Goto, IInv, TypeOK
    <3>3. QED
      BY <3>1, <3>2 DEF OneLane
  <2>3. QED
    BY <2>1, <2>2
<1>3. ASSUME NEW s \in Stream, pc'[s] \in InFlight, NEW t \in Stream,
             \/ Task(t) \/ Submit(t) \/ PollAgain(t) \/ DropLane(t) \/ DropJob(t)
      PROVE  Underway(s)'
  <2>1. CASE t = s
    <3>1. CASE Submit(s)
      <4>1. pc[s] = "lane" /\ lane[s] \in Lane
        BY <3>1 DEF Submit, IInv, LanesKnown, Holding
      <4>2. /\ channel' = Append(channel, lane[s]) /\ lane' = lane
            /\ cancelled' = [cancelled EXCEPT ![lane[s]] = FALSE]
        BY <3>1, <4>1, ChannelHasRoom DEF Submit
      <4>3. ~cancelled'[lane[s]]
        BY <4>1, <4>2 DEF IInv, TypeOK
      <4>4. Has(channel', lane[s])
        <5>1. PICK S : S = Lane \cup {Stop}
          OBVIOUS
        <5>2. PICK q \in Seq(S) : q = channel
          BY <5>1 DEF IInv, TypeOK
        <5>3. PICK m \in S : m = lane[s]
          BY <4>1, <5>1
        <5>4. Has(Append(q, m), m)
          BY Appended
        <5>5. QED
          BY <4>2, <5>2, <5>3, <5>4
      <4>5. QED
        BY <4>2, <4>3, <4>4 DEF Underway
    <3>2. CASE ~Submit(s)
      <4>1. pc[s] \in InFlight /\ ~(PollTake(s) /\ result[lane[s]])
        BY <1>3, <2>1, <3>2 DEF Task, TakeSlot, TryAdmit, Prepare, PollTake, Register, Recheck,
             DropWaker, DropResult, StreamReleases, DropSource, PollAgain, DropLane,
             DropJob, Goto, IInv, TypeOK, InFlight
      <4>2. /\ channel' = channel /\ lane' = lane /\ cancelled' = cancelled /\ result' = result
            /\ at' = at /\ work' = work
        BY <1>3, <2>1, <3>2, <4>1 DEF Task, TakeSlot, TryAdmit, Prepare, PollTake, Register,
             Recheck, DropWaker, DropResult, StreamReleases, DropSource, PollAgain, DropLane,
             DropJob, Goto, IInv, TypeOK, InFlight, cellVars, workerVars
      <4>3. QED
        BY <4>1, <4>2 DEF OneLane, Underway
    <3>3. QED
      BY <3>1, <3>2
  <2>2. CASE t # s
    <3>1. pc'[s] = pc[s]
      BY <1>3, <2>2 DEF Task, TakeSlot, TryAdmit, Prepare, PollTake, Register, Recheck,
           DropWaker, DropResult, StreamReleases, DropSource, Submit, PollAgain, DropLane,
           DropJob, Goto, IInv, TypeOK
    <3>2. pc[t] \in {"new", "over"} /\ free_slots = 0
      BY <1>3, <2>2, <3>1, OneSlot DEF InFlight
    <3>3. TakeSlot(t)
      BY <1>3, <3>2 DEF Task, TryAdmit, Prepare, PollTake, Register, Recheck,
           DropWaker, DropResult, StreamReleases, DropSource, Submit, PollAgain, DropLane, DropJob
    <3>4. /\ channel' = channel /\ lane' = lane /\ cancelled' = cancelled /\ result' = result
          /\ at' = at /\ work' = work
      BY <3>3 DEF TakeSlot, cellVars, workerVars
    <3>5. QED
      BY <1>3, <3>1, <3>4 DEF OneLane, Underway
  <2>3. QED
    BY <2>1, <2>2
<1>4. ASSUME NEW s \in Stream, pc'[s] \in InFlight, NEW w \in Worker, WorkerLoop(w)
      PROVE  Underway(s)'
  <2>1. pc' = pc /\ lane' = lane /\ cancelled' = cancelled
    BY <1>4 DEF WorkerLoop, Receive, Run, Publish, WakeJob, WorkerReleases, cellVars, streamVars
  <2>2. Underway(s) /\ lane[s] = 0
    BY <1>1, <1>4, <2>1 DEF OneLane, IInv, LanesKnown
  <2>3. CASE Receive(w)
    <3>1. channel # <<>> /\ channel' = Tail(channel) /\ result' = result
      BY <2>3 DEF Receive, cellVars
    <3>2. \A v \in Worker :
            at[v] \in {"received", "publish"} => at'[v] = at[v] /\ work'[v] = work[v]
      BY <2>3 DEF Receive, WGoto, IInv, TypeOK
    <3>3. CASE Head(channel) = 0
      <4>1. at'[w] = "received" /\ work'[w] = 0
        BY <2>3, <3>3, SMTT(30) DEF Receive, WGoto, Stop, IInv, TypeOK
      <4>2. QED
        BY <2>1, <2>2, <4>1 DEF Underway
    <3>4. CASE Head(channel) # 0
      <4>1. Has(channel, 0) => Has(channel', 0)
        <5>1. PICK S : S = Lane \cup {Stop}
          OBVIOUS
        <5>2. PICK q \in Seq(S) : q = channel
          BY <5>1 DEF IInv, TypeOK
        <5>3. Once(q, Lane) /\ q # <<>>
          BY <3>1, <5>2 DEF IInv, NoneTwice
        <5>4. \A x \in Lane : Has(Tail(q), x) <=> Has(q, x) /\ x # Head(q)
          BY <5>3, Received
        <5>5. QED
          BY <1>1, <3>1, <3>4, <5>2, <5>4
      <4>2. QED
        BY <2>1, <2>2, <3>1, <3>2, <4>1 DEF Underway
    <3>5. QED
      BY <3>3, <3>4
  <2>4. CASE Run(w) \/ Publish(w)
    <3>1. /\ channel' = channel /\ work' = work
          /\ at[w] \in {"received", "publish"}
          /\ \A v \in Worker \ {w} : at'[v] = at[v]
      BY <2>4 DEF Run, Publish, WGoto, IInv, TypeOK
    <3>2. work[w] = 0
      BY <1>1, <3>1 DEF IInv, LanesKnown, Handling
    <3>3. ~cancelled[work[w]]
      BY <2>2, <3>2 DEF Underway
    <3>4. at'[w] = "publish" \/ (result' = [result EXCEPT ![0] = TRUE])
      BY <2>4, <3>2, <3>3 DEF Run, Publish, WGoto, IInv, TypeOK
    <3>5. at'[w] = "publish" \/ result'[0]
      BY <1>1, <3>4 DEF IInv, TypeOK
    <3>6. QED
      BY <2>1, <2>2, <3>1, <3>2, <3>5 DEF Underway
  <2>5. CASE WakeJob(w) \/ WorkerReleases(w)
    <3>1. /\ channel' = channel /\ result' = result
          /\ \A v \in Worker :
               at[v] \in {"received", "publish"} => at'[v] = at[v] /\ work'[v] = work[v]
      BY <2>5 DEF WakeJob, WorkerReleases, WGoto, IInv, TypeOK
    <3>2. QED
      BY <2>1, <2>2, <3>1 DEF Underway
  <2>6. QED
    BY <1>4, <2>3, <2>4, <2>5 DEF WorkerLoop
<1>5. ASSUME NEW s \in Stream, pc'[s] \in InFlight, SendStop \/ Join \/ UNCHANGED vars
      PROVE  Underway(s)'
  <2>1. pc' = pc
    BY <1>5 DEF SendStop, Join, vars, streamVars
  <2>2. ~SendStop
    BY <1>5, <2>1 DEF SendStop, InFlight
  <2>3. /\ channel' = channel /\ lane' = lane /\ cancelled' = cancelled /\ result' = result
        /\ at' = at /\ work' = work
    BY <1>5, <2>2 DEF Join, vars, cellVars, streamVars, workerVars
  <2>4. QED
    BY <1>5, <2>1, <2>3 DEF OneLane, Underway
<1>6. QED
  BY <1>2, <1>3, <1>4, <1>5 DEF Next, OneLane

\* With one lane, as in the run of the executors, "a compressed stream leases
\* one lane for its lifetime" is true: its slot, which it gives back after its
\* lane, keeps every other stream away from both until it is over.  With more
\* lanes it is not.
THEOREM OneLaneLeasedForLifetime ==
  ASSUME Lanes = 1
  PROVE  Spec => []LeasedForLifetime
<1>1. Init => OneLane
  BY DEF Init, OneLane, InFlight
<1>2. IInv /\ OneLane /\ [Next]_vars => OneLane'
  <2>1. ASSUME OneLane, UNCHANGED vars PROVE OneLane'
    BY <2>1 DEF OneLane, Underway, vars, cellVars, streamVars, workerVars
  <2>2. QED
    BY <2>1, OneLaneStep
<1>3. IInv /\ OneLane => LeasedForLifetime
  <2> SUFFICES ASSUME IInv, OneLane, NEW s \in Stream, pc[s] \in InFlight
               PROVE  /\ lane[s] \in Leased
                      /\ \A t \in Stream \ {s} :
                           lane[t] = lane[s] =>
                             pc[t] \in {"drop_waker", "drop_result", "source", "over"}
    BY DEF LeasedForLifetime
  <2>1. lane[s] \in Lane
    BY DEF IInv, LanesKnown
  <2>2. Has(channel, lane[s]) \/ result[lane[s]] \/ WorkerHas(lane[s])
    BY DEF OneLane, Underway, WorkerHas, Handling
  <2>3. ~Has(available, lane[s])
    BY <2>1, <2>2 DEF IInv, OneOwner
  <2>4. lane[s] \in Leased
    BY <2>1, <2>3 DEF Has, Leased
  <2>5. \A t \in Stream \ {s} : pc[t] \in {"new", "over"}
    BY OneSlot DEF InFlight
  <2>6. \A t \in Stream : pc[t] = "new" => lane[t] # lane[s]
    BY <2>1, Constants DEF OneLane
  <2>7. QED
    BY <2>4, <2>5, <2>6
<1>4. QED
  BY <1>1, <1>2, <1>3, Invariance, PTL DEF Spec
=============================================================================
