-------------------------- MODULE BoundedGateProofs --------------------------
(***************************************************************************)
(* Proofs about BoundedGate, for any finite set of callers and any limits. *)
(*                                                                         *)
(* PermitsExact and NoneStranded are inductive together with the types and *)
(* with CallsOrdered: that a caller without a resolver is the one that     *)
(* starts a resolver makes the two kinds of permit disjoint, and that the  *)
(* server waits only after the last call keeps it from taking a caller's   *)
(* notification.                                                           *)
(***************************************************************************)
EXTENDS BoundedGate, FiniteSetTheorems, TLAPS

\* Sets of callers have a size, which is zero only for the empty set.
LEMMA Counted ==
  ASSUME NEW S \in SUBSET Callers
  PROVE  IsFiniteSet(S) /\ Cardinality(S) \in Nat /\ (Cardinality(S) = 0 <=> S = {})
BY CallersAssumption, FS_Subset, FS_CardinalityType, FS_EmptySet

\* One caller more, one caller less.
LEMMA OneMore ==
  ASSUME NEW S \in SUBSET Callers, NEW c \in Callers, c \notin S
  PROVE  Cardinality(S \cup {c}) = Cardinality(S) + 1
BY Counted, FS_AddElement

LEMMA OneLess ==
  ASSUME NEW S \in SUBSET Callers, NEW c \in S
  PROVE  Cardinality(S \ {c}) = Cardinality(S) - 1 /\ Cardinality(S) > 0
<1>1. Cardinality(S \ {c}) = Cardinality(S) - 1
  BY Counted, FS_RemoveElement
<1>2. S # {} /\ Cardinality(S) \in Nat /\ (Cardinality(S) = 0 <=> S = {})
  BY Counted
<1>3. QED
  BY <1>1, <1>2

\* What TypeOK says of the sets that PermitsExact counts.
LEMMA SetsCounted ==
  /\ Holding \in SUBSET Callers /\ Resolving \in SUBSET Callers
  /\ Sleeping \in SUBSET Callers /\ Sleeping \cap notified \in SUBSET Callers
  /\ Cardinality(Holding) \in Nat /\ Cardinality(Resolving) \in Nat
  /\ Cardinality(Sleeping) \in Nat /\ Cardinality(Sleeping \cap notified) \in Nat
<1>1. /\ Holding \in SUBSET Callers /\ Resolving \in SUBSET Callers
      /\ Sleeping \in SUBSET Callers /\ Sleeping \cap notified \in SUBSET Callers
  BY DEF Holding, Resolving, Sleeping
<1>2. QED
  BY <1>1, Counted

-----------------------------------------------------------------------------
(* The initial state *)

\* At startup nobody holds, waits for or resolves anything.
LEMMA InitIInv == Init => IInv
<1> SUFFICES ASSUME Init PROVE IInv
  OBVIOUS
<1>1. Holding = {} /\ Resolving = {} /\ Sleeping = {}
  BY DEF Init, Holding, Resolving, Sleeping
<1>2. TypeOK
  BY LimitsAssumption DEF Init, TypeOK, Calling
<1>3. PermitsExact
  BY <1>1, FS_EmptySet, LimitsAssumption DEF Init, PermitsExact
<1>4. NoneStranded
  BY <1>1 DEF Init, NoneStranded
<1>5. CallsOrdered
  BY DEF Init, CallsOrdered
<1>6. QED
  BY <1>2, <1>3, <1>4, <1>5 DEF IInv

-----------------------------------------------------------------------------
(* Returning a permit *)

\* Drop for Permit keeps every free permit matched by a notified sleeper, and
\* wakes the server when it returns the last one.
LEMMA DropPermitNotifies ==
  ASSUME IInv, DropPermit, active > 0, shutdown' = shutdown, Sleeping' = Sleeping
  PROVE  /\ active' = active - 1 /\ active' \in 0 .. MaxActive
         /\ notified' \subseteq Callers \cup {Server}
         /\ NoneStranded'
<1> DEFINE unnotified == Asleep \ notified
<1>1. /\ active \in 0 .. MaxActive /\ MaxActive \in Nat /\ notified \subseteq Callers \cup {Server}
      /\ Asleep \subseteq Callers \cup {Server} /\ Sleeping \subseteq Asleep
  BY LimitsAssumption DEF IInv, TypeOK, Asleep, Sleeping
<1>2. active' = active - 1 /\ active' \in 0 .. MaxActive
  BY <1>1 DEF DropPermit
<1>3. CASE active' = 0
  <2>1. notified' = notified \cup unnotified
    BY <1>3 DEF DropPermit
  <2>2. Asleep \subseteq notified'
    BY <2>1
  <2>3. shutdown = "sleep" => Server \in notified'
    BY <2>2 DEF Asleep
  <2>4. NoneStranded'
    BY <2>2, <2>3, <1>1 DEF NoneStranded
  <2>5. QED
    BY <1>1, <1>2, <2>1, <2>4
<1>4. CASE active' # 0 /\ unnotified = {}
  <2>1. notified' = notified
    BY <1>4 DEF DropPermit
  <2>2. Sleeping \subseteq notified'
    BY <1>1, <1>4, <2>1
  <2>3. NoneStranded'
    BY <2>2, <1>4 DEF NoneStranded
  <2>4. QED
    BY <1>1, <1>2, <2>1, <2>3
<1>5. CASE active' # 0 /\ unnotified # {}
  <2>1. PICK s \in unnotified : notified' = notified \cup {s}
    BY <1>5 DEF DropPermit
  <2>2. notified' \subseteq Callers \cup {Server}
    BY <1>1, <2>1
  <2>3. CASE s \in Sleeping
    <3>1. Sleeping \cap notified' = (Sleeping \cap notified) \cup {s}
      BY <2>1, <2>3
    <3>2. s \in Callers /\ s \notin Sleeping \cap notified
      BY <2>1, <2>3, SetsCounted
    <3>3. Cardinality(Sleeping \cap notified') = Cardinality(Sleeping \cap notified) + 1
      BY <3>1, <3>2, SetsCounted, OneMore
    <3>4. ~(Sleeping \subseteq notified)
      BY <2>1, <2>3
    <3>5. MaxActive - active <= Cardinality(Sleeping \cap notified)
      BY <3>4 DEF IInv, NoneStranded
    <3>6. MaxActive - active' <= Cardinality(Sleeping \cap notified')
      BY <1>1, <1>2, <3>3, <3>5, SetsCounted
    <3>7. QED
      BY <1>2, <1>5, <2>2, <3>6 DEF NoneStranded
  <2>4. CASE s \notin Sleeping
    <3>1. shutdown = "sleep"
      BY <2>1, <2>4 DEF Asleep
    <3>2. Sleeping = {}
      BY <3>1 DEF IInv, CallsOrdered, Sleeping
    <3>3. QED
      BY <1>2, <1>5, <2>2, <3>2 DEF NoneStranded
  <2>5. QED
    BY <2>3, <2>4
<1>6. QED
  BY <1>3, <1>4, <1>5

-----------------------------------------------------------------------------
(* Steps of a caller *)

\* How the sets change when one caller moves on.
LEMMA Becomes ==
  ASSUME TypeOK, NEW c \in Callers, NEW p, Become(c, p)
  PROVE  /\ Holding' = IF p \in {"working", "spawn"} THEN Holding \cup {c} ELSE Holding \ {c}
         /\ Sleeping' = IF p = "sleep" THEN Sleeping \cup {c} ELSE Sleeping \ {c}
         /\ \A d \in Callers : caller'[d] = IF d = c THEN p ELSE caller[d]
<1>1. caller' = [caller EXCEPT ![c] = p] /\ caller \in [Callers -> Calling \cup {"handler"}]
  BY DEF Become, TypeOK
<1>2. \A d \in Callers : caller'[d] = IF d = c THEN p ELSE caller[d]
  BY <1>1
<1>3. QED
  BY <1>2 DEF Holding, Sleeping

\* The numbers, as a leaf about arithmetic needs them.
LEMMA Numbers ==
  ASSUME IInv
  PROVE  /\ MaxActive \in Nat /\ MaxActive > 0 /\ MaxWaiting \in Nat
         /\ active \in 0 .. MaxActive /\ waiting \in 0 .. MaxWaiting
         /\ active = Cardinality(Holding) + Cardinality(Resolving)
         /\ waiting = Cardinality(Sleeping)
BY LimitsAssumption DEF IInv, TypeOK, PermitsExact

LEMMA CallKeeps ==
  ASSUME IInv, NEW c \in Callers, Call(c)
  PROVE  IInv'
<1>1. /\ caller[c] = "handler" /\ resolvers[c] = "none" /\ shutdown = "running"
      /\ Become(c, "acquire") /\ late' = late \ {c} /\ TypeOK
      /\ UNCHANGED <<active, waiting, resolvers, notified, shutdown>>
  BY DEF Call, IInv
<1>2. /\ Holding' = Holding \ {c} /\ Sleeping' = Sleeping \ {c}
      /\ \A d \in Callers : caller'[d] = IF d = c THEN "acquire" ELSE caller[d]
  BY <1>1, Becomes
<1>3. Holding' = Holding /\ Sleeping' = Sleeping /\ Resolving' = Resolving
  BY <1>1, <1>2 DEF Holding, Sleeping, Resolving
<1>4. TypeOK'
  BY <1>1 DEF TypeOK, Become, Calling
<1>5. PermitsExact' /\ NoneStranded'
  BY <1>1, <1>3 DEF IInv, PermitsExact, NoneStranded
<1>6. CallsOrdered'
  BY <1>1, <1>2 DEF IInv, CallsOrdered
<1>7. QED
  BY <1>4, <1>5, <1>6 DEF IInv

LEMMA DeadlinePassesKeeps ==
  ASSUME IInv, NEW c \in Callers, DeadlinePasses(c)
  PROVE  IInv'
<1>1. late' = late \cup {c} /\ UNCHANGED <<active, waiting, caller, resolvers, notified, shutdown>>
  BY DEF DeadlinePasses
<1>2. Holding' = Holding /\ Sleeping' = Sleeping /\ Resolving' = Resolving
  BY <1>1 DEF Holding, Sleeping, Resolving
<1>3. TypeOK'
  BY <1>1 DEF IInv, TypeOK
<1>4. PermitsExact' /\ NoneStranded' /\ CallsOrdered'
  BY <1>1, <1>2 DEF IInv, PermitsExact, NoneStranded, CallsOrdered
<1>5. QED
  BY <1>3, <1>4 DEF IInv

\* A caller without a permit is admitted: it was not asleep, or leaves its place
\* in `waiting` and its notification behind.
LEMMA AdmittedKeeps ==
  ASSUME IInv, NEW c \in Callers, NEW use \in {"working", "spawn"}, Become(c, use),
         caller[c] \in {"acquire", "sleep"}, active < MaxActive, active' = active + 1,
         waiting' = IF caller[c] = "sleep" THEN waiting - 1 ELSE waiting,
         notified' = IF caller[c] = "sleep" THEN notified \ {c} ELSE notified,
         UNCHANGED <<late, resolvers, shutdown>>
  PROVE  IInv'
<1>1. /\ Holding' = Holding \cup {c} /\ Sleeping' = Sleeping \ {c}
      /\ \A d \in Callers : caller'[d] = IF d = c THEN use ELSE caller[d]
  BY Becomes DEF IInv
<1>2. Resolving' = Resolving
  BY DEF Resolving
<1>3. shutdown = "running" /\ resolvers[c] = "none"
  BY DEF IInv, CallsOrdered, TypeOK
<1>4. Cardinality(Holding') = Cardinality(Holding) + 1
  <2>1. c \notin Holding
    BY DEF Holding
  <2>2. QED
    BY <1>1, <2>1, SetsCounted, OneMore
<1>5. active' = Cardinality(Holding') + Cardinality(Resolving') /\ active' \in 0 .. MaxActive
  BY <1>2, <1>4, Numbers, SetsCounted
<1>6. waiting' = Cardinality(Sleeping') /\ waiting' \in 0 .. MaxWaiting
  <2>1. CASE caller[c] = "sleep"
    <3>1. c \in Sleeping
      BY <2>1 DEF Sleeping
    <3>2. Cardinality(Sleeping \ {c}) = Cardinality(Sleeping) - 1 /\ Cardinality(Sleeping) > 0
      BY <3>1, SetsCounted, OneLess
    <3>3. QED
      BY <1>1, <2>1, <3>2, Numbers, SetsCounted
  <2>2. CASE caller[c] # "sleep"
    <3>1. Sleeping \ {c} = Sleeping
      BY <2>2 DEF Sleeping
    <3>2. QED
      BY <1>1, <2>2, <3>1, Numbers
  <2>3. QED
    BY <2>1, <2>2
<1>7. TypeOK'
  BY <1>5, <1>6 DEF IInv, TypeOK, Become, Calling
<1>8. PermitsExact'
  BY <1>3, <1>5, <1>6, Numbers DEF PermitsExact
<1>9. NoneStranded'
  <2>1. CASE Sleeping \subseteq notified
    <3>1. Sleeping' \subseteq notified'
      BY <1>1, <2>1
    <3>2. QED
      BY <1>3, <3>1 DEF NoneStranded
  <2>2. CASE MaxActive - active <= Cardinality(Sleeping \cap notified)
    <3> DEFINE ready == Sleeping \cap notified
    <3>1. Sleeping' \cap notified' = IF c \in ready THEN ready \ {c} ELSE ready
      BY <1>1 DEF Sleeping
    <3>2. Cardinality(Sleeping' \cap notified') >= Cardinality(ready) - 1
      <4>1. ready \in SUBSET Callers /\ Cardinality(ready) \in Nat
        BY SetsCounted
      <4> HIDE DEF ready
      <4>2. CASE c \in ready
        <5>1. Cardinality(ready \ {c}) = Cardinality(ready) - 1
          BY <4>1, <4>2, OneLess
        <5>2. QED
          BY <3>1, <4>1, <4>2, <5>1
      <4>3. CASE c \notin ready
        BY <3>1, <4>1, <4>3
      <4>4. QED
        BY <4>2, <4>3
    <3>3. Cardinality(Sleeping' \cap notified') \in Nat
      <4>1. Sleeping' \cap notified' \in SUBSET Callers
        BY <3>1, SetsCounted
      <4>2. QED
        BY <4>1, Counted
    <3>4. MaxActive - active' <= Cardinality(Sleeping' \cap notified')
      BY <2>2, <3>2, <3>3, Numbers, SetsCounted
    <3>5. QED
      BY <1>3, <3>4 DEF NoneStranded
  <2>3. QED
    BY <2>1, <2>2 DEF IInv, NoneStranded
<1>10. CallsOrdered'
  BY <1>1, <1>3 DEF IInv, CallsOrdered
<1>11. QED
  BY <1>7, <1>8, <1>9, <1>10 DEF IInv

\* A caller gives up its wait, or is refused before it waits.
LEMMA RefusedKeeps ==
  ASSUME IInv, NEW c \in Callers, Become(c, "handler"), caller[c] \in {"acquire", "sleep"},
         active >= MaxActive, active' = active,
         waiting' = IF caller[c] = "sleep" THEN waiting - 1 ELSE waiting,
         notified' = IF caller[c] = "sleep" THEN notified \ {c} ELSE notified,
         UNCHANGED <<late, resolvers, shutdown>>
  PROVE  IInv'
<1>1. /\ Holding' = Holding \ {c} /\ Sleeping' = Sleeping \ {c}
      /\ \A d \in Callers : caller'[d] = IF d = c THEN "handler" ELSE caller[d]
  BY Becomes DEF IInv
<1>2. Resolving' = Resolving /\ Holding' = Holding
  BY <1>1 DEF Resolving, Holding
<1>3. waiting' = Cardinality(Sleeping') /\ waiting' \in 0 .. MaxWaiting
  <2>1. CASE caller[c] = "sleep"
    <3>1. c \in Sleeping
      BY <2>1 DEF Sleeping
    <3>2. Cardinality(Sleeping \ {c}) = Cardinality(Sleeping) - 1 /\ Cardinality(Sleeping) > 0
      BY <3>1, SetsCounted, OneLess
    <3>3. QED
      BY <1>1, <2>1, <3>2, Numbers, SetsCounted
  <2>2. CASE caller[c] # "sleep"
    <3>1. Sleeping \ {c} = Sleeping
      BY <2>2 DEF Sleeping
    <3>2. QED
      BY <1>1, <2>2, <3>1, Numbers
  <2>3. QED
    BY <2>1, <2>2
<1>4. TypeOK'
  BY <1>3 DEF IInv, TypeOK, Become, Calling
<1>5. PermitsExact'
  BY <1>2, <1>3, Numbers DEF IInv, PermitsExact
<1>6. shutdown = "running"
  BY DEF IInv, CallsOrdered, TypeOK
<1>7. NoneStranded'
  <2>1. Cardinality(Sleeping' \cap notified') \in Nat
    <3>1. Sleeping' \cap notified' \in SUBSET Callers
      BY <1>1, SetsCounted
    <3>2. QED
      BY <3>1, Counted
  <2>2. QED
    BY <1>6, <2>1, Numbers DEF NoneStranded
<1>8. CallsOrdered'
  BY <1>1, <1>6 DEF IInv, CallsOrdered
<1>9. QED
  BY <1>4, <1>5, <1>7, <1>8 DEF IInv

\* A caller goes to sleep: the gate is full, so there is no free permit.
LEMMA SleepsKeeps ==
  ASSUME IInv, NEW c \in Callers, Become(c, "sleep"), caller[c] = "acquire",
         active >= MaxActive, waiting < MaxWaiting, waiting' = waiting + 1,
         UNCHANGED <<active, late, resolvers, notified, shutdown>>
  PROVE  IInv'
<1>1. /\ Holding' = Holding \ {c} /\ Sleeping' = Sleeping \cup {c}
      /\ \A d \in Callers : caller'[d] = IF d = c THEN "sleep" ELSE caller[d]
  BY Becomes DEF IInv
<1>2. Resolving' = Resolving /\ Holding' = Holding /\ c \notin Sleeping
  BY <1>1 DEF Resolving, Holding, Sleeping
<1>3. shutdown = "running"
  BY DEF IInv, CallsOrdered, TypeOK
<1>4. waiting' = Cardinality(Sleeping') /\ waiting' \in 0 .. MaxWaiting
  BY <1>1, <1>2, Numbers, SetsCounted, OneMore
<1>5. TypeOK'
  BY <1>4 DEF IInv, TypeOK, Become, Calling
<1>6. PermitsExact'
  BY <1>2, <1>4, Numbers DEF IInv, PermitsExact
<1>7. NoneStranded'
  <2>1. Sleeping' \cap notified' \in SUBSET Callers
    BY <1>1, SetsCounted
  <2>2. Cardinality(Sleeping' \cap notified') \in Nat
    BY <2>1, Counted
  <2>3. QED
    BY <1>3, <2>2, Numbers DEF NoneStranded
<1>8. CallsOrdered'
  BY <1>1, <1>3 DEF IInv, CallsOrdered
<1>9. QED
  BY <1>5, <1>6, <1>7, <1>8 DEF IInv

LEMMA AcquireKeeps ==
  ASSUME IInv, NEW c \in Callers, acquire(c)
  PROVE  IInv'
<1>1. caller[c] = "acquire" /\ UNCHANGED <<late, resolvers, notified, shutdown>>
  BY DEF acquire
<1>2. CASE active < MaxActive
  <2>1. active' = active + 1 /\ waiting' = waiting /\ Admitted(c)
    BY <1>2, Numbers DEF acquire
  <2>2. PICK use \in {"working", "spawn"} : Become(c, use)
    BY <2>1 DEF Admitted
  <2>3. QED
    BY <1>1, <1>2, <2>1, <2>2, AdmittedKeeps
<1>3. CASE active >= MaxActive /\ (waiting >= MaxWaiting \/ c \in late)
  <2>1. Become(c, "handler") /\ UNCHANGED <<active, waiting>>
    BY <1>3, Numbers DEF acquire
  <2>2. QED
    BY <1>1, <1>3, <2>1, RefusedKeeps
<1>4. CASE active >= MaxActive /\ waiting < MaxWaiting /\ c \notin late
  <2>1. waiting' = waiting + 1 /\ Become(c, "sleep") /\ UNCHANGED active
    BY <1>4, Numbers DEF acquire
  <2>2. QED
    BY <1>1, <1>4, <2>1, SleepsKeeps
<1>5. QED
  BY <1>2, <1>3, <1>4, Numbers

LEMMA WakeUpKeeps ==
  ASSUME IInv, NEW c \in Callers, WakeUp(c)
  PROVE  IInv'
<1>1. /\ caller[c] = "sleep" /\ notified' = notified \ {c}
      /\ UNCHANGED <<late, resolvers, shutdown>>
  BY DEF WakeUp
<1>2. CASE active < MaxActive
  <2>1. active' = active + 1 /\ waiting' = waiting - 1 /\ Admitted(c)
    BY <1>2, Numbers DEF WakeUp
  <2>2. PICK use \in {"working", "spawn"} : Become(c, use)
    BY <2>1 DEF Admitted
  <2>3. QED
    BY <1>1, <1>2, <2>1, <2>2, AdmittedKeeps
<1>3. CASE active >= MaxActive /\ c \in late
  <2>1. waiting' = waiting - 1 /\ Become(c, "handler") /\ active' = active
    BY <1>3, Numbers DEF WakeUp
  <2>2. QED
    BY <1>1, <1>3, <2>1, RefusedKeeps
<1>4. CASE active >= MaxActive /\ c \notin late
  <2>1. UNCHANGED <<active, waiting, caller>>
    BY <1>4, Numbers DEF WakeUp
  <2>2. Holding' = Holding /\ Sleeping' = Sleeping /\ Resolving' = Resolving
    BY <1>1, <2>1 DEF Holding, Sleeping, Resolving
  <2>3. TypeOK' /\ PermitsExact' /\ CallsOrdered'
    BY <1>1, <2>1, <2>2 DEF IInv, TypeOK, PermitsExact, CallsOrdered
  <2>4. shutdown = "running"
    BY <1>1 DEF IInv, CallsOrdered, TypeOK
  <2>5. Cardinality(Sleeping' \cap notified') \in Nat
    <3>1. Sleeping' \cap notified' \in SUBSET Callers
      BY <2>2, SetsCounted
    <3>2. QED
      BY <3>1, Counted
  <2>6. NoneStranded'
    BY <1>1, <1>4, <2>1, <2>4, <2>5, Numbers DEF NoneStranded
  <2>7. QED
    BY <2>3, <2>6 DEF IInv
<1>5. QED
  BY <1>2, <1>3, <1>4, Numbers

-----------------------------------------------------------------------------
(* Steps that end a use of the gate *)

\* A caller drops its own permit: its command is over, or no thread was started.
LEMMA ReturnKeeps ==
  ASSUME IInv, NEW c \in Callers, caller[c] \in {"working", "spawn"},
         DropPermit, Become(c, "handler"), UNCHANGED <<waiting, late, resolvers, shutdown>>
  PROVE  IInv'
<1>1. /\ Holding' = Holding \ {c} /\ Sleeping' = Sleeping \ {c}
      /\ \A d \in Callers : caller'[d] = IF d = c THEN "handler" ELSE caller[d]
  BY Becomes DEF IInv
<1>2. Resolving' = Resolving /\ Sleeping' = Sleeping /\ c \in Holding
  BY <1>1 DEF Resolving, Sleeping, Holding
<1>3. Cardinality(Holding') = Cardinality(Holding) - 1 /\ Cardinality(Holding) > 0
  BY <1>1, <1>2, SetsCounted, OneLess
<1>4. active > 0
  BY <1>3, Numbers, SetsCounted
<1>5. /\ active' = active - 1 /\ active' \in 0 .. MaxActive
      /\ notified' \subseteq Callers \cup {Server} /\ NoneStranded'
  BY <1>2, <1>4, DropPermitNotifies
<1>6. TypeOK'
  BY <1>5 DEF IInv, TypeOK, Become
<1>7. active' = Cardinality(Holding') + Cardinality(Resolving')
  BY <1>2, <1>3, <1>5, Numbers, SetsCounted
<1>8. shutdown = "running"
  BY DEF IInv, CallsOrdered, TypeOK
<1>9. PermitsExact'
  BY <1>2, <1>5, <1>7, <1>8, Numbers DEF PermitsExact
<1>10. CallsOrdered'
  BY <1>1, <1>8 DEF IInv, CallsOrdered
<1>11. QED
  BY <1>5, <1>6, <1>9, <1>10 DEF IInv

LEMMA FinishKeeps ==
  ASSUME IInv, NEW c \in Callers, Finish(c)
  PROVE  IInv'
BY ReturnKeeps DEF Finish

\* The permit moves from the caller to its resolver: the sum stays.
LEMMA SpawnKeeps ==
  ASSUME IInv, NEW c \in Callers, Spawn(c)
  PROVE  IInv'
<1>1. caller[c] = "spawn" /\ UNCHANGED <<waiting, late, shutdown>>
  BY DEF Spawn
<1>2. CASE DropPermit /\ Become(c, "handler") /\ UNCHANGED resolvers
  BY <1>1, <1>2, ReturnKeeps
<1>3. ASSUME NEW p \in {"handler", "recv"}, Become(c, p),
             resolvers' = [resolvers EXCEPT ![c] = "resolve"], UNCHANGED <<active, notified>>
      PROVE  IInv'
  <2>1. /\ Holding' = Holding \ {c} /\ Sleeping' = Sleeping \ {c}
        /\ \A d \in Callers : caller'[d] = IF d = c THEN p ELSE caller[d]
    BY <1>3, Becomes DEF IInv
  <2>2. shutdown = "running" /\ resolvers[c] = "none"
    BY <1>1 DEF IInv, CallsOrdered, TypeOK
  <2>3. \A d \in Callers : resolvers'[d] = IF d = c THEN "resolve" ELSE resolvers[d]
    BY <1>3 DEF IInv, TypeOK
  <2>4. /\ Sleeping' = Sleeping /\ c \in Holding
        /\ Resolving' = Resolving \cup {c} /\ c \notin Resolving
    BY <1>1, <2>1, <2>2, <2>3 DEF Sleeping, Holding, Resolving
  <2>5. Cardinality(Holding') = Cardinality(Holding) - 1
    BY <2>1, <2>4, SetsCounted, OneLess
  <2>6. Cardinality(Resolving') = Cardinality(Resolving) + 1
    BY <2>4, SetsCounted, OneMore
  <2>7. active' = Cardinality(Holding') + Cardinality(Resolving')
    BY <1>3, <2>5, <2>6, Numbers, SetsCounted
  <2>8. TypeOK'
    BY <1>1, <1>3 DEF IInv, TypeOK, Become, Calling
  <2>9. PermitsExact' /\ NoneStranded'
    BY <1>1, <1>3, <2>2, <2>4, <2>7 DEF IInv, PermitsExact, NoneStranded
  <2>10. CallsOrdered'
    BY <1>1, <1>3, <2>1, <2>2, <2>3 DEF IInv, CallsOrdered
  <2>11. QED
    BY <2>8, <2>9, <2>10 DEF IInv
<1>4. QED
  BY <1>2, <1>3 DEF Spawn

\* The caller stops listening; its resolver keeps the permit.
LEMMA ReceiveKeeps ==
  ASSUME IInv, NEW c \in Callers, Receive(c)
  PROVE  IInv'
<1>1. /\ caller[c] = "recv" /\ Become(c, "handler")
      /\ UNCHANGED <<active, waiting, late, resolvers, notified, shutdown>>
  BY DEF Receive
<1>2. /\ Holding' = Holding \ {c} /\ Sleeping' = Sleeping \ {c}
      /\ \A d \in Callers : caller'[d] = IF d = c THEN "handler" ELSE caller[d]
  BY <1>1, Becomes DEF IInv
<1>3. Holding' = Holding /\ Sleeping' = Sleeping /\ Resolving' = Resolving
  BY <1>1, <1>2 DEF Holding, Sleeping, Resolving
<1>4. TypeOK'
  BY <1>1 DEF IInv, TypeOK, Become
<1>5. PermitsExact' /\ NoneStranded'
  BY <1>1, <1>3 DEF IInv, PermitsExact, NoneStranded
<1>6. CallsOrdered'
  BY <1>1, <1>2 DEF IInv, CallsOrdered
<1>7. QED
  BY <1>4, <1>5, <1>6 DEF IInv

LEMMA SendKeeps ==
  ASSUME IInv, NEW c \in Callers, Send(c)
  PROVE  IInv'
<1>1. /\ resolvers[c] = "resolve" /\ resolvers' = [resolvers EXCEPT ![c] = "sent"]
      /\ UNCHANGED <<active, waiting, caller, late, notified, shutdown>>
  BY DEF Send
<1>2. \A d \in Callers : resolvers'[d] = IF d = c THEN "sent" ELSE resolvers[d]
  BY <1>1 DEF IInv, TypeOK
<1>3. Holding' = Holding /\ Sleeping' = Sleeping /\ Resolving' = Resolving
  BY <1>1, <1>2 DEF Holding, Sleeping, Resolving
<1>4. TypeOK'
  BY <1>1 DEF IInv, TypeOK
<1>5. PermitsExact' /\ NoneStranded'
  BY <1>1, <1>3 DEF IInv, PermitsExact, NoneStranded
<1>6. CallsOrdered'
  BY <1>1, <1>2 DEF IInv, CallsOrdered
<1>7. QED
  BY <1>4, <1>5, <1>6 DEF IInv

\* The resolver's permit comes back, perhaps while the server waits for it.
LEMMA ResolverExitsKeeps ==
  ASSUME IInv, NEW c \in Callers, ResolverExits(c)
  PROVE  IInv'
<1>1. /\ resolvers[c] = "sent" /\ DropPermit /\ resolvers' = [resolvers EXCEPT ![c] = "none"]
      /\ UNCHANGED <<waiting, caller, late, shutdown>>
  BY DEF ResolverExits
<1>2. \A d \in Callers : resolvers'[d] = IF d = c THEN "none" ELSE resolvers[d]
  BY <1>1 DEF IInv, TypeOK
<1>3. /\ Holding' = Holding /\ Sleeping' = Sleeping
      /\ Resolving' = Resolving \ {c} /\ c \in Resolving
  BY <1>1, <1>2 DEF Holding, Sleeping, Resolving
<1>4. Cardinality(Resolving') = Cardinality(Resolving) - 1 /\ Cardinality(Resolving) > 0
  BY <1>3, SetsCounted, OneLess
<1>5. active > 0
  BY <1>4, Numbers, SetsCounted
<1>6. /\ active' = active - 1 /\ active' \in 0 .. MaxActive
      /\ notified' \subseteq Callers \cup {Server} /\ NoneStranded'
  BY <1>1, <1>3, <1>5, DropPermitNotifies
<1>7. TypeOK'
  BY <1>1, <1>6 DEF IInv, TypeOK
<1>8. active' = Cardinality(Holding') + Cardinality(Resolving')
  BY <1>3, <1>4, <1>6, Numbers, SetsCounted
<1>9. PermitsExact'
  BY <1>1, <1>3, <1>6, <1>8, Numbers DEF IInv, PermitsExact
<1>10. CallsOrdered'
  BY <1>1, <1>2 DEF IInv, CallsOrdered
<1>11. QED
  BY <1>6, <1>7, <1>9, <1>10 DEF IInv

-----------------------------------------------------------------------------
(* Steps of the server *)

\* A gate that counts no permit has no holder and no resolver.
LEMMA IdleEmpty ==
  ASSUME IInv, active = 0
  PROVE  Holding = {} /\ Resolving = {}
<1>1. Cardinality(Holding) = 0 /\ Cardinality(Resolving) = 0
  BY Numbers, SetsCounted
<1>2. QED
  BY <1>1, SetsCounted, Counted

LEMMA WaitForIdleKeeps ==
  ASSUME IInv, wait_for_idle
  PROVE  IInv'
<1>1. /\ \A c \in Callers : caller[c] = "handler"
      /\ shutdown' = IF active = 0 THEN "idle" ELSE "sleep"
      /\ UNCHANGED <<active, waiting, caller, late, resolvers, notified>>
  BY DEF wait_for_idle
<1>2. Holding' = Holding /\ Sleeping' = Sleeping /\ Resolving' = Resolving
  BY <1>1 DEF Holding, Sleeping, Resolving
<1>3. TypeOK'
  BY <1>1 DEF IInv, TypeOK
<1>4. PermitsExact'
  BY <1>1, <1>2, IdleEmpty DEF IInv, PermitsExact
<1>5. NoneStranded' /\ CallsOrdered'
  BY <1>1, <1>2 DEF IInv, NoneStranded, CallsOrdered
<1>6. QED
  BY <1>3, <1>4, <1>5 DEF IInv

LEMMA IdleWakeUpKeeps ==
  ASSUME IInv, IdleWakeUp
  PROVE  IInv'
<1>1. /\ shutdown = "sleep" /\ notified' = notified \ {Server}
      /\ shutdown' \in {"idle", "sleep", "gave_up"}
      /\ shutdown' = "idle" => active = 0
      /\ shutdown' = "sleep" => active # 0
      /\ UNCHANGED <<active, waiting, caller, late, resolvers>>
  BY DEF IdleWakeUp
<1>2. Holding' = Holding /\ Sleeping' = Sleeping /\ Resolving' = Resolving
  BY <1>1 DEF Holding, Sleeping, Resolving
<1>3. Sleeping = {}
  BY <1>1 DEF IInv, CallsOrdered, Sleeping
<1>4. TypeOK' /\ CallsOrdered'
  BY <1>1 DEF IInv, TypeOK, CallsOrdered
<1>5. PermitsExact'
  BY <1>1, <1>2, IdleEmpty DEF IInv, PermitsExact
<1>6. NoneStranded'
  BY <1>1, <1>2, <1>3 DEF NoneStranded
<1>7. QED
  BY <1>4, <1>5, <1>6 DEF IInv

-----------------------------------------------------------------------------
(* Theorems *)

LEMMA NextIInv == IInv /\ [Next]_vars => IInv'
<1> SUFFICES ASSUME IInv, [Next]_vars PROVE IInv'
  OBVIOUS
<1>1. ASSUME NEW c \in Callers, \/ Call(c) \/ DeadlinePasses(c) \/ acquire(c) \/ WakeUp(c)
                                \/ Finish(c) \/ Spawn(c) \/ Receive(c) \/ Send(c)
                                \/ ResolverExits(c)
      PROVE  IInv'
  BY <1>1, CallKeeps, DeadlinePassesKeeps, AcquireKeeps, WakeUpKeeps, FinishKeeps,
     SpawnKeeps, ReceiveKeeps, SendKeeps, ResolverExitsKeeps
<1>2. CASE UNCHANGED vars
  <2>1. Holding' = Holding /\ Sleeping' = Sleeping /\ Resolving' = Resolving
    BY <1>2 DEF vars, Holding, Sleeping, Resolving
  <2>2. QED
    BY <1>2, <2>1 DEF vars, IInv, TypeOK, PermitsExact, NoneStranded, CallsOrdered
<1>3. QED
  BY <1>1, <1>2, WaitForIdleKeeps, IdleWakeUpKeeps DEF Next

\* The inductive invariant of the gate holds in every reachable state.
THEOREM Invariance == Spec => []IInv
BY InitIInv, NextIInv, PTL DEF Spec

\* The counters of BoundedGate's State are exact and within their limits in
\* every reachable state, and a wait that found the gate idle left no resolver.
THEOREM GateIsExact == Spec => []PermitsExact
<1>1. IInv => PermitsExact
  BY DEF IInv
<1>2. QED
  BY <1>1, Invariance, PTL

\* No notification of Permit::drop is lost: a caller of acquire never sleeps
\* unnotified beside a free permit, nor the server beside an idle gate.
THEOREM NoSleeperStranded == Spec => []NoneStranded
<1>1. IInv => NoneStranded
  BY DEF IInv
<1>2. QED
  BY <1>1, Invariance, PTL
=============================================================================
