----------------------- MODULE AdmissionQueueLemmas -----------------------
(***************************************************************************)
(* Facts about the executor's ring that the proofs about the executor and  *)
(* about those who submit to it share: what admitting, claiming and        *)
(* withdrawing an entry does to the entries, to their order, and to the    *)
(* promise that an entry admitted as Active finds a worker.                *)
(*                                                                         *)
(* A ring is a sequence of records with the fields ticket and class.       *)
(***************************************************************************)
EXTENDS Integers, Sequences, FiniteSets, TLAPS

\* The ring without the entry at position i.
Without(q, i) == SubSeq(q, 1, i - 1) \o SubSeq(q, i + 1, Len(q))

\* r is q without the entry at position i.
Lacks(r, q, i) ==
  /\ Len(r) = Len(q) - 1
  /\ \A j \in 1 .. Len(q) - 1 : r[j] = IF j < i THEN q[j] ELSE q[j + 1]

Entries(q) == {q[i] : i \in DOMAIN q}
Tickets(q) == {q[i].ticket : i \in DOMAIN q}

\* No two entries have the same ticket.
Distinct(q) == \A i, j \in DOMAIN q : q[i].ticket = q[j].ticket => i = j

\* With `busy` workers taken, there is one left for every Active entry and for
\* all that are ahead of it.
Covered(q, busy, workers) ==
  \A i \in DOMAIN q : q[i].class = "Active" => busy + i <= workers

\* What removing the entry at position i does to the ring.
LEMMA WithoutFacts ==
  ASSUME NEW S, NEW q \in Seq(S), NEW i \in 1 .. Len(q)
  PROVE  /\ Without(q, i) \in Seq(S)
         /\ Lacks(Without(q, i), q, i)
<1> DEFINE l == SubSeq(q, 1, i - 1)
           r == SubSeq(q, i + 1, Len(q))
<1>0. Len(q) \in Nat /\ i \in Nat
  OBVIOUS
<1>1. \A j \in 1 .. Len(q) : q[j] \in S
  OBVIOUS
<1>2. l \in Seq(S) /\ Len(l) = i - 1 /\ \A j \in 1 .. i - 1 : l[j] = q[j]
  <2>1. \A j \in 1 .. i - 1 : q[j] \in S
    BY <1>1
  <2>2. QED
    BY <2>1, Z3
<1>3. r \in Seq(S) /\ Len(r) = Len(q) - i
                   /\ \A j \in 1 .. Len(q) - i : r[j] = q[i + j]
  <2>1. \A j \in i + 1 .. Len(q) : q[j] \in S
    BY <1>1
  <2>2. QED
    BY <2>1, Z3
<1>4. Without(q, i) = l \o r
  BY DEF Without
<1> HIDE DEF l, r
<1>5. /\ l \o r \in Seq(S)
      /\ Len(l \o r) = Len(q) - 1
      /\ \A j \in 1 .. Len(q) - 1 :
           (l \o r)[j] = IF j <= i - 1 THEN l[j] ELSE r[j - (i - 1)]
  <2>1. /\ l \o r \in Seq(S)
        /\ Len(l \o r) = Len(l) + Len(r)
        /\ \A j \in 1 .. Len(l) + Len(r) :
             (l \o r)[j] = IF j <= Len(l) THEN l[j] ELSE r[j - Len(l)]
    <3>1. l \in Seq(S) /\ r \in Seq(S)
      BY <1>2, <1>3
    <3>2. l \o r \in Seq(S)
      BY <3>1
    <3>3. Len(l \o r) = Len(l) + Len(r)
      BY <3>1
    <3>4. ASSUME NEW j \in 1 .. Len(l) + Len(r)
          PROVE  (l \o r)[j] = IF j <= Len(l) THEN l[j] ELSE r[j - Len(l)]
      BY <3>1, <3>4
    <3>5. QED
      BY <3>2, <3>3, <3>4
  <2>2. QED
    BY <2>1, <1>0, <1>2, <1>3
<1>6. ASSUME NEW j \in 1 .. Len(q) - 1
      PROVE  (l \o r)[j] = IF j < i THEN q[j] ELSE q[j + 1]
  <2>1. CASE j < i
    BY <2>1, <1>2, <1>5
  <2>2. CASE j >= i
    <3>1. j - (i - 1) \in 1 .. Len(q) - i
      BY <2>2
    <3>2. QED
      BY <3>1, <2>2, <1>3, <1>5
  <2>3. QED
    <3>1. j < i \/ j >= i
      BY <1>0
    <3>2. QED
      BY <3>1, <2>1, <2>2, Zenon
<1>7. QED
  BY <1>4, <1>5, <1>6 DEF Lacks

\* A shorter ring, in the same order, lacks just one entry.
LEMMA Shrunk ==
  ASSUME NEW S, NEW q \in Seq(S), NEW i \in DOMAIN q, Distinct(q),
         NEW r \in Seq(S), Lacks(r, q, i)
  PROVE  /\ Entries(r) = Entries(q) \ {q[i]}
         /\ Tickets(r) = Tickets(q) \ {q[i].ticket}
         /\ Distinct(r)
         /\ \A j \in DOMAIN r : \E k \in DOMAIN q : r[j] = q[k] /\ j <= k /\ (i = 1 => k = j + 1)
<1> DEFINE src(j) == IF j < i THEN j ELSE j + 1
<1>1. /\ Len(q) \in Nat
      /\ DOMAIN q = 1 .. Len(q)
      /\ DOMAIN r = 1 .. Len(q) - 1
      /\ i \in 1 .. Len(q)
  BY DEF Lacks
<1>2. \A j \in DOMAIN r : /\ src(j) \in DOMAIN q
                          /\ r[j] = q[src(j)]
                          /\ j <= src(j)
                          /\ src(j) # i
                          /\ i = 1 => src(j) = j + 1
  BY <1>1 DEF Lacks
<1>3. \A j, k \in DOMAIN r : src(j) = src(k) => j = k
  BY <1>1
<1>4. ASSUME NEW k \in DOMAIN q, k # i
      PROVE  \E j \in DOMAIN r : r[j] = q[k]
  <2>1. CASE k < i
    <3>1. k \in DOMAIN r /\ r[k] = q[k]
      BY <1>1, <2>1 DEF Lacks
    <3>2. QED
      BY <3>1
  <2>2. CASE k > i
    <3>1. k - 1 \in DOMAIN r /\ r[k - 1] = q[k]
      BY <1>1, <2>2 DEF Lacks
    <3>2. QED
      BY <3>1
  <2>3. QED
    BY <1>1, <1>4, <2>1, <2>2
<1> HIDE DEF src
<1>5. Entries(r) = Entries(q) \ {q[i]}
  <2>1. \A j \in DOMAIN r : r[j] \in Entries(q) \ {q[i]}
    BY <1>2 DEF Entries, Distinct
  <2>2. \A k \in DOMAIN q : q[k] # q[i] => q[k] \in Entries(r)
    BY <1>4 DEF Entries
  <2>3. QED
    BY <2>1, <2>2 DEF Entries
<1>6. Tickets(r) = Tickets(q) \ {q[i].ticket}
  <2>1. \A j \in DOMAIN r : r[j].ticket \in Tickets(q) \ {q[i].ticket}
    BY <1>2 DEF Tickets, Distinct
  <2>2. \A k \in DOMAIN q : q[k].ticket # q[i].ticket => q[k].ticket \in Tickets(r)
    BY <1>4 DEF Tickets
  <2>3. QED
    BY <2>1, <2>2, SMTT(30) DEF Tickets
<1>7. Distinct(r)
  BY <1>2, <1>3 DEF Distinct
<1>8. QED
  BY <1>2, <1>5, <1>6, <1>7

\* try_submit appends an entry with a ticket of its own.
LEMMA Admitted ==
  ASSUME NEW S, NEW q \in Seq(S), NEW e \in S, Distinct(q), e.ticket \notin Tickets(q)
  PROVE  /\ Append(q, e) \in Seq(S)
         /\ Entries(Append(q, e)) = Entries(q) \cup {e}
         /\ Tickets(Append(q, e)) = Tickets(q) \cup {e.ticket}
         /\ Distinct(Append(q, e))
<1> DEFINE a == Append(q, e)
           n == Len(q)
<1>1. n \in Nat /\ DOMAIN q = 1 .. n
  OBVIOUS
<1>2. /\ a \in Seq(S)
      /\ DOMAIN a = 1 .. n + 1
      /\ \A i \in 1 .. n : a[i] = q[i]
      /\ a[n + 1] = e
  BY <1>1
<1> HIDE DEF a, n
<1>3. DOMAIN a = DOMAIN q \cup {n + 1} /\ n + 1 \notin DOMAIN q
  BY <1>1, <1>2
<1>4. Entries(a) = Entries(q) \cup {e}
  BY <1>1, <1>2, <1>3 DEF Entries
<1>5. Tickets(a) = Tickets(q) \cup {e.ticket}
  BY <1>1, <1>2, <1>3 DEF Tickets
<1>6. Distinct(a)
  BY <1>1, <1>2, <1>3 DEF Distinct, Tickets
<1>7. QED
  BY <1>2, <1>4, <1>5, <1>6 DEF a

\* A worker claims the head.
LEMMA Claimed ==
  ASSUME NEW S, NEW q \in Seq(S), q # <<>>, Distinct(q)
  PROVE  /\ Tail(q) \in Seq(S)
         /\ Head(q) \in S /\ Head(q) \in Entries(q) /\ Head(q).ticket \in Tickets(q)
         /\ Entries(Tail(q)) = Entries(q) \ {Head(q)}
         /\ Tickets(Tail(q)) = Tickets(q) \ {Head(q).ticket}
         /\ Distinct(Tail(q))
         /\ \A j \in DOMAIN Tail(q) : j + 1 \in DOMAIN q /\ Tail(q)[j] = q[j + 1]
<1>1. Len(q) \in Nat /\ DOMAIN q = 1 .. Len(q) /\ Len(q) >= 1
  OBVIOUS
<1>2. 1 \in DOMAIN q /\ Head(q) = q[1] /\ q[1] \in S
  BY <1>1
<1>3. Tail(q) \in Seq(S) /\ Lacks(Tail(q), q, 1)
  BY <1>1 DEF Lacks
<1>4. /\ Entries(Tail(q)) = Entries(q) \ {q[1]}
      /\ Tickets(Tail(q)) = Tickets(q) \ {q[1].ticket}
      /\ Distinct(Tail(q))
  <2> DEFINE r == Tail(q)
  <2> HIDE DEF r
  <2>1. r \in Seq(S) /\ Lacks(r, q, 1)
    BY <1>3 DEF r
  <2>2. Entries(r) = Entries(q) \ {q[1]} /\ Tickets(r) = Tickets(q) \ {q[1].ticket} /\ Distinct(r)
    BY <1>2, <2>1, Shrunk
  <2>3. QED
    BY <2>2 DEF r
<1>5. q[1] \in Entries(q) /\ q[1].ticket \in Tickets(q)
  BY <1>2 DEF Entries, Tickets
<1>6. \A j \in DOMAIN Tail(q) : j + 1 \in DOMAIN q /\ Tail(q)[j] = q[j + 1]
  BY <1>1, <1>3, SMTT(30) DEF Lacks
<1>7. QED
  BY <1>2, <1>3, <1>4, <1>5, <1>6

\* cancel_queued takes an entry out of the middle.
LEMMA Withdrawn ==
  ASSUME NEW S, NEW q \in Seq(S), NEW i \in DOMAIN q, Distinct(q)
  PROVE  /\ Without(q, i) \in Seq(S)
         /\ q[i] \in Entries(q) /\ q[i].ticket \in Tickets(q)
         /\ Entries(Without(q, i)) = Entries(q) \ {q[i]}
         /\ Tickets(Without(q, i)) = Tickets(q) \ {q[i].ticket}
         /\ Distinct(Without(q, i))
         /\ \A j \in DOMAIN Without(q, i) : \E k \in DOMAIN q : Without(q, i)[j] = q[k] /\ j <= k
<1>1. i \in 1 .. Len(q)
  OBVIOUS
<1>2. Without(q, i) \in Seq(S) /\ Lacks(Without(q, i), q, i)
  BY <1>1, WithoutFacts
<1>3. q[i] \in Entries(q) /\ q[i].ticket \in Tickets(q)
  BY DEF Entries, Tickets
<1>4. /\ Entries(Without(q, i)) = Entries(q) \ {q[i]}
      /\ Tickets(Without(q, i)) = Tickets(q) \ {q[i].ticket}
      /\ Distinct(Without(q, i))
      /\ \A j \in DOMAIN Without(q, i) : \E k \in DOMAIN q :
           Without(q, i)[j] = q[k] /\ j <= k /\ (i = 1 => k = j + 1)
  BY <1>2, Shrunk
<1>5. QED
  BY <1>2, <1>3, <1>4

\* The promise to Active entries survives an admission that is made Active
\* only while a worker is left, a claim, a withdrawal and a retirement.
LEMMA CoveredAdmit ==
  ASSUME NEW S, NEW q \in Seq(S), NEW e \in S, NEW b \in Nat, NEW w \in Nat,
         Covered(q, b, w), e.class = "Active" => Len(q) + b < w
  PROVE  Covered(Append(q, e), b, w)
<1> DEFINE a == Append(q, e)
           n == Len(q)
<1>1. n \in Nat /\ DOMAIN q = 1 .. n
  OBVIOUS
<1>2. /\ DOMAIN a = 1 .. n + 1
      /\ \A i \in 1 .. n : a[i] = q[i]
      /\ a[n + 1] = e
  BY <1>1
<1>3. ASSUME NEW i \in DOMAIN a, a[i].class = "Active"
      PROVE  b + i <= w
  <2>1. CASE i = n + 1
    BY <1>1, <1>2, <1>3, <2>1
  <2>2. CASE i \in 1 .. n
    <3> HIDE DEF a, n
    <3>1. QED
      BY <1>1, <1>2, <1>3, <2>2 DEF Covered
  <2>3. QED
    BY <1>1, <1>2, <2>1, <2>2
<1>4. QED
  BY <1>3 DEF Covered

\* Claiming the head makes one more worker busy and moves the rest up by one.
LEMMA CoveredClaim ==
  ASSUME NEW S, NEW q \in Seq(S), q # <<>>, Distinct(q),
         NEW b \in Nat, NEW w \in Nat, Covered(q, b, w)
  PROVE  Covered(Tail(q), b + 1, w)
<1>1. \A j \in DOMAIN Tail(q) : j \in Nat /\ j + 1 \in DOMAIN q /\ Tail(q)[j] = q[j + 1]
  BY Claimed
<1>2. QED
  BY <1>1 DEF Covered

\* Withdrawing a job moves nobody further from the head.
LEMMA CoveredWithdraw ==
  ASSUME NEW S, NEW q \in Seq(S), NEW i \in DOMAIN q, Distinct(q),
         NEW b \in Nat, NEW w \in Nat, Covered(q, b, w)
  PROVE  Covered(Without(q, i), b, w)
<1>1. ASSUME NEW j \in DOMAIN Without(q, i), Without(q, i)[j].class = "Active"
      PROVE  b + j <= w
  <2>1. PICK k \in DOMAIN q : Without(q, i)[j] = q[k] /\ j <= k
    BY Withdrawn
  <2>2. b + k <= w
    BY <1>1, <2>1 DEF Covered
  <2>3. j \in Nat /\ k \in Nat
    <3>1. Without(q, i) \in Seq(S)
      BY Withdrawn
    <3>2. QED
      BY <3>1
  <2>4. QED
    BY <2>1, <2>2, <2>3
<1>2. QED
  BY <1>1 DEF Covered
=============================================================================
