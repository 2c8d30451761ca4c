-------------------------- MODULE RequestBodyProofs --------------------------
(***************************************************************************)
(* Proofs about RequestBody, for every hard limit, chunk size, channel     *)
(* capacity, frame size, declared length and limit, and any number of      *)
(* reads.                                                                  *)
(***************************************************************************)
EXTENDS RequestBody, TLAPS

\* The chunks of s, in order and without a gap, are the bytes from a up to e:
\* p[i] is the position after the first i messages.
Chain(s, a, e) ==
  \E p \in [0 .. Len(s) -> 0 .. HardLimit] :
    /\ p[0] = a /\ p[Len(s)] = e
    /\ \A i \in 1 .. Len(s) :
         IF s[i].kind = "Chunk" THEN s[i].at = p[i - 1] /\ p[i] = p[i - 1] + s[i].len
                                ELSE p[i] = p[i - 1]

\* A message that ends the stream: End is only sent for a body the client ended.
IsLast(m) ==
  m.kind \in {"End", "Error"} /\ (m.kind = "End" => client.state = "ended")

\* What the pump has still to send is a frame's chunks, or one last message; a
\* client that is through has no frame left to send.
PumpOrder ==
  /\ \A i \in 1 .. Len(unsent) :
       unsent[i].kind # "Chunk" => Len(unsent) = 1 /\ IsLast(unsent[i])
  /\ client.state # "open" =>
       pump # "next" /\ (pump = "sending" => unsent[1].kind # "Chunk")

\* Where the reader's next chunk starts.
Position ==
  IF reader \in {"got", "take"} /\ got.kind = "Chunk" THEN got.at + got.len ELSE delivered

\* Until the body is stopped, the chunks on their way are the bytes between
\* the reader's position and the pump's, and a last message comes last.
Flow ==
  terminal = "none" =>
    /\ control = "Running" /\ ~draining /\ \A c \in Caller : stop[c] = "idle"
    /\ handler \notin {"dropping", "dropped"}
    /\ \E m \in 0 .. HardLimit : Chain(channel, Position, m) /\ Chain(unsent, m, received)
    /\ \A i \in 1 .. Len(channel) :
         channel[i].kind # "Chunk" => i = Len(channel) /\ pump = "done" /\ IsLast(channel[i])
    /\ reader \in {"got", "take"} =>
         IF got.kind = "Chunk" THEN got.at = delivered
         ELSE channel = <<>> /\ pump = "done" /\ IsLast(got)

\* The whole body: the client ended it, the pump is through and nothing is left.
Whole == client.state = "ended" /\ pump = "done" /\ delivered = received

\* What the reader took it took in order, even if the body is stopped between
\* its look at `terminal` and the delivery.
Taken ==
  /\ reader = "take" => /\ got.kind # "Wake"
                        /\ got.kind = "Chunk" => got.at = delivered
                        /\ got.kind = "End" => Whole
  /\ terminal = "End" => Whole /\ reader \notin {"recv", "got", "take"}

\* What is written is what was delivered since the call began.
Transferred ==
  /\ reader = "idle" => ~staging /\ ~published /\ written = 0
  /\ reader # "idle" => call.op # "none"
  /\ call.op # "write_file" =>
       /\ reader \in {"idle", "enter", "recv", "got", "take", "returned"}
       /\ ~staging /\ ~published /\ result = "none"
  /\ call.op = "write_file" =>
       /\ reader \in {"stage", "loop", "enter", "recv", "got", "take", "publish"} =>
            call.from + written = delivered /\ ~published
       /\ reader = "stage" => ~staging
       /\ reader = "write" =>
            /\ got.kind = "Chunk" /\ ~published
            /\ call.from + written + got.len = delivered
       /\ reader = "publish" => Whole
       /\ published => Whole /\ call.from + written = received
       /\ reader \in {"cleanup", "join", "returned"} =>
            /\ result = "ok" => published
            /\ published => result \in {"ok", "CleanupFailed"}
            /\ staging /\ reader # "cleanup" => result = "CleanupFailed"

\* The pump is cancelled only by a stop whose first cause was not TooLarge.
Cancelled ==
  /\ unseen => control # "Running"
  /\ control # "Running" => terminal # "none"
  /\ control = "Cancel" \/ why = "cancelled" => terminal \notin {"none", "TooLarge"}
  /\ handler = "dropping" /\ stop["server"] # "control" => control # "Running"
  /\ handler = "dropped" => control # "Running"

IInv == TypeOK /\ PumpOrder /\ Flow /\ Taken /\ Transferred /\ Cancelled

-----------------------------------------------------------------------------
(* Messages and the chunks of a frame.                                     *)

\* Zenon proves most leaves; the ones that need arithmetic, records or sequences
\* name SMT.
USE ZenonT(60)

\* The four kinds of message, told apart by their field `kind`.
LEMMA MessageKinds ==
  /\ \A m \in Messages :
       /\ m.kind \in {"Chunk", "Error", "End", "Wake"}
       /\ m.kind = "Chunk" => m.at \in 0 .. HardLimit /\ m.len \in 1 .. ChunkBytes
       /\ m.kind = "Error" => m.error \in BodyErrors
  /\ End \in Messages /\ End.kind = "End" /\ Wake \in Messages /\ Wake.kind = "Wake"
  /\ \A e \in BodyErrors : Error(e) \in Messages /\ Error(e).kind = "Error"
BY SMTT(30) DEF Messages, End, Wake, Error

\* A chunk is a message.
LEMMA ChunkFields ==
  ASSUME NEW at \in 0 .. HardLimit, NEW len \in 1 .. ChunkBytes
  PROVE  /\ Chunk(at, len) \in Messages /\ Chunk(at, len).kind = "Chunk"
         /\ Chunk(at, len).at = at /\ Chunk(at, len).len = len
BY DEF Chunk, Messages

\* Nothing on its way: the positions are the same.
LEMMA ChainEmpty ==
  ASSUME NEW a \in 0 .. HardLimit, NEW e \in 0 .. HardLimit
  PROVE  Chain(<<>>, a, e) <=> a = e
<1>1. ASSUME a = e PROVE Chain(<<>>, a, e)
  <2> DEFINE p == [i \in 0 .. 0 |-> a]
  <2>1. p \in [0 .. Len(<<>>) -> 0 .. HardLimit] /\ p[0] = a /\ p[Len(<<>>)] = e
    BY <1>1, SMTT(30)
  <2>2. Len(<<>>) = 0 /\ 1 .. 0 = {}
    BY SMTT(30)
  <2> HIDE DEF p
  <2>3. QED
    BY <2>1, <2>2 DEF Chain
<1>2. QED
  BY <1>1 DEF Chain

\* Taking the first message moves the position past it.
LEMMA ChainTail ==
  ASSUME NEW s \in Seq(Messages), s # <<>>, NEW a, NEW e, Chain(s, a, e)
  PROVE  /\ Head(s).kind = "Chunk" => Head(s).at = a
         /\ \E b \in 0 .. HardLimit :
              /\ Chain(Tail(s), b, e)
              /\ b = IF Head(s).kind = "Chunk" THEN Head(s).at + Head(s).len ELSE a
<1>1. PICK p \in [0 .. Len(s) -> 0 .. HardLimit] :
        /\ p[0] = a /\ p[Len(s)] = e
        /\ \A i \in 1 .. Len(s) :
             IF s[i].kind = "Chunk" THEN s[i].at = p[i - 1] /\ p[i] = p[i - 1] + s[i].len
                                    ELSE p[i] = p[i - 1]
  BY DEF Chain
<1>2. /\ Len(s) \in Nat \ {0} /\ Head(s) = s[1]
      /\ Tail(s) \in Seq(Messages) /\ Len(Tail(s)) = Len(s) - 1
      /\ \A i \in 1 .. Len(s) - 1 : Tail(s)[i] = s[i + 1]
  BY SMTT(30)
<1>3. IF s[1].kind = "Chunk" THEN s[1].at = a /\ p[1] = s[1].at + s[1].len ELSE p[1] = a
  BY <1>1, <1>2, SMTT(30)
<1> DEFINE u == Tail(s)
           q == [i \in 0 .. Len(u) |-> p[i + 1]]
<1>4. q \in [0 .. Len(u) -> 0 .. HardLimit] /\ q[0] = p[1] /\ q[Len(u)] = e
  BY <1>1, <1>2, SMTT(30)
<1>5. \A i \in 1 .. Len(u) :
        IF u[i].kind = "Chunk" THEN u[i].at = q[i - 1] /\ q[i] = q[i - 1] + u[i].len
                               ELSE q[i] = q[i - 1]
  <2> TAKE i \in 1 .. Len(u)
  <2>1. i + 1 \in 1 .. Len(s) /\ u[i] = s[i + 1] /\ q[i] = p[i + 1] /\ q[i - 1] = p[i]
    BY <1>2, SMTT(30)
  <2>2. (i + 1) - 1 = i
    BY <1>2, SMTT(30)
  <2>3. IF s[i + 1].kind = "Chunk" THEN s[i + 1].at = p[i] /\ p[i + 1] = p[i] + s[i + 1].len
                                   ELSE p[i + 1] = p[i]
    BY <1>1, <2>1, <2>2
  <2>4. QED
    BY <2>1, <2>3
<1>6. Chain(Tail(s), p[1], e)
  BY <1>4, <1>5 DEF Chain
<1>7. p[1] \in 0 .. HardLimit
  BY <1>1, <1>2, SMTT(30)
<1>8. QED
  BY <1>2, <1>3, <1>6, <1>7

\* Appending the message that comes next extends the chain.
LEMMA ChainAppend ==
  ASSUME NEW s \in Seq(Messages), NEW a, NEW e, Chain(s, a, e), NEW m \in Messages,
         NEW b \in 0 .. HardLimit,
         IF m.kind = "Chunk" THEN m.at = e /\ b = e + m.len ELSE b = e
  PROVE  Chain(Append(s, m), a, b)
<1>1. PICK p \in [0 .. Len(s) -> 0 .. HardLimit] :
        /\ p[0] = a /\ p[Len(s)] = e
        /\ \A i \in 1 .. Len(s) :
             IF s[i].kind = "Chunk" THEN s[i].at = p[i - 1] /\ p[i] = p[i - 1] + s[i].len
                                    ELSE p[i] = p[i - 1]
  BY DEF Chain
<1>2. /\ Len(s) \in Nat /\ Len(Append(s, m)) = Len(s) + 1
      /\ \A i \in 1 .. Len(s) : Append(s, m)[i] = s[i]
      /\ Append(s, m)[Len(s) + 1] = m
  BY SMTT(30)
<1> DEFINE u == Append(s, m)
           q == [i \in 0 .. Len(u) |-> IF i = Len(u) THEN b ELSE p[i]]
<1>3. q \in [0 .. Len(u) -> 0 .. HardLimit] /\ q[0] = a /\ q[Len(u)] = b
  BY <1>1, <1>2, SMTT(30)
<1>4. \A i \in 1 .. Len(u) :
        IF u[i].kind = "Chunk" THEN u[i].at = q[i - 1] /\ q[i] = q[i - 1] + u[i].len
                               ELSE q[i] = q[i - 1]
  <2> TAKE i \in 1 .. Len(u)
  <2>1. CASE i = Len(u)
    <3>1. u[i] = m /\ q[i] = b /\ q[i - 1] = e
      BY <1>1, <1>2, <2>1, SMTT(30)
    <3>2. QED
      BY <3>1
  <2>2. CASE i # Len(u)
    <3>1. i \in 1 .. Len(s) /\ u[i] = s[i] /\ q[i] = p[i] /\ q[i - 1] = p[i - 1]
      BY <1>2, <2>2, SMTT(30)
    <3>2. QED
      BY <1>1, <3>1
  <2>3. QED
    BY <2>1, <2>2
<1>5. QED
  BY <1>3, <1>4 DEF Chain

\* The number of chunks of a frame: one too few would leave bytes out, and the
\* last one is not empty.
LEMMA ChunkCount ==
  ASSUME NEW n \in Nat \ {0}
  PROVE  LET q == (n + ChunkBytes - 1) \div ChunkBytes
         IN  q \in Nat \ {0} /\ q * ChunkBytes >= n /\ (q - 1) * ChunkBytes < n
<1>1. ChunkBytes \in Nat \ {0}
  BY BodyAssumption
<1> DEFINE q == (n + ChunkBytes - 1) \div ChunkBytes
           r == (n + ChunkBytes - 1) % ChunkBytes
<1>2. q \in Int /\ r \in 0 .. ChunkBytes - 1 /\ n + ChunkBytes - 1 = ChunkBytes * q + r
  BY <1>1, SMTT(30)
<1> HIDE DEF q, r
<1>3. ChunkBytes * q >= n /\ ChunkBytes * q - ChunkBytes < n
  BY <1>1, <1>2, SMTT(30)
<1>4. q >= 1
  <2>1. ASSUME q <= 0 PROVE FALSE
    <3>1. ChunkBytes * q <= 0
      BY <1>1, <1>2, <2>1, SMTT(30)
    <3>2. QED
      BY <1>1, <1>2, <1>3, <3>1, SMTT(30)
  <2>2. QED
    BY <1>2, <2>1, SMTT(30)
<1>5. q * ChunkBytes = ChunkBytes * q /\ (q - 1) * ChunkBytes = ChunkBytes * q - ChunkBytes
  BY <1>1, <1>2, SMTT(30)
<1>6. q \in Nat \ {0} /\ q * ChunkBytes >= n /\ (q - 1) * ChunkBytes < n
  BY <1>1, <1>2, <1>3, <1>4, <1>5, SMTT(30)
<1>7. QED
  BY <1>6 DEF q

\* A frame of n bytes is split into chunks that hold exactly its bytes.
LEMMA FrameChunks ==
  ASSUME NEW at \in Nat, NEW n \in Nat \ {0}, at + n <= HardLimit
  PROVE  /\ ChunksOf(at, n) \in Seq(Messages) /\ ChunksOf(at, n) # <<>>
         /\ \A i \in 1 .. Len(ChunksOf(at, n)) : ChunksOf(at, n)[i].kind = "Chunk"
         /\ Chain(ChunksOf(at, n), at, at + n)
<1>1. ChunkBytes \in Nat \ {0} /\ HardLimit \in Nat
  BY BodyAssumption
<1> DEFINE q == (n + ChunkBytes - 1) \div ChunkBytes
<1>2. q \in Nat \ {0} /\ q * ChunkBytes >= n /\ (q - 1) * ChunkBytes < n
  BY ChunkCount
<1> DEFINE s == ChunksOf(at, n)
           Size(i) == IF n - (i - 1) * ChunkBytes < ChunkBytes THEN n - (i - 1) * ChunkBytes
                      ELSE ChunkBytes
<1>3. s = [i \in 1 .. q |-> Chunk(at + (i - 1) * ChunkBytes, Size(i))]
  BY DEF ChunksOf
<1> HIDE DEF q, s
<1>4. ASSUME NEW i \in 1 .. q
      PROVE  /\ (i - 1) * ChunkBytes \in 0 .. n - 1
             /\ i * ChunkBytes = (i - 1) * ChunkBytes + ChunkBytes
             /\ i < q => i * ChunkBytes < n
  <2>1. ASSUME NEW j \in Nat, NEW k \in Nat, j <= k PROVE j * ChunkBytes <= k * ChunkBytes
    BY <1>1, <2>1, SMTT(30)
  <2>2. (i - 1) * ChunkBytes <= (q - 1) * ChunkBytes
    BY <1>2, <2>1, SMTT(30)
  <2>3. i < q => i * ChunkBytes <= (q - 1) * ChunkBytes
    BY <1>2, <2>1, SMTT(30)
  <2>4. (i - 1) * ChunkBytes \in Nat /\ i * ChunkBytes = (i - 1) * ChunkBytes + ChunkBytes
    BY <1>1, <1>2, SMTT(30)
  <2>5. i * ChunkBytes \in Int /\ (q - 1) * ChunkBytes \in Int
    BY <1>1, <1>2, SMTT(30)
  <2>6. QED
    BY <1>2, <2>2, <2>3, <2>4, <2>5, SMTT(30)
<1>5. \A i \in 1 .. q :
        /\ s[i] = Chunk(at + (i - 1) * ChunkBytes, Size(i))
        /\ at + (i - 1) * ChunkBytes \in 0 .. HardLimit /\ Size(i) \in 1 .. ChunkBytes
  BY <1>1, <1>3, <1>4, SMTT(30)
<1>6. s \in Seq(Messages) /\ Len(s) = q /\ \A i \in 1 .. q : s[i].kind = "Chunk"
  <2>1. \A i \in 1 .. q : s[i] \in Messages /\ s[i].kind = "Chunk"
    <3> HIDE DEF Size
    <3>1. QED
      BY <1>5, ChunkFields, SMTT(30)
  <2>2. s \in [1 .. q -> Messages]
    BY <1>3, <2>1
  <2>3. QED
    BY <1>2, <2>1, <2>2, SMTT(30)
<1>7. Chain(s, at, at + n)
  <2> DEFINE p == [i \in 0 .. q |-> IF i = q THEN at + n ELSE at + i * ChunkBytes]
  <2>1. \A i \in 0 .. q - 1 : p[i] = at + i * ChunkBytes /\ i * ChunkBytes \in 0 .. n - 1
    <3> TAKE i \in 0 .. q - 1
    <3>1. i + 1 \in 1 .. q /\ (i + 1) - 1 = i
      BY <1>2, SMTT(30)
    <3>2. i * ChunkBytes \in 0 .. n - 1
      BY <1>4, <3>1
    <3>3. QED
      BY <1>2, <3>2, SMTT(30)
  <2>2. p \in [0 .. q -> 0 .. HardLimit]
    <3>1. \A i \in 0 .. q : p[i] \in 0 .. HardLimit
      BY <1>1, <1>2, <2>1, SMTT(30)
    <3>2. QED
      BY <3>1
  <2>3. p[0] = at /\ p[q] = at + n
    <3>1. 0 * ChunkBytes = 0 /\ 0 \in 0 .. q - 1 /\ q \in 0 .. q
      BY <1>1, <1>2, SMTT(30)
    <3>2. QED
      BY <2>1, <3>1, SMTT(30)
  <2>4. \A i \in 1 .. q : s[i].at = p[i - 1] /\ p[i] = p[i - 1] + s[i].len
    <3> TAKE i \in 1 .. q
    <3>1. s[i].at = at + (i - 1) * ChunkBytes /\ s[i].len = Size(i) /\ i - 1 \in 0 .. q - 1
      <4> HIDE DEF Size
      <4>1. s[i].at = at + (i - 1) * ChunkBytes /\ s[i].len = Size(i)
        BY <1>5, ChunkFields, SMTT(30)
      <4>2. QED
        BY <1>2, <4>1, SMTT(30)
    <3>2. p[i - 1] = at + (i - 1) * ChunkBytes
      BY <2>1, <3>1
    <3>3. CASE i = q
      <4>1. Size(i) = n - (i - 1) * ChunkBytes
        BY <1>1, <1>2, <1>4, <3>3, SMTT(30)
      <4>2. p[i] = at + n
        BY <2>3, <3>3
      <4>3. (i - 1) * ChunkBytes \in Int
        BY <1>4, SMTT(30)
      <4> HIDE DEF p, Size
      <4>4. QED
        BY <3>1, <3>2, <4>1, <4>2, <4>3, SMTT(30)
    <3>4. CASE i # q
      <4>1. i \in 0 .. q - 1 /\ i < q
        BY <1>2, <3>4, SMTT(30)
      <4>2. p[i] = at + i * ChunkBytes
        BY <2>1, <4>1
      <4>3. Size(i) = ChunkBytes
        BY <1>1, <1>4, <4>1, SMTT(30)
      <4>4. QED
        BY <1>1, <1>4, <3>1, <3>2, <4>2, <4>3, SMTT(30)
    <3>5. QED
      BY <3>3, <3>4
  <2> HIDE DEF p
  <2>5. QED
    BY <1>6, <2>2, <2>3, <2>4 DEF Chain
<1>8. s # <<>>
  BY <1>2, <1>6
<1>9. QED
  BY <1>6, <1>7, <1>8 DEF s

\* A message that holds no bytes, alone on its way.
LEMMA ChainLast ==
  ASSUME NEW m \in Messages, m.kind # "Chunk", NEW a \in 0 .. HardLimit
  PROVE  Chain(<<m>>, a, a)
<1>1. Chain(<<>>, a, a)
  BY ChainEmpty
<1>2. <<m>> = Append(<<>>, m) /\ <<>> \in Seq(Messages)
  BY SMTT(30)
<1>3. QED
  BY <1>1, <1>2, ChainAppend

-----------------------------------------------------------------------------
(* The pump.                                                               *)

\* While the pump runs no body is whole, so its steps leave the reader's part
\* of the invariant alone.
LEMMA PumpFrame ==
  ASSUME Taken, Transferred, pump # "done",
         UNCHANGED <<terminal, delivered, reader, call, got, result, fileVars>>
  PROVE  Taken' /\ Transferred'
<1>1. ~Whole
  BY DEF Whole
<1>2. Taken'
  BY <1>1 DEF Taken
<1>3. Transferred'
  BY <1>1 DEF Transferred, fileVars
<1>4. QED
  BY <1>2, <1>3

\* A step that changes what the pump has still to send, and nothing behind it.
LEMMA FlowUnsent ==
  ASSUME Flow, pump # "done",
         UNCHANGED <<control, terminal, stop, delivered, reader, got, handler, channel>>,
         terminal = "none" =>
           /\ ~draining => ~draining'
           /\ \A m \in 0 .. HardLimit : Chain(unsent, m, received) => Chain(unsent, m, received)'
  PROVE  Flow'
<1> SUFFICES ASSUME terminal = "none" PROVE Flow'
  BY DEF Flow
<1>1. Position' = Position
  BY DEF Position
<1>2. PICK m \in 0 .. HardLimit : Chain(channel, Position, m) /\ Chain(unsent, m, received)
  BY DEF Flow
<1>3. Chain(channel, Position, m)' /\ Chain(unsent, m, received)'
  BY <1>1, <1>2 DEF Chain
<1>4. QED
  BY <1>3 DEF Flow

\* The pump sees the control: only a cancel ends it.
LEMMA SeeControlStep ==
  ASSUME IInv, SeeControl
  PROVE  IInv'
<1>1. /\ pump = "next" /\ unseen /\ unseen' = FALSE
      /\ \/ control = "Drain" /\ draining' = TRUE /\ UNCHANGED <<pump, why>>
         \/ control # "Drain" /\ pump' = "done" /\ why' = "cancelled" /\ UNCHANGED draining
      /\ UNCHANGED <<client, limitVars, readVars, fileVars, watchVars, shutdown, handler,
                     control, terminal, stop, channelVars, unsent, received>>
  BY DEF SeeControl, Pumping
<1>2. control # "Running" /\ terminal # "none"
  BY <1>1 DEF IInv, Cancelled
<1>3. control # "Drain" => control = "Cancel"
  BY <1>2 DEF IInv, TypeOK
<1>4. TypeOK'
  <2>1. draining' \in BOOLEAN /\ unseen' \in BOOLEAN
    BY <1>1 DEF IInv, TypeOK
  <2>2. /\ pump' \in {"next", "sending", "done"} /\ (pump' = "sending" <=> unsent' # <<>>)
        /\ why' \in {"running", "ended", "idle", "hard_limit", "cancelled"}
    BY <1>1 DEF IInv, TypeOK
  <2>3. QED
    BY <1>1, <2>1, <2>2, SMTT(30) DEF IInv, TypeOK, limitVars, readVars, fileVars, watchVars, channelVars
<1>5. PumpOrder'
  BY <1>1 DEF IInv, PumpOrder, TypeOK, IsLast
<1>6. Flow'
  BY <1>1, <1>2 DEF Flow
<1>7. Taken' /\ Transferred'
  BY <1>1, PumpFrame DEF IInv, limitVars, readVars
<1>8. Cancelled'
  BY <1>1, <1>2, <1>3 DEF IInv, Cancelled
<1>9. QED
  BY <1>4, <1>5, <1>6, <1>7, <1>8 DEF IInv

\* The pump ends and tells the reader why, unless it is draining.
LEMMA LastStep ==
  ASSUME IInv, pump = "next", ~unseen,
         NEW last \in Messages, IsLast(last)',
         why' \in {"ended", "idle", "hard_limit"},
         \/ draining /\ pump' = "done" /\ UNCHANGED unsent
         \/ pump' = "sending" /\ unsent' = <<last>>,
         client' \in [state : {"open", "ended", "failed"}, length : Lengths \cup {NoLength}],
         UNCHANGED <<limitVars, readVars, fileVars, watchVars, shutdown, handler,
                     control, terminal, stop, channelVars, unseen, draining, received>>
  PROVE  IInv'
<1>1. last.kind # "Chunk" /\ last.kind # "Wake"
  BY DEF IsLast
<1>2. unsent = <<>> /\ received \in 0 .. HardLimit
  BY DEF IInv, TypeOK
<1>3. TypeOK'
  <2>1. unsent' \in Seq(Messages) /\ (pump' = "sending" <=> unsent' # <<>>)
    <3>1. <<last>> \in Seq(Messages) /\ <<last>> # <<>>
      BY SMTT(30)
    <3>2. CASE pump' = "done" /\ UNCHANGED unsent
      BY <1>2, <3>2, SMTT(30)
    <3>3. CASE pump' = "sending" /\ unsent' = <<last>>
      BY <3>1, <3>3
    <3>4. QED
      BY <3>2, <3>3
  <2>2. QED
    BY <2>1, SMTT(30) DEF IInv, TypeOK, limitVars, readVars, fileVars, watchVars, channelVars
<1>4. PumpOrder'
  <2>1. CASE pump' = "done" /\ unsent' = <<>>
    BY <2>1, SMTT(30) DEF PumpOrder
  <2>2. CASE pump' = "sending" /\ unsent' = <<last>>
    <3>1. Len(unsent') = 1 /\ unsent'[1] = last /\ \A i \in 1 .. 1 : i = 1
      BY <2>2, SMTT(30)
    <3>2. QED
      BY <1>1, <2>2, <3>1 DEF PumpOrder
  <2>3. QED
    BY <1>2, <2>1, <2>2
<1>5. Flow'
  <2>1. ASSUME terminal = "none", NEW m \in 0 .. HardLimit, Chain(unsent, m, received)
        PROVE  Chain(unsent, m, received)'
    <3>1. unsent' = <<last>> /\ m = received
      BY <1>2, <2>1, ChainEmpty DEF IInv, Flow
    <3>2. Chain(<<last>>, m, m)
      BY <1>1, ChainLast
    <3>3. QED
      BY <3>1, <3>2, SMTT(30) DEF Chain
  <2>2. QED
    BY <2>1, FlowUnsent DEF IInv, limitVars, readVars, channelVars
<1>6. Taken' /\ Transferred'
  BY PumpFrame DEF IInv, limitVars, readVars
<1>7. Cancelled'
  BY DEF IInv, Cancelled
<1>8. QED
  BY <1>3, <1>4, <1>5, <1>6, <1>7 DEF IInv

\* A frame: its chunks continue the chain, a draining pump drops them, and a
\* frame over the hard limit ends the pump.
LEMMA ReceiveFrameStep ==
  ASSUME IInv, NEW n \in FrameBytes, ReceiveFrame(n)
  PROVE  IInv'
<1>1. /\ pump = "next" /\ ~unseen /\ client.state = "open"
      /\ UNCHANGED <<client, limitVars, readVars, fileVars, watchVars, shutdown, handler,
                     control, terminal, stop, channelVars, unseen, draining>>
  BY DEF ReceiveFrame, Pumping
<1>2. n \in Nat \ {0} /\ received \in 0 .. HardLimit /\ HardLimit \in Nat /\ unsent = <<>>
  BY <1>1, BodyAssumption DEF IInv, TypeOK
<1>3. CASE received + n > HardLimit
  <2>1. Last(Error("TooLarge"), "hard_limit") /\ UNCHANGED received
    BY <1>3 DEF ReceiveFrame
  <2>2. Error("TooLarge") \in Messages /\ Error("TooLarge").kind = "Error"
    BY MessageKinds DEF BodyErrors
  <2>3. IsLast(Error("TooLarge"))'
    BY <2>2 DEF IsLast
  <2>4. client' \in [state : {"open", "ended", "failed"}, length : Lengths \cup {NoLength}]
    BY <1>1 DEF IInv, TypeOK
  <2>5. QED
    BY <1>1, <2>1, <2>2, <2>3, <2>4, LastStep DEF Last
<1>4. CASE received + n <= HardLimit /\ draining
  <2>1. received' = received + n /\ UNCHANGED <<pump, unsent, why>>
    BY <1>2, <1>4, SMTT(30) DEF ReceiveFrame
  <2>2. TypeOK'
    BY <1>1, <1>2, <1>4, <2>1, SMTT(30)
    DEF IInv, TypeOK, limitVars, readVars, fileVars, watchVars, channelVars
  <2>3. PumpOrder' /\ Cancelled'
    BY <1>1, <2>1 DEF IInv, PumpOrder, IsLast, Cancelled
  <2>4. Flow'
    BY <1>1, <1>4 DEF IInv, Flow
  <2>5. Taken' /\ Transferred'
    BY <1>1, PumpFrame DEF IInv, limitVars, readVars
  <2>6. QED
    BY <2>2, <2>3, <2>4, <2>5 DEF IInv
<1>5. CASE received + n <= HardLimit /\ ~draining
  <2>1. /\ received' = received + n /\ pump' = "sending" /\ unsent' = ChunksOf(received, n)
        /\ UNCHANGED why
    BY <1>2, <1>5, SMTT(30) DEF ReceiveFrame
  <2>2. /\ unsent' \in Seq(Messages) /\ unsent' # <<>>
        /\ \A i \in 1 .. Len(unsent') : unsent'[i].kind = "Chunk"
        /\ Chain(unsent', received, received')
    <3>1. PICK a \in Nat : a = received
      BY <1>2, SMTT(30)
    <3>2. a + n <= HardLimit
      BY <1>5, <3>1
    <3>3. /\ ChunksOf(a, n) \in Seq(Messages) /\ ChunksOf(a, n) # <<>>
          /\ \A i \in 1 .. Len(ChunksOf(a, n)) : ChunksOf(a, n)[i].kind = "Chunk"
          /\ Chain(ChunksOf(a, n), a, a + n)
      BY <1>2, <3>2, FrameChunks
    <3>4. unsent' = ChunksOf(a, n) /\ received' = a + n
      BY <2>1, <3>1
    <3>5. QED
      BY <3>1, <3>3, <3>4
  <2>3. TypeOK'
    <3>1. received' \in 0 .. HardLimit
      BY <1>2, <1>5, <2>1, SMTT(30)
    <3>2. QED
      BY <1>1, <2>1, <2>2, <3>1, SMTT(30)
      DEF IInv, TypeOK, limitVars, readVars, fileVars, watchVars, channelVars
  <2>4. PumpOrder' /\ Cancelled'
    BY <1>1, <2>1, <2>2 DEF IInv, PumpOrder, Cancelled
  <2>5. Flow'
    <3>1. ASSUME NEW m \in 0 .. HardLimit, Chain(unsent, m, received)
          PROVE  Chain(unsent, m, received)'
      <4>1. m = received
        BY <1>2, <3>1, ChainEmpty
      <4>2. Chain(unsent', m, received')
        BY <2>2, <4>1
      <4>3. QED
        BY <4>2 DEF Chain
    <3>2. QED
      BY <1>1, <3>1, FlowUnsent DEF IInv, limitVars, readVars, channelVars
  <2>6. Taken' /\ Transferred'
    BY <1>1, PumpFrame DEF IInv, limitVars, readVars
  <2>7. QED
    BY <2>3, <2>4, <2>5, <2>6 DEF IInv
<1>6. QED
  BY <1>2, <1>3, <1>4, <1>5, SMTT(30)

\* The client ends or fails, or is idle for too long.
LEMMA ReceiveEndStep ==
  ASSUME IInv, ReceiveEnd \/ IdleTimeout
  PROVE  IInv'
<1>1. pump = "next" /\ ~unseen
      /\ UNCHANGED <<limitVars, readVars, fileVars, watchVars, shutdown, handler, control,
                     terminal, stop, channelVars, unseen, draining, received>>
  BY DEF ReceiveEnd, IdleTimeout, Pumping
<1>2. client \in [state : {"open", "ended", "failed"}, length : Lengths \cup {NoLength}]
  BY DEF IInv, TypeOK
<1>3. CASE ReceiveEnd
  <2>1. PICK e \in {"ended", "failed"} : client' = [client EXCEPT !.state = e]
    BY <1>3 DEF ReceiveEnd
  <2>2. /\ client' \in [state : {"open", "ended", "failed"}, length : Lengths \cup {NoLength}]
        /\ client'.state = e
    BY <1>2, <2>1
  <2>3. CASE e = "ended"
    <3>1. Last(End, "ended")
      BY <1>3, <2>2, <2>3 DEF ReceiveEnd
    <3>2. End \in Messages /\ IsLast(End)'
      BY <2>2, <2>3, MessageKinds DEF IsLast
    <3>3. QED
      BY <1>1, <2>2, <3>1, <3>2, LastStep DEF Last
  <2>4. CASE e = "failed"
    <3>1. Last(Error("ClientFailed"), "ended")
      BY <1>3, <2>2, <2>4 DEF ReceiveEnd
    <3>2. Error("ClientFailed") \in Messages /\ Error("ClientFailed").kind = "Error"
      BY MessageKinds DEF BodyErrors
    <3>3. IsLast(Error("ClientFailed"))'
      BY <3>2 DEF IsLast
    <3>4. QED
      BY <1>1, <2>2, <3>1, <3>2, <3>3, LastStep DEF Last
  <2>5. QED
    BY <2>3, <2>4
<1>4. CASE IdleTimeout
  <2>1. /\ pump' = "sending" /\ unsent' = <<Error("Timeout")>> /\ why' = "idle"
        /\ UNCHANGED client
    BY <1>4 DEF IdleTimeout, Pumping
  <2>2. Error("Timeout") \in Messages /\ Error("Timeout").kind = "Error"
    BY MessageKinds DEF BodyErrors
  <2>3. IsLast(Error("Timeout"))'
    BY <2>2 DEF IsLast
  <2>4. QED
    BY <1>1, <1>2, <2>1, <2>2, <2>3, LastStep
<1>5. QED
  BY <1>3, <1>4

\* An interrupted send: the body has been stopped, and only a cancel ends the
\* pump in the middle of a frame.
LEMMA SendInterruptedStep ==
  ASSUME IInv, SendInterrupted
  PROVE  IInv'
<1>1. /\ pump = "sending" /\ (unseen \/ handler = "dropped")
      /\ unseen' = FALSE /\ unsent' = <<>> /\ slot' = "none"
      /\ UNCHANGED <<client, limitVars, readVars, fileVars, watchVars, shutdown, handler,
                     control, terminal, stop, channel, received>>
      /\ \/ Head(unsent).kind # "Chunk" /\ pump' = "done" /\ UNCHANGED <<why, draining>>
         \/ /\ Head(unsent).kind = "Chunk" /\ control = "Drain"
            /\ pump' = "next" /\ draining' = TRUE /\ UNCHANGED why
         \/ control # "Drain" /\ pump' = "done" /\ why' = "cancelled" /\ UNCHANGED draining
  BY DEF SendInterrupted, Pumping
<1>2. control # "Running" /\ terminal # "none"
  BY <1>1 DEF IInv, Cancelled
<1>3. control # "Drain" => control = "Cancel"
  BY <1>2 DEF IInv, TypeOK
<1>4. TypeOK'
  <2>1. draining' \in BOOLEAN /\ unseen' \in BOOLEAN
    BY <1>1 DEF IInv, TypeOK
  <2>2. /\ pump' \in {"next", "sending", "done"} /\ (pump' = "sending" <=> unsent' # <<>>)
        /\ unsent' \in Seq(Messages)
        /\ why' \in {"running", "ended", "idle", "hard_limit", "cancelled"}
    BY <1>1, SMTT(30) DEF IInv, TypeOK
  <2>3. Len(channel') + (IF slot' = "granted" THEN 1 ELSE 0) <= BufferedChunks
    <3>1. Len(channel) \in Nat /\ BufferedChunks \in Nat /\ slot' # "granted"
      BY <1>1, BodyAssumption, SMTT(30) DEF IInv, TypeOK
    <3>2. Len(channel) <= BufferedChunks
      BY <3>1, SMTT(30) DEF IInv, TypeOK
    <3>3. QED
      BY <1>1, <3>1, <3>2, SMTT(30)
  <2>4. QED
    BY <1>1, <2>1, <2>2, <2>3, SMTT(30) DEF IInv, TypeOK, limitVars, readVars, fileVars, watchVars
<1>5. PumpOrder'
  <2>1. Head(unsent) = unsent[1]
    BY SMTT(30)
  <2>2. pump' = "next" => client'.state = "open"
    BY <1>1, <2>1 DEF IInv, PumpOrder
  <2>3. QED
    BY <1>1, <2>2, SMTT(30) DEF PumpOrder
<1>6. Flow'
  BY <1>1, <1>2 DEF Flow
<1>7. Taken' /\ Transferred'
  BY <1>1, PumpFrame DEF IInv, limitVars, readVars
<1>8. Cancelled'
  BY <1>1, <1>2, <1>3 DEF IInv, Cancelled
<1>9. QED
  BY <1>4, <1>5, <1>6, <1>7, <1>8 DEF IInv

\* A message goes into the channel, behind the ones it follows.
LEMMA SendStep ==
  ASSUME IInv, Send
  PROVE  IInv'
<1>1. /\ pump = "sending" /\ (slot = "granted" \/ Free > 0)
      /\ channel' = Append(channel, Head(unsent)) /\ slot' = "none" /\ unsent' = Tail(unsent)
      /\ pump' = IF Tail(unsent) # <<>> THEN "sending"
                 ELSE IF Head(unsent).kind = "Chunk" THEN "next" ELSE "done"
      /\ UNCHANGED <<client, limitVars, readVars, fileVars, watchVars, shutdown, handler,
                     control, terminal, stop, unseen, draining, received, why>>
  BY DEF Send, Pumping
<1>2. unsent \in Seq(Messages) /\ unsent # <<>> /\ channel \in Seq(Messages)
  BY <1>1 DEF IInv, TypeOK
<1>3. PICK h \in Messages : h = Head(unsent) /\ h = unsent[1]
  BY <1>2, SMTT(30)
<1>4. /\ Len(unsent) \in Nat \ {0} /\ unsent' \in Seq(Messages) /\ Len(unsent') = Len(unsent) - 1
      /\ \A i \in 1 .. Len(unsent') : unsent'[i] = unsent[i + 1]
      /\ (unsent' = <<>> <=> Len(unsent) = 1)
  <2>1. Len(unsent) \in Nat \ {0}
    BY <1>2, SMTT(30)
  <2>2. /\ Tail(unsent) \in Seq(Messages) /\ Len(Tail(unsent)) = Len(unsent) - 1
        /\ \A i \in 1 .. Len(Tail(unsent)) : Tail(unsent)[i] = unsent[i + 1]
    BY <1>2, SMTT(30)
  <2>3. Tail(unsent) = <<>> <=> Len(unsent) = 1
    <3>1. PICK u \in Seq(Messages) : u = Tail(unsent)
      BY <2>2
    <3>2. Len(u) = Len(unsent) - 1
      BY <2>2, <3>1
    <3>3. u = <<>> <=> Len(u) = 0
      BY SMTT(30)
    <3>4. u = <<>> <=> Len(unsent) = 1
      BY <2>1, <3>2, <3>3, SMTT(30)
    <3>5. QED
      BY <3>1, <3>4
  <2>4. QED
    BY <1>1, <2>1, <2>2, <2>3
<1>5. /\ channel' \in Seq(Messages) /\ Len(channel) \in Nat /\ Len(channel') = Len(channel) + 1
      /\ \A i \in 1 .. Len(channel) : channel'[i] = channel[i]
      /\ channel'[Len(channel) + 1] = h
  BY <1>1, <1>2, <1>3, SMTT(30)
<1>6. h.kind # "Chunk" => Len(unsent) = 1 /\ IsLast(h) /\ pump' = "done"
  BY <1>1, <1>3, <1>4, SMTT(30) DEF IInv, PumpOrder
<1>7. TypeOK'
  <2>1. Len(channel') + (IF slot' = "granted" THEN 1 ELSE 0) <= BufferedChunks
    BY <1>1, <1>5, BodyAssumption, SMTT(30) DEF IInv, TypeOK, Free
  <2>2. pump' \in {"next", "sending", "done"} /\ (pump' = "sending" <=> unsent' # <<>>)
    BY <1>1
  <2>3. /\ unsent' \in Seq(Messages) /\ channel' \in Seq(Messages) /\ slot' = "none"
        /\ UNCHANGED <<client, limitVars, readVars, fileVars, watchVars, shutdown, handler,
                       control, terminal, stop, unseen, draining, received, why>>
    BY <1>1, <1>4, <1>5
  <2>4. QED
    BY <2>1, <2>2, <2>3, SMTT(30) DEF IInv, TypeOK, limitVars, readVars, fileVars, watchVars
<1>8. PumpOrder'
  <2>1. ASSUME NEW i \in 1 .. Len(unsent') PROVE unsent'[i].kind = "Chunk"
    <3>1. i + 1 \in 1 .. Len(unsent) /\ Len(unsent) # 1
      BY <1>4, SMTT(30)
    <3>2. QED
      BY <1>4, <3>1 DEF IInv, PumpOrder
  <2>2. client.state # "open" => pump' = "done"
    BY <1>1, <1>3, <1>6 DEF IInv, PumpOrder
  <2>3. QED
    BY <1>1, <2>1, <2>2 DEF PumpOrder
<1>9. Flow'
  <2> SUFFICES ASSUME terminal = "none" PROVE Flow'
    BY <1>1 DEF Flow
  <2>1. PICK m \in 0 .. HardLimit : Chain(channel, Position, m) /\ Chain(unsent, m, received)
    BY DEF IInv, Flow
  <2>2. PICK b \in 0 .. HardLimit :
          /\ Chain(Tail(unsent), b, received)
          /\ IF h.kind = "Chunk" THEN h.at = m /\ b = m + h.len ELSE b = m
    BY <1>2, <1>3, <2>1, ChainTail, SMTT(30)
  <2>3. Chain(Append(channel, h), Position, b)
    BY <1>2, <2>1, <2>2, ChainAppend
  <2>4. Position' = Position
    BY <1>1 DEF Position, limitVars, readVars
  <2>5. Chain(channel, Position, b)' /\ Chain(unsent, b, received)'
    <3>1. channel' = Append(channel, h) /\ unsent' = Tail(unsent) /\ received' = received
      BY <1>1, <1>3
    <3>2. Chain(channel', Position', b) /\ Chain(unsent', b, received')
      BY <2>2, <2>3, <2>4, <3>1
    <3>3. QED
      BY <3>2 DEF Chain
  <2>6. \A i \in 1 .. Len(channel) : channel[i].kind = "Chunk"
    BY <1>1 DEF IInv, Flow
  <2>7. \A i \in 1 .. Len(channel') :
          channel'[i].kind # "Chunk" => i = Len(channel') /\ pump' = "done" /\ IsLast(channel[i])'
    <3> TAKE i \in 1 .. Len(channel')
    <3>1. CASE i \in 1 .. Len(channel)
      BY <1>5, <2>6, <3>1
    <3>2. CASE i = Len(channel) + 1
      BY <1>1, <1>5, <1>6, <3>2 DEF IsLast
    <3>3. QED
      BY <1>5, <3>1, <3>2, SMTT(30)
  <2>8. reader \in {"got", "take"} => got.kind = "Chunk" /\ got.at = delivered
    BY <1>1 DEF IInv, Flow
  <2>9. QED
    BY <1>1, <2>5, <2>7, <2>8 DEF IInv, Flow, limitVars, readVars
<1>10. Taken' /\ Transferred'
  BY <1>1, PumpFrame DEF IInv, limitVars, readVars
<1>11. Cancelled'
  BY <1>1 DEF IInv, Cancelled
<1>12. QED
  BY <1>7, <1>8, <1>9, <1>10, <1>11 DEF IInv

\* A send that waits for a permit.
LEMMA SendWaitsStep ==
  ASSUME IInv, SendWaits
  PROVE  IInv'
<1>1. /\ pump = "sending" /\ slot = "none" /\ slot' = "waiting"
      /\ UNCHANGED <<client, limitVars, readVars, fileVars, watchVars, shutdown, handler,
                     control, terminal, stop, pumpVars, channel, unseen>>
  BY DEF SendWaits, Pumping
<1>2. TypeOK'
  BY <1>1, SMTT(30) DEF IInv, TypeOK, pumpVars, limitVars, readVars, fileVars, watchVars
<1>3. PumpOrder' /\ Cancelled'
  BY <1>1 DEF IInv, PumpOrder, IsLast, Cancelled, pumpVars
<1>4. Flow'
  BY <1>1, FlowUnsent DEF IInv, Chain, limitVars, readVars, pumpVars
<1>5. Taken' /\ Transferred'
  BY <1>1, PumpFrame DEF IInv, limitVars, readVars
<1>6. QED
  BY <1>2, <1>3, <1>4, <1>5 DEF IInv

-----------------------------------------------------------------------------
(* Facts about the steps of the reader, the watchdog and the server.       *)

\* Those steps leave the pump alone.
LEMMA PumpKept ==
  ASSUME PumpOrder, UNCHANGED <<client, pumpVars>>
  PROVE  PumpOrder' /\ (UNCHANGED delivered => (Whole' <=> Whole))
BY DEF PumpOrder, IsLast, Whole, pumpVars

\* What is on its way stays so, as long as the body is not stopped.
LEMMA FlowKept ==
  ASSUME Flow, UNCHANGED <<client, pumpVars, channel>>,
         terminal' = "none" =>
           /\ UNCHANGED <<terminal, control, stop>> /\ handler' \notin {"dropping", "dropped"}
           /\ Position' = Position
           /\ reader' \in {"got", "take"} =>
                reader \in {"got", "take"} /\ UNCHANGED <<got, delivered>>
  PROVE  Flow'
<1> SUFFICES ASSUME terminal' = "none" PROVE Flow'
  BY DEF Flow
<1>1. PICK m \in 0 .. HardLimit : Chain(channel, Position, m) /\ Chain(unsent, m, received)
  BY DEF Flow
<1>2. Chain(channel', Position', m) /\ Chain(unsent', m, received')
  BY <1>1 DEF pumpVars
<1>3. Chain(channel, Position, m)' /\ Chain(unsent, m, received)'
  BY <1>2 DEF Chain
<1>4. \A i \in 1 .. Len(channel') :
        channel'[i].kind # "Chunk" => i = Len(channel') /\ pump' = "done" /\ IsLast(channel[i])'
  BY DEF Flow, IsLast, pumpVars
<1>5. reader' \in {"got", "take"} =>
        IF got'.kind = "Chunk" THEN got'.at = delivered'
        ELSE channel' = <<>> /\ pump' = "done" /\ IsLast(got)'
  BY DEF Flow, IsLast, pumpVars
<1>6. QED
  BY <1>3, <1>4, <1>5 DEF Flow, pumpVars

\* stop() begins: the first terminal state is kept.
LEMMA StopFacts ==
  ASSUME TypeOK, NEW c \in Caller, NEW t \in Terminals, StopBegin(c, t)
  PROVE  /\ terminal' \in Terminals /\ terminal' # "none"
         /\ terminal' = IF terminal = "none" THEN t ELSE terminal
         /\ stop' \in [Caller -> {"idle", "control", "wake"}] /\ stop'[c] = "control"
         /\ \A d \in Caller \ {c} : stop'[d] = stop[d]
         /\ UNCHANGED <<control, unseen>>
BY DEF TypeOK, StopBegin, SetTerminal, Terminals, BodyErrors

\* Nobody but StopControl tells the pump anything.
LEMMA CancelledKept ==
  ASSUME Cancelled, UNCHANGED <<control, unseen, why>>,
         terminal # "none" => terminal' = terminal,
         \/ handler' \notin {"dropping", "dropped"}
         \/ handler' = "dropping" /\ stop'["server"] = "control"
         \/ handler' = handler /\ stop'["server"] \in {stop["server"], "control"}
  PROVE  Cancelled'
BY DEF Cancelled

-----------------------------------------------------------------------------
(* stop(), after its first step.                                           *)

\* Somebody who is in stop() has set the terminal state.
LEMMA Stopped ==
  ASSUME IInv, NEW c \in Caller, stop[c] # "idle"
  PROVE  terminal # "none"
BY DEF IInv, Flow

\* The pump is told to drain or cancel by the first terminal state alone.
LEMMA StopControlStep ==
  ASSUME IInv, NEW c \in Caller, StopControl(c)
  PROVE  IInv'
<1>1. /\ stop[c] = "control" /\ stop' = [stop EXCEPT ![c] = "wake"]
      /\ UNCHANGED <<client, pumpVars, channelVars, terminal, limitVars, readVars, fileVars,
                     watchVars, shutdown, handler>>
  BY DEF StopControl
<1>2. /\ control' \in {"Drain", "Cancel"}
      /\ control' = "Cancel" => control = "Cancel" \/ terminal # "TooLarge"
      /\ unseen' = (unseen \/ control' # control)
  BY DEF StopControl
<1>3. terminal # "none"
  BY <1>1, Stopped
<1>4. TypeOK'
  <2>1. stop' \in [Caller -> {"idle", "control", "wake"}] /\ unseen' \in BOOLEAN
    BY <1>1, <1>2 DEF IInv, TypeOK
  <2>2. QED
    BY <1>1, <1>2, <2>1, SMTT(30)
    DEF IInv, TypeOK, pumpVars, channelVars, limitVars, readVars, fileVars, watchVars
<1>5. PumpOrder' /\ (Whole' <=> Whole)
  BY <1>1, PumpKept DEF IInv, limitVars
<1>6. Flow'
  BY <1>1, <1>3 DEF Flow
<1>7. Taken' /\ Transferred'
  BY <1>1, <1>5, SMTT(30) DEF IInv, Taken, Transferred, pumpVars, limitVars, readVars, fileVars
<1>8. Cancelled'
  BY <1>1, <1>2, <1>3 DEF IInv, Cancelled, pumpVars
<1>9. QED
  BY <1>4, <1>5, <1>6, <1>7, <1>8 DEF IInv

\* The reader is woken, if the channel has room.
LEMMA StopWakeStep ==
  ASSUME IInv, NEW c \in Caller, StopWake(c)
  PROVE  IInv'
<1>1. /\ stop[c] = "wake" /\ stop' = [stop EXCEPT ![c] = "idle"]
      /\ channel' = IF Free > 0 THEN Append(channel, Wake) ELSE channel
      /\ UNCHANGED <<client, pumpVars, slot, control, unseen, terminal, limitVars, readVars,
                     fileVars, watchVars, shutdown, handler>>
  BY DEF StopWake
<1>2. terminal # "none"
  BY <1>1, Stopped
<1>3. TypeOK'
  <2>1. stop' \in [Caller -> {"idle", "control", "wake"}]
    BY <1>1 DEF IInv, TypeOK
  <2>2. /\ channel' \in Seq(Messages)
        /\ Len(channel') + (IF slot' = "granted" THEN 1 ELSE 0) <= BufferedChunks
    <3>1. channel \in Seq(Messages) /\ Len(channel) \in Nat /\ Wake \in Messages
      BY MessageKinds, SMTT(30) DEF IInv, TypeOK
    <3>2. CASE Free > 0
      <4>1. channel' \in Seq(Messages) /\ Len(channel') = Len(channel) + 1
        BY <1>1, <3>1, <3>2, SMTT(30)
      <4>2. QED
        BY <1>1, <3>1, <3>2, <4>1, BodyAssumption, SMTT(30) DEF Free
    <3>3. CASE ~(Free > 0)
      BY <1>1, <3>1, <3>3 DEF IInv, TypeOK
    <3>4. QED
      BY <3>2, <3>3
  <2>3. UNCHANGED <<client, pumpVars, slot, control, unseen, terminal, limitVars, readVars,
                    fileVars, watchVars, shutdown, handler>>
    BY <1>1
  <2>4. QED
    BY <2>1, <2>2, <2>3, SMTT(30) DEF IInv, TypeOK, pumpVars, limitVars, readVars, fileVars, watchVars
<1>4. PumpOrder' /\ (Whole' <=> Whole)
  BY <1>1, PumpKept DEF IInv, limitVars
<1>5. Flow'
  BY <1>1, <1>2 DEF Flow
<1>6. Taken' /\ Transferred'
  BY <1>1, <1>4 DEF IInv, Taken, Transferred, pumpVars, limitVars, readVars, fileVars
<1>7. Cancelled'
  <2>1. stop'["server"] # "control" => stop["server"] # "control"
    BY <1>1 DEF IInv, TypeOK, Caller
  <2>2. QED
    BY <1>1, <2>1 DEF IInv, Cancelled, pumpVars
<1>8. QED
  BY <1>3, <1>4, <1>5, <1>6, <1>7 DEF IInv

-----------------------------------------------------------------------------
(* The reader: a call begins.                                              *)

\* A narrowed limit is never above the hard limit.
LEMMA NarrowedType ==
  ASSUME IInv, NEW limit \in Limits \cup {HardLimit}
  PROVE  Narrowed(limit) \in 0 .. HardLimit
BY BodyAssumption, SMTT(30) DEF IInv, TypeOK, Narrowed

\* A call goes into the body, begins a transfer, or returns at once; nothing
\* is written yet.
LEMMA CallBegins ==
  ASSUME IInv, NEW op \in {"read", "read_all", "write_file"}, NEW limit \in Limits,
         Calls(op, limit), narrow_limit' \in 0 .. HardLimit,
         reader' \in {"enter", "stage", "returned"},
         result' \in {"none", "TooLarge", "Stopping", "Failed"},
         op # "write_file" => result' = "none" /\ reader' # "stage",
         UNCHANGED stopVars \/ StopBegin("reader", "TooLarge"),
         watchdog' \in {"none", "armed", "fired", "stopping", "ended"},
         reason' \in {"running", "timeout", "stopping"}
  PROVE  IInv'
<1>1. /\ reader = "idle" /\ reads < MaxReads /\ reads' = reads + 1
      /\ call' = [op |-> op, requested |-> limit, from |-> delivered]
      /\ UNCHANGED <<client, pumpVars, shutdown, handler, channelVars, got, delivered, fileVars>>
  BY DEF Calls, Outside
<1>2. call'.op = op /\ call'.from = delivered
  BY <1>1
<1>3. /\ terminal' \in Terminals \cup {"none"} /\ (terminal # "none" => terminal' = terminal)
      /\ terminal' = "End" => terminal = "End"
      /\ terminal' = "none" => UNCHANGED <<terminal, control, stop>>
      /\ stop' \in [Caller -> {"idle", "control", "wake"}]
      /\ stop'["server"] = stop["server"] /\ UNCHANGED <<control, unseen>>
  <2>1. CASE UNCHANGED stopVars
    BY <2>1 DEF stopVars, IInv, TypeOK
  <2>2. CASE StopBegin("reader", "TooLarge")
    BY <2>2, StopFacts, SMTT(30) DEF IInv, Terminals, BodyErrors, Caller
  <2>3. QED
    BY <2>1, <2>2
<1>4. TypeOK'
  <2>1. call' \in [op : {"none", "read", "read_all", "write_file"},
                   requested : Limits \cup {HardLimit}, from : 0 .. HardLimit]
    BY <1>1 DEF IInv, TypeOK
  <2>2. reads' \in 0 .. MaxReads
    BY <1>1, BodyAssumption, SMTT(30) DEF IInv, TypeOK
  <2>3. result' \in {"none", "chunk", "end", "ok"} \cup BodyErrors \cup SinkErrors
    BY DEF BodyErrors, SinkErrors
  <2>4. QED
    BY <1>1, <1>3, <2>1, <2>2, <2>3, SMTT(30) DEF IInv, TypeOK, pumpVars, channelVars, fileVars
<1>5. PumpOrder' /\ (Whole' <=> Whole)
  BY <1>1, PumpKept DEF IInv
<1>6. Flow'
  <2>1. Position' = Position
    BY <1>1 DEF Position
  <2>2. handler' \in {"dropping", "dropped"} => terminal # "none"
    BY <1>1 DEF IInv, Flow
  <2>3. QED
    BY <1>1, <1>3, <2>1, <2>2, FlowKept DEF IInv, channelVars
<1>7. Taken'
  BY <1>1, <1>3, <1>5 DEF IInv, Taken
<1>8. Transferred'
  <2>1. ~staging' /\ ~published' /\ written' = 0 /\ delivered' = delivered
    BY <1>1 DEF IInv, Transferred, fileVars
  <2>2. call'.from + written' = delivered'
    BY <1>2, <2>1, SMTT(30) DEF IInv, TypeOK
  <2>3. QED
    BY <1>2, <2>1, <2>2 DEF Transferred
<1>9. Cancelled'
  BY <1>1, <1>3, CancelledKept DEF IInv, pumpVars
<1>10. QED
  BY <1>4, <1>5, <1>6, <1>7, <1>8, <1>9 DEF IInv

\* read, read_all and write_file.
LEMMA CallStep ==
  ASSUME IInv, NEW limit \in Limits, Read(limit) \/ ReadAll(limit) \/ WriteFile(limit)
  PROVE  IInv'
<1>1. /\ Narrowed(limit) \in 0 .. HardLimit /\ narrow_limit \in 0 .. HardLimit
      /\ watchdog \in {"none", "armed", "fired", "stopping", "ended"}
      /\ reason \in {"running", "timeout", "stopping"}
  BY NarrowedType DEF IInv, TypeOK
<1>2. CASE Read(limit)
  BY <1>1, <1>2, CallBegins DEF Read, watchVars
<1>3. CASE ReadAll(limit)
  <2>1. Calls("read_all", limit) /\ narrow_limit' = Narrowed(limit) /\ UNCHANGED watchVars
    BY <1>3 DEF ReadAll
  <2>2. /\ reader' \in {"enter", "returned"} /\ result' = "none"
        /\ UNCHANGED stopVars \/ StopBegin("reader", "TooLarge")
    BY <1>3 DEF ReadAll, OverLimit, Calls
  <2>3. QED
    BY <1>1, <2>1, <2>2, CallBegins DEF watchVars
<1>4. CASE WriteFile(limit)
  <2>1. Calls("write_file", limit)
    BY <1>4 DEF WriteFile
  <2>2. /\ narrow_limit' \in {narrow_limit, Narrowed(limit)}
        /\ reader' \in {"stage", "returned"}
        /\ result' \in {"none", "TooLarge", "Stopping", "Failed"}
        /\ UNCHANGED stopVars \/ StopBegin("reader", "TooLarge")
        /\ UNCHANGED watchVars \/ (watchdog' = "armed" /\ reason' = "running")
    BY <1>4 DEF WriteFile, OverLimit
  <2>3. QED
    BY <1>1, <2>1, <2>2, CallBegins DEF watchVars
<1>5. QED
  BY <1>2, <1>3, <1>4

-----------------------------------------------------------------------------
(* The reader: receive_with_limit.                                         *)

Outcomes == {"chunk", "end"} \cup BodyErrors

\* Where a call goes on.
LEMMA ReturnedFacts ==
  ASSUME IInv, reader # "idle", NEW r \in Outcomes, Returned(r)
  PROVE  /\ reader' \in {"enter", "write", "publish", "cleanup", "returned"}
         /\ result' \in {"none", "chunk", "end", "ok"} \cup BodyErrors \cup SinkErrors
         /\ call.op # "write_file" => result' = "none" /\ reader' \in {"enter", "returned"}
         /\ call.op = "write_file" =>
              /\ result' = r /\ r # "ok"
              /\ reader' = IF r = "chunk" THEN "write" ELSE IF r = "end" THEN "publish"
                           ELSE "cleanup"
<1>1. call.op \in {"read", "read_all", "write_file"}
  BY DEF IInv, TypeOK, Transferred
<1>2. QED
  BY <1>1 DEF Returned, Outcomes, BodyErrors

\* A transfer goes on with the chunk that was delivered, publishes a whole
\* body, or cleans up.
LEMMA TransferReturned ==
  ASSUME IInv, reader \in {"enter", "got", "take"}, NEW r \in Outcomes, Returned(r),
         UNCHANGED <<call, fileVars, got, client, pumpVars>>,
         r = "chunk" => got.kind = "Chunk" /\ delivered' = delivered + got.len,
         r # "chunk" => delivered' = delivered,
         r = "end" => Whole'
  PROVE  Transferred'
<1>1. /\ reader' \in {"enter", "write", "publish", "cleanup", "returned"}
      /\ call.op # "write_file" => result' = "none" /\ reader' \in {"enter", "returned"}
      /\ call.op = "write_file" =>
           /\ result' = r /\ r # "ok"
           /\ reader' = IF r = "chunk" THEN "write" ELSE IF r = "end" THEN "publish"
                        ELSE "cleanup"
  BY ReturnedFacts
<1>2. call.op # "none" /\ (call.op # "write_file" => ~staging /\ ~published)
  BY DEF IInv, Transferred
<1>3. CASE call.op # "write_file"
  BY <1>1, <1>2, <1>3 DEF Transferred, fileVars
<1>4. CASE call.op = "write_file"
  <2>1. call.from + written = delivered /\ ~published
    BY <1>4 DEF IInv, Transferred
  <2>2. call.from \in Nat /\ written \in Nat
    BY <1>4, SMTT(30) DEF IInv, TypeOK
  <2>3. CASE r = "chunk"
    <3>1. got.len \in Nat
      BY <2>3, MessageKinds, SMTT(30) DEF IInv, TypeOK
    <3>2. call.from + written + got.len = delivered'
      BY <2>1, <2>2, <2>3, <3>1
    <3>3. QED
      BY <1>1, <1>4, <2>1, <2>3, <3>2 DEF Transferred, fileVars
  <2>4. CASE r # "chunk"
    BY <1>1, <1>4, <2>1, <2>4 DEF Transferred, fileVars
  <2>5. QED
    BY <2>3, <2>4
<1>5. QED
  BY <1>3, <1>4

\* The look at `terminal`, and at the limit.
LEMMA EnterStep ==
  ASSUME IInv, Enter
  PROVE  IInv'
<1>1. /\ reader = "enter"
      /\ UNCHANGED <<client, pumpVars, shutdown, handler, fileVars, watchVars, call, reads,
                     channelVars, got, delivered>>
  BY DEF Enter, Running, Reading, Outside
<1>2. \/ terminal # "none" /\ Returned(Terminal) /\ UNCHANGED <<stopVars, narrow_limit>>
      \/ /\ terminal = "none" /\ narrow_limit' = Narrowed(call.requested)
         /\ StopBegin("reader", "TooLarge") /\ Returned("TooLarge")
      \/ /\ terminal = "none" /\ narrow_limit' = Narrowed(call.requested)
         /\ reader' = "recv" /\ UNCHANGED <<result, stopVars>>
  BY DEF Enter
<1>3. narrow_limit' \in 0 .. HardLimit
  <2>1. call.requested \in Limits \cup {HardLimit}
    BY DEF IInv, TypeOK
  <2>2. Narrowed(call.requested) \in 0 .. HardLimit
    BY <2>1, NarrowedType
  <2>3. QED
    BY <1>2, <2>2 DEF IInv, TypeOK
<1>4. PumpOrder' /\ (Whole' <=> Whole)
  BY <1>1, PumpKept DEF IInv
<1>5. /\ terminal' \in Terminals \cup {"none"} /\ (terminal # "none" => terminal' = terminal)
      /\ terminal' = "End" => terminal = "End"
      /\ terminal' = "none" => UNCHANGED <<terminal, control, stop>> /\ reader' = "recv"
      /\ stop' \in [Caller -> {"idle", "control", "wake"}]
      /\ stop'["server"] = stop["server"] /\ UNCHANGED <<control, unseen>>
  <2>1. CASE UNCHANGED stopVars
    BY <1>2, <2>1 DEF stopVars, IInv, TypeOK, StopBegin, SetTerminal
  <2>2. CASE StopBegin("reader", "TooLarge")
    BY <2>2, StopFacts, SMTT(30) DEF IInv, Terminals, BodyErrors, Caller
  <2>3. QED
    BY <1>2, <2>1, <2>2
<1>6. /\ reader' \in {"recv", "enter", "write", "publish", "cleanup", "returned"}
      /\ result' \in {"none", "chunk", "end", "ok"} \cup BodyErrors \cup SinkErrors
      /\ reader' = "recv" => terminal' # "End"
      /\ Transferred'
  <2>1. ASSUME NEW r \in Outcomes, r # "chunk", Returned(r), r = "end" => terminal = "End"
        PROVE  /\ reader' \in {"enter", "write", "publish", "cleanup", "returned"}
               /\ result' \in {"none", "chunk", "end", "ok"} \cup BodyErrors \cup SinkErrors
               /\ Transferred'
    <3>1. r = "end" => Whole'
      BY <1>4, <2>1 DEF IInv, Taken
    <3>2. QED
      BY <1>1, <2>1, <3>1, ReturnedFacts, TransferReturned
  <2>2. CASE terminal # "none" /\ Returned(Terminal)
    <3>1. Terminal \in Outcomes /\ Terminal # "chunk" /\ (Terminal = "end" => terminal = "End")
      BY <2>2 DEF IInv, TypeOK, Terminals, Terminal, Outcomes, BodyErrors
    <3>2. QED
      BY <2>1, <2>2, <3>1
  <2>3. CASE Returned("TooLarge")
    BY <2>1, <2>3 DEF Outcomes, BodyErrors
  <2>4. CASE terminal = "none" /\ reader' = "recv" /\ UNCHANGED <<result, stopVars>>
    BY <1>1, <1>4, <2>4 DEF IInv, TypeOK, Transferred, fileVars, stopVars, pumpVars
  <2>5. QED
    BY <1>2, <2>2, <2>3, <2>4
<1>7. TypeOK'
  BY <1>1, <1>3, <1>5, <1>6, SMTT(30) DEF IInv, TypeOK, pumpVars, channelVars, fileVars, watchVars
<1>8. Flow'
  <2>1. Position' = Position
    BY <1>1, <1>6 DEF Position
  <2>2. handler' \in {"dropping", "dropped"} => terminal # "none"
    BY <1>1 DEF IInv, Flow
  <2>3. QED
    BY <1>1, <1>5, <1>6, <2>1, <2>2, FlowKept DEF IInv, channelVars
<1>9. Taken'
  BY <1>1, <1>4, <1>5, <1>6 DEF IInv, Taken
<1>10. Cancelled'
  BY <1>1, <1>5, CancelledKept DEF IInv, pumpVars
<1>11. QED
  BY <1>4, <1>6, <1>7, <1>8, <1>9, <1>10 DEF IInv

\* A message leaves the channel: its first chunk is the one the reader needs.
LEMMA RecvStep ==
  ASSUME IInv, Recv
  PROVE  IInv'
<1>1. /\ reader = "recv" /\ reader' = "got" /\ channel # <<>>
      /\ got' = Head(channel) /\ channel' = Tail(channel)
      /\ slot' = IF slot = "waiting" THEN "granted" ELSE slot
      /\ UNCHANGED <<client, pumpVars, shutdown, handler, fileVars, watchVars, call, reads,
                     stopVars, limitVars, result>>
  BY DEF Recv, Pop, Running, Reading, Outside
<1>2. PICK c \in Seq(Messages) : c = channel
  BY DEF IInv, TypeOK
<1>3. PICK u \in Seq(Messages) : u = Tail(c)
  BY <1>1, <1>2, SMTT(30)
<1>4. /\ Len(c) \in Nat \ {0} /\ Len(u) = Len(c) - 1 /\ Head(c) = c[1] /\ Head(c) \in Messages
      /\ \A i \in 1 .. Len(u) : u[i] = c[i + 1]
      /\ u = <<>> <=> Len(c) = 1
  <2>1. Len(c) \in Nat \ {0}
    BY <1>1, <1>2, SMTT(30)
  <2>2. /\ Len(u) = Len(c) - 1 /\ Head(c) = c[1] /\ Head(c) \in Messages
        /\ \A i \in 1 .. Len(u) : u[i] = c[i + 1]
    BY <1>1, <1>2, <1>3, SMTT(30)
  <2>3. u = <<>> <=> Len(u) = 0
    BY SMTT(30)
  <2>4. QED
    BY <2>1, <2>2, <2>3, SMTT(30)
<1>5. PICK h \in Messages : h = Head(c) /\ h = c[1]
  BY <1>4
<1>6. TypeOK'
  <2>1. slot' \in {"none", "waiting", "granted"}
    BY <1>1 DEF IInv, TypeOK
  <2>2. Len(channel') + (IF slot' = "granted" THEN 1 ELSE 0) <= BufferedChunks
    <3>1. BufferedChunks \in Nat /\ Len(channel') = Len(c) - 1
      BY <1>1, <1>2, <1>3, <1>4, BodyAssumption
    <3>2. Len(c) + (IF slot = "granted" THEN 1 ELSE 0) <= BufferedChunks
      BY <1>2 DEF IInv, TypeOK
    <3>3. QED
      BY <1>1, <1>4, <3>1, <3>2, SMTT(30)
  <2>3. got' \in Messages /\ channel' \in Seq(Messages)
    BY <1>1, <1>2, <1>3, <1>5
  <2>4. QED
    BY <1>1, <2>1, <2>2, <2>3, SMTT(30) DEF IInv, TypeOK, pumpVars, fileVars, watchVars, stopVars, limitVars
<1>7. PumpOrder' /\ (Whole' <=> Whole)
  BY <1>1, PumpKept DEF IInv, limitVars
<1>8. Flow'
  <2> SUFFICES ASSUME terminal = "none" PROVE Flow'
    BY <1>1 DEF Flow, stopVars
  <2>1. PICK m \in 0 .. HardLimit : Chain(channel, Position, m) /\ Chain(unsent, m, received)
    BY DEF IInv, Flow
  <2>2. Position = delivered
    BY <1>1 DEF Position
  <2>3. PICK b \in 0 .. HardLimit :
          /\ h.kind = "Chunk" => h.at = delivered
          /\ Chain(u, b, m) /\ b = IF h.kind = "Chunk" THEN h.at + h.len ELSE delivered
    BY <1>1, <1>2, <1>3, <1>5, <2>1, <2>2, ChainTail, SMTT(30)
  <2>4. Position' = b
    BY <1>1, <1>2, <1>5, <2>3 DEF Position, limitVars
  <2>5. Chain(channel', Position', m) /\ Chain(unsent', m, received')
    BY <1>1, <1>2, <1>3, <2>1, <2>3, <2>4 DEF pumpVars
  <2>6. Chain(channel, Position, m)' /\ Chain(unsent, m, received)'
    BY <2>5 DEF Chain
  <2>7. \A i \in 1 .. Len(c) : c[i].kind # "Chunk" => i = Len(c) /\ pump = "done" /\ IsLast(c[i])
    BY <1>2 DEF IInv, Flow
  <2>8. \A i \in 1 .. Len(u) : u[i].kind # "Chunk" => i = Len(u) /\ pump = "done" /\ IsLast(u[i])
    <3> TAKE i \in 1 .. Len(u)
    <3>1. i + 1 \in 1 .. Len(c) /\ u[i] = c[i + 1]
      BY <1>4, SMTT(30)
    <3>2. QED
      BY <1>4, <2>7, <3>1, SMTT(30)
  <2>9. h.kind # "Chunk" => u = <<>> /\ pump = "done" /\ IsLast(h)
    BY <1>4, <1>5, <2>7, SMTT(30)
  <2>10. channel' = u /\ got' = h /\ UNCHANGED <<client, pump, delivered>>
    BY <1>1, <1>2, <1>3, <1>5 DEF pumpVars, limitVars
  <2>11. \A i \in 1 .. Len(channel') :
           channel'[i].kind # "Chunk" => i = Len(channel') /\ pump' = "done" /\ IsLast(channel[i])'
    BY <2>8, <2>10 DEF IsLast
  <2>12. IF got'.kind = "Chunk" THEN got'.at = delivered'
         ELSE channel' = <<>> /\ pump' = "done" /\ IsLast(got)'
    BY <2>3, <2>9, <2>10 DEF IsLast
  <2>13. QED
    BY <1>1, <2>6, <2>11, <2>12 DEF IInv, Flow, stopVars, pumpVars
<1>9. Taken' /\ Transferred'
  BY <1>1, <1>7 DEF IInv, Taken, Transferred, pumpVars, fileVars, stopVars, limitVars
<1>10. Cancelled'
  BY <1>1, CancelledKept DEF IInv, pumpVars, stopVars
<1>11. QED
  BY <1>6, <1>7, <1>8, <1>9, <1>10 DEF IInv

\* The second look at `terminal`, with the message in hand.
LEMMA CheckTerminalStep ==
  ASSUME IInv, CheckTerminal
  PROVE  IInv'
<1>1. /\ reader = "got"
      /\ UNCHANGED <<client, pumpVars, shutdown, handler, fileVars, watchVars, call, reads,
                     channelVars, stopVars, limitVars, got>>
      /\ \/ terminal # "none" /\ Returned(Terminal)
         \/ terminal = "none" /\ reader' = "take" /\ UNCHANGED result
  BY DEF CheckTerminal, Running, Reading, Outside
<1>2. PumpOrder' /\ (Whole' <=> Whole)
  BY <1>1, PumpKept DEF IInv, limitVars
<1>3. CASE terminal # "none" /\ Returned(Terminal)
  <2>1. /\ Terminal \in Outcomes /\ Terminal # "chunk" /\ Terminal # "end"
    BY <1>1, <1>3 DEF IInv, TypeOK, Taken, Terminals, Terminal, Outcomes, BodyErrors
  <2>2. /\ reader' \in {"enter", "write", "publish", "cleanup", "returned"}
        /\ result' \in {"none", "chunk", "end", "ok"} \cup BodyErrors \cup SinkErrors
        /\ Transferred'
    BY <1>1, <1>3, <2>1, ReturnedFacts, TransferReturned DEF limitVars
  <2>3. TypeOK'
    BY <1>1, <2>2, SMTT(30) DEF IInv, TypeOK, pumpVars, channelVars, fileVars, watchVars, stopVars, limitVars
  <2>4. Flow' /\ Taken'
    BY <1>1, <1>2, <1>3, <2>2 DEF IInv, Flow, Taken, stopVars
  <2>5. Cancelled'
    BY <1>1, CancelledKept DEF IInv, pumpVars, stopVars
  <2>6. QED
    BY <1>2, <2>2, <2>3, <2>4, <2>5 DEF IInv
<1>4. CASE terminal = "none" /\ reader' = "take" /\ UNCHANGED result
  <2>1. TypeOK'
    BY <1>1, <1>4, SMTT(30) DEF IInv, TypeOK, pumpVars, channelVars, fileVars, watchVars, stopVars, limitVars
  <2>2. Flow'
    <3>1. Position' = Position
      BY <1>1, <1>4 DEF Position, limitVars
    <3>2. QED
      BY <1>1, <1>4, <3>1, FlowKept DEF IInv, Flow, channelVars, stopVars, limitVars
  <2>3. Taken'
    <3>1. got.kind = "Chunk" => got.at = delivered
      BY <1>1, <1>4 DEF IInv, Flow
    <3>2. got.kind # "Chunk" => channel = <<>> /\ pump = "done" /\ IsLast(got)
      BY <1>1, <1>4 DEF IInv, Flow
    <3>3. ASSUME got.kind = "End" PROVE Whole
      <4>1. channel = <<>> /\ unsent = <<>> /\ pump = "done" /\ client.state = "ended"
        BY <3>2, <3>3 DEF IsLast, IInv, TypeOK
      <4>2. PICK m \in 0 .. HardLimit :
              Chain(channel, Position, m) /\ Chain(unsent, m, received)
        BY <1>4 DEF IInv, Flow
      <4>3. Position = delivered /\ delivered \in 0 .. HardLimit /\ received \in 0 .. HardLimit
        BY <3>3 DEF Position, IInv, TypeOK
      <4>4. m = delivered /\ m = received
        BY <4>1, <4>2, <4>3, ChainEmpty
      <4>5. QED
        BY <4>1, <4>4 DEF Whole
    <3>4. QED
      BY <1>1, <1>2, <1>4, <3>1, <3>2, <3>3 DEF Taken, IsLast, stopVars, limitVars
  <2>4. Transferred'
    BY <1>1, <1>2, <1>4 DEF IInv, Transferred, pumpVars, fileVars, limitVars
  <2>5. Cancelled'
    BY <1>1, CancelledKept DEF IInv, pumpVars, stopVars
  <2>6. QED
    BY <1>2, <2>1, <2>2, <2>3, <2>4, <2>5 DEF IInv
<1>5. QED
  BY <1>1, <1>3, <1>4

\* What every outcome of Take shares: the call goes on with r, and the body is
\* stopped, or the chunk in hand was delivered.
LEMMA TakeReturns ==
  ASSUME IInv, reader = "take", NEW r \in Outcomes, Returned(r),
         UNCHANGED <<client, pumpVars, shutdown, handler, fileVars, watchVars, call, reads,
                     channelVars, narrow_limit, got, control, unseen>>,
         delivered' \in 0 .. HardLimit,
         r = "chunk" => got.kind = "Chunk" /\ delivered' = delivered + got.len,
         r # "chunk" => delivered' = delivered /\ terminal' # "none",
         r = "end" => Whole,
         terminal' \in Terminals \cup {"none"}, terminal # "none" => terminal' = terminal,
         terminal' = "End" => r = "end",
         stop' \in [Caller -> {"idle", "control", "wake"}],
         \A c \in Caller \ {"reader"} : stop'[c] = stop[c],
         terminal' = "none" => UNCHANGED <<terminal, stop>>
  PROVE  IInv'
<1>1. /\ reader' \in {"enter", "write", "publish", "cleanup", "returned"}
      /\ result' \in {"none", "chunk", "end", "ok"} \cup BodyErrors \cup SinkErrors
  BY ReturnedFacts
<1>2. r = "end" => Whole'
  BY DEF Whole, pumpVars
<1>3. Transferred'
  BY <1>2, TransferReturned
<1>4. TypeOK'
  BY <1>1, SMTT(30) DEF IInv, TypeOK, pumpVars, channelVars, fileVars, watchVars
<1>5. PumpOrder'
  BY PumpKept DEF IInv
<1>6. Flow'
  <2> SUFFICES ASSUME terminal' = "none" PROVE Flow'
    BY DEF Flow
  <2>1. r = "chunk" /\ terminal = "none"
    OBVIOUS
  <2>2. got.at = delivered /\ Position = got.at + got.len
    BY <2>1 DEF IInv, Flow, Position
  <2>3. Position' = Position
    BY <1>1, <2>1, <2>2 DEF Position
  <2>4. handler' \notin {"dropping", "dropped"}
    BY <2>1 DEF IInv, Flow
  <2>5. QED
    BY <1>1, <2>3, <2>4, FlowKept DEF IInv, channelVars
<1>7. Taken'
  BY <1>1, <1>2 DEF Taken
<1>8. Cancelled'
  <2>1. stop'["server"] = stop["server"]
    BY DEF Caller
  <2>2. QED
    BY <2>1, CancelledKept DEF IInv, pumpVars
<1>9. QED
  BY <1>3, <1>4, <1>5, <1>6, <1>7, <1>8 DEF IInv

\* The message in hand is delivered, ends the body, or stops it.
LEMMA TakeStep ==
  ASSUME IInv, Take
  PROVE  IInv'
<1>1. /\ reader = "take"
      /\ IF got.kind = "Chunk" THEN TakeChunk ELSE TakeLast
      /\ UNCHANGED <<client, pumpVars, shutdown, handler, fileVars, watchVars, call, reads,
                     channelVars, narrow_limit, got>>
  BY DEF Take, Running, Reading, Outside
<1>2. /\ got.kind \in {"Chunk", "End", "Error"} /\ terminal # "End"
      /\ got.kind = "Chunk" => got.len \in 1 .. ChunkBytes
      /\ got.kind = "Error" => got.error \in BodyErrors
      /\ got.kind = "End" => Whole
      /\ delivered \in 0 .. HardLimit /\ narrow_limit \in 0 .. HardLimit
  BY <1>1, MessageKinds DEF IInv, TypeOK, Taken
<1>3. /\ stop \in [Caller -> {"idle", "control", "wake"}]
      /\ terminal \in Terminals \cup {"none"}
  BY DEF IInv, TypeOK
<1>4. ASSUME NEW t \in BodyErrors, StopBegin("reader", t), Returned(t), UNCHANGED delivered
      PROVE  IInv'
  <2>1. /\ t \in Terminals /\ t \in Outcomes /\ t \notin {"chunk", "end", "End"}
        /\ "reader" \in Caller
    BY DEF Terminals, Outcomes, BodyErrors, Caller
  <2>2. /\ terminal' \in Terminals /\ terminal' # "none"
        /\ terminal' = IF terminal = "none" THEN t ELSE terminal
        /\ stop' \in [Caller -> {"idle", "control", "wake"}]
        /\ \A d \in Caller \ {"reader"} : stop'[d] = stop[d]
        /\ UNCHANGED <<control, unseen>>
    BY <1>4, <2>1, StopFacts DEF IInv
  <2>3. QED
    BY <1>1, <1>2, <1>4, <2>1, <2>2, TakeReturns
<1>5. CASE got.kind = "Chunk"
  <2>1. TakeChunk
    BY <1>1, <1>5
  <2>2. CASE delivered + got.len > narrow_limit
    BY <1>4, <2>1, <2>2 DEF TakeChunk, BodyErrors
  <2>3. CASE ~(delivered + got.len > narrow_limit)
    <3>1. delivered' = delivered + got.len /\ Returned("chunk") /\ UNCHANGED stopVars
      BY <2>1, <2>3 DEF TakeChunk
    <3>2. delivered' \in 0 .. HardLimit
      BY <1>2, <1>5, <2>3, <3>1, BodyAssumption, SMTT(30)
    <3>3. "chunk" \in Outcomes
      BY DEF Outcomes
    <3>4. QED
      BY <1>1, <1>2, <1>3, <1>5, <3>1, <3>2, <3>3, TakeReturns DEF stopVars
  <2>4. QED
    BY <2>2, <2>3
<1>6. CASE got.kind = "End"
  <2>1. /\ terminal' = IF terminal = "none" THEN "End" ELSE terminal
        /\ Returned("end") /\ UNCHANGED <<control, unseen, stop, delivered>>
    BY <1>1, <1>6 DEF TakeLast, SetTerminal
  <2>2. "end" \in Outcomes /\ "End" \in Terminals /\ terminal' # "none"
    BY <2>1 DEF Outcomes, Terminals
  <2>3. QED
    BY <1>1, <1>2, <1>3, <1>6, <2>1, <2>2, TakeReturns
<1>7. CASE got.kind = "Error"
  BY <1>1, <1>2, <1>4, <1>7 DEF TakeLast
<1>8. QED
  BY <1>2, <1>5, <1>6, <1>7

-----------------------------------------------------------------------------
(* write_file.                                                             *)

\* A step of a transfer: the body and the limits stay as they are.
LEMMA SinkFrame ==
  ASSUME IInv, reader \notin {"got", "take"}, reader' \notin {"recv", "got", "take"},
         UNCHANGED <<client, pumpVars, handler, channelVars, stopVars, limitVars>>
  PROVE  PumpOrder' /\ Flow' /\ Taken' /\ Cancelled' /\ (Whole' <=> Whole)
<1>1. PumpOrder' /\ (Whole' <=> Whole)
  BY PumpKept DEF IInv, limitVars
<1>2. Flow'
  <2>1. Position' = Position
    BY DEF Position, limitVars
  <2>2. terminal' = "none" => handler' \notin {"dropping", "dropped"}
    BY DEF IInv, Flow, stopVars
  <2>3. QED
    BY <2>1, <2>2, FlowKept DEF IInv, channelVars, stopVars
<1>3. Taken'
  BY <1>1 DEF IInv, Taken, stopVars
<1>4. Cancelled'
  BY CancelledKept DEF IInv, pumpVars, stopVars
<1>5. QED
  BY <1>1, <1>2, <1>3, <1>4

\* Staging, looking for a stop, writing, publishing and cleaning up.
LEMMA SinkStep ==
  ASSUME IInv, Stage \/ Loop \/ Write \/ Publish \/ Cleanup
  PROVE  IInv'
<1>1. /\ reader \in {"stage", "loop", "write", "publish", "cleanup"}
      /\ reader' \in {"loop", "enter", "cleanup", "join"}
      /\ UNCHANGED <<client, pumpVars, shutdown, handler, channelVars, stopVars, limitVars,
                     watchVars, call, got, reads>>
      /\ staging' \in BOOLEAN /\ published' \in BOOLEAN
      /\ result' \in {result, "Stopping", "Failed", "ok", "CleanupFailed"}
  BY DEF Stage, Loop, Write, Publish, Cleanup, Running, Sinking, Outside, fileVars, IInv, TypeOK
<1>2. PumpOrder' /\ Flow' /\ Taken' /\ Cancelled' /\ (Whole' <=> Whole)
  BY <1>1, SinkFrame
<1>3. call.op = "write_file"
  BY <1>1 DEF IInv, Transferred
<1>4. UNCHANGED <<call, got, delivered, received, pump, client>>
  BY <1>1 DEF pumpVars, limitVars
<1>5. /\ call.from \in Nat /\ written \in 0 .. HardLimit /\ delivered \in 0 .. HardLimit
      /\ got \in Messages /\ Transferred
  BY SMTT(30) DEF IInv, TypeOK
<1>6. Transferred' /\ written' \in 0 .. HardLimit
  <2>1. CASE Stage
    BY <1>2, <1>3, <1>4, <1>5, <2>1, SMTT(30) DEF Stage, Running, Transferred
  <2>2. CASE Loop
    BY <1>2, <1>3, <1>4, <1>5, <2>2 DEF Loop, Running, Transferred, fileVars
  <2>3. CASE Write
    <3>1. /\ got.kind = "Chunk" /\ ~published /\ call.from + written + got.len = delivered
          /\ got.len \in Nat
      BY <1>3, <1>5, <2>3, MessageKinds, SMTT(30) DEF Write, Running, Transferred
    <3>2. CASE reader' = "loop" /\ written' = written + got.len /\ UNCHANGED result
      <4>1. call.from + written' = delivered /\ written' \in 0 .. HardLimit
        <5>1. PICK f \in Nat, l \in Nat : f = call.from /\ l = got.len
          BY <1>5, <3>1
        <5>2. f + written + l = delivered /\ written' = written + l
          BY <3>1, <3>2, <5>1
        <5>3. f + written' = delivered /\ written' \in 0 .. HardLimit
          BY <1>5, <5>2, BodyAssumption, SMTT(30)
        <5>4. QED
          BY <5>1, <5>3
      <4>2. QED
        BY <1>3, <1>4, <2>3, <3>1, <3>2, <4>1 DEF Write, Transferred
    <3>3. CASE reader' = "cleanup" /\ result' = "Failed" /\ UNCHANGED written
      BY <1>3, <1>4, <1>5, <2>3, <3>1, <3>3 DEF Write, Transferred
    <3>4. QED
      BY <2>3, <3>2, <3>3 DEF Write
  <2>4. CASE Publish
    <3>1. Whole /\ call.from + written = delivered /\ ~published
      BY <1>3, <2>4 DEF Publish, Running, IInv, Transferred
    <3>2. call.from + written = received
      BY <3>1 DEF Whole
    <3>3. QED
      BY <1>2, <1>3, <1>4, <1>5, <2>4, <3>1, <3>2, SMTT(30) DEF Publish, Transferred
  <2>5. CASE Cleanup
    BY <1>2, <1>3, <1>4, <1>5, <2>5 DEF Cleanup, Running, Transferred
  <2>6. QED
    BY <2>1, <2>2, <2>3, <2>4, <2>5
<1>7. TypeOK'
  <2>1. result' \in {"none", "chunk", "end", "ok"} \cup BodyErrors \cup SinkErrors
    BY <1>1 DEF IInv, TypeOK, SinkErrors
  <2>2. QED
    BY <1>1, <1>6, <2>1, SMTT(30) DEF IInv, TypeOK, pumpVars, channelVars, stopVars, limitVars, watchVars
<1>8. QED
  BY <1>2, <1>6, <1>7 DEF IInv

\* The watchdog is joined, and the call returns to Roc.
LEMMA ReturnStep ==
  ASSUME IInv, Join \/ Return
  PROVE  IInv'
<1>1. CASE Join
  <2>1. /\ reader = "join" /\ reader' = "returned"
        /\ result' = CASE result = "Stopping" /\ reason = "timeout" -> "Timeout"
                       [] result = "BodyStopping"                   -> "Stopping"
                       [] OTHER                                     -> result
        /\ watchdog' = "none" /\ reason' = "running"
        /\ UNCHANGED <<client, pumpVars, shutdown, handler, channelVars, stopVars, limitVars,
                       fileVars, call, got, reads>>
    BY <1>1 DEF Join, Running, Outside
  <2>2. PumpOrder' /\ Flow' /\ Taken' /\ Cancelled' /\ (Whole' <=> Whole)
    BY <2>1, SinkFrame
  <2>3. \/ result' = result
        \/ result \in {"Stopping", "BodyStopping"} /\ result' \in {"Timeout", "Stopping"}
    BY <2>1
  <2>4. Transferred'
    BY <2>1, <2>2, <2>3 DEF IInv, Transferred, fileVars, pumpVars
  <2>5. TypeOK'
    <3>1. result' \in {"none", "chunk", "end", "ok"} \cup BodyErrors \cup SinkErrors
      BY <2>3 DEF IInv, TypeOK, BodyErrors, SinkErrors
    <3>2. QED
      BY <2>1, <3>1, SMTT(30) DEF IInv, TypeOK, pumpVars, channelVars, stopVars, limitVars, fileVars
  <2>6. QED
    BY <2>2, <2>4, <2>5 DEF IInv
<1>2. CASE Return
  <2>1. /\ reader = "returned" /\ reader' = "idle" /\ call' = NoCall /\ got' = Wake
        /\ result' = "none" /\ staging' = FALSE /\ written' = 0 /\ published' = FALSE
        /\ UNCHANGED <<client, pumpVars, shutdown, handler, channelVars, stopVars, limitVars,
                       watchVars, reads>>
    BY <1>2 DEF Return, Running, Outside
  <2>2. PumpOrder' /\ Flow' /\ Taken' /\ Cancelled'
    BY <2>1, SinkFrame
  <2>3. Transferred'
    BY <2>1 DEF Transferred, NoCall
  <2>4. TypeOK'
    <3>1. /\ call' \in [op : {"none", "read", "read_all", "write_file"},
                        requested : Limits \cup {HardLimit}, from : 0 .. HardLimit]
          /\ got' \in Messages /\ written' \in 0 .. HardLimit
      BY <2>1, BodyAssumption, MessageKinds, SMTT(30) DEF NoCall
    <3>2. staging' \in BOOLEAN /\ published' \in BOOLEAN
      BY <2>1
    <3>3. UNCHANGED <<client, pumpVars, shutdown, handler, channelVars, stopVars, limitVars,
                      watchVars, reads>>
      BY <2>1
    <3>4. reader' = "idle" /\ result' = "none"
      BY <2>1
    <3>5. QED
      BY <3>1, <3>2, <3>3, <3>4, SMTT(30)
      DEF IInv, TypeOK, pumpVars, channelVars, stopVars, limitVars, watchVars
  <2>5. QED
    BY <2>2, <2>3, <2>4 DEF IInv
<1>3. QED
  BY <1>1, <1>2

-----------------------------------------------------------------------------
(* The watchdog and the server.                                            *)

\* A step of another thread that begins a stop, or none: the reader's own
\* state stays as it is.
LEMMA OtherStep ==
  ASSUME IInv,
         UNCHANGED <<client, pumpVars, channelVars, limitVars, readVars, fileVars>>,
         watchdog' \in {"none", "armed", "fired", "stopping", "ended"},
         reason' \in {"running", "timeout", "stopping"}, shutdown' \in BOOLEAN,
         handler' \in {"waiting", "running", "expired", "dropping", "dropped"},
         terminal' = "none" => handler' \notin {"dropping", "dropped"},
         \/ UNCHANGED stopVars
         \/ \E c \in {"watchdog", "server"}, t \in BodyErrors : StopBegin(c, t),
         Cancelled'
  PROVE  IInv'
<1>1. /\ terminal' \in Terminals \cup {"none"} /\ (terminal' = "End" => terminal = "End")
      /\ terminal' = "none" => UNCHANGED <<terminal, control, stop>>
      /\ stop' \in [Caller -> {"idle", "control", "wake"}] /\ UNCHANGED <<control, unseen>>
  <2>1. CASE UNCHANGED stopVars
    BY <2>1 DEF stopVars, IInv, TypeOK
  <2>2. ASSUME NEW c \in {"watchdog", "server"}, NEW t \in BodyErrors, StopBegin(c, t)
        PROVE  /\ terminal' \in Terminals /\ terminal' # "none"
               /\ terminal' = "End" => terminal = "End"
               /\ stop' \in [Caller -> {"idle", "control", "wake"}]
               /\ UNCHANGED <<control, unseen>>
    <3>1. c \in Caller /\ t \in Terminals /\ t # "End"
      BY DEF Caller, Terminals, BodyErrors
    <3>2. QED
      BY <2>2, <3>1, StopFacts DEF IInv
  <2>3. QED
    BY <2>1, <2>2
<1>2. PumpOrder' /\ (Whole' <=> Whole)
  BY PumpKept DEF IInv, limitVars
<1>3. TypeOK'
  BY <1>1, SMTT(30) DEF IInv, TypeOK, pumpVars, channelVars, limitVars, readVars, fileVars
<1>4. Flow'
  <2>1. Position' = Position
    BY DEF Position, limitVars, readVars
  <2>2. QED
    BY <1>1, <2>1, FlowKept DEF IInv, channelVars, limitVars, readVars
<1>5. Taken' /\ Transferred'
  BY <1>1, <1>2, SMTT(30) DEF IInv, Taken, Transferred, pumpVars, limitVars, readVars, fileVars
<1>6. QED
  BY <1>2, <1>3, <1>4, <1>5 DEF IInv

\* The watchdog fires, stops the body, or ends.
LEMMA WatchdogStep ==
  ASSUME IInv, Watchdog
  PROVE  IInv'
<1>1. /\ UNCHANGED <<client, pumpVars, shutdown, handler, channelVars, limitVars, readVars,
                     fileVars>>
      /\ watchdog' \in {"fired", "stopping", "ended"}
      /\ reason' = reason \/ reason' \in {"timeout", "stopping"}
      /\ \/ UNCHANGED stopVars
         \/ \E t \in {"Timeout", "BodyStopping"} : StopBegin("watchdog", t)
  BY DEF Watchdog, Fire, WatchdogStops, WatchdogEnds, Watching, Outside
<1>2. /\ terminal # "none" => terminal' = terminal
      /\ terminal' = "none" => terminal = "none"
      /\ stop'["server"] = stop["server"] /\ UNCHANGED <<control, unseen>>
  <2>1. CASE UNCHANGED stopVars
    BY <2>1 DEF stopVars
  <2>2. ASSUME NEW t \in {"Timeout", "BodyStopping"}, StopBegin("watchdog", t)
        PROVE  /\ terminal # "none" => terminal' = terminal
               /\ terminal' # "none"
               /\ stop'["server"] = stop["server"] /\ UNCHANGED <<control, unseen>>
    BY <2>2, StopFacts DEF IInv, Caller, Terminals, BodyErrors
  <2>3. QED
    BY <1>1, <2>1, <2>2
<1>3. Cancelled'
  BY <1>1, <1>2, CancelledKept DEF IInv, pumpVars
<1>4. terminal' = "none" => handler' \notin {"dropping", "dropped"}
  BY <1>1, <1>2 DEF IInv, Flow
<1>5. /\ UNCHANGED stopVars \/ \E c \in {"watchdog", "server"}, t \in BodyErrors : StopBegin(c, t)
      /\ reason' \in {"running", "timeout", "stopping"}
      /\ shutdown' \in BOOLEAN
      /\ handler' \in {"waiting", "running", "expired", "dropping", "dropped"}
  BY <1>1 DEF BodyErrors, IInv, TypeOK
<1>6. QED
  BY <1>1, <1>3, <1>4, <1>5, OtherStep

\* The handler starts and returns, the last reference goes, and a shutdown is
\* requested.
LEMMA ServerStep ==
  ASSUME IInv, StartHandler \/ Expire \/ DropBody \/ Dropped \/ RequestShutdown
  PROVE  IInv'
<1>1. /\ UNCHANGED <<client, pumpVars, channelVars, limitVars, readVars, fileVars, watchVars>>
      /\ \/ handler' \in {"running", handler} /\ UNCHANGED stopVars
         \/ handler' = "expired" /\ StopBegin("server", "RequestFinished")
         \/ handler' = "dropping" /\ StopBegin("server", "Cancelled")
         \/ /\ handler = "dropping" /\ stop["server"] = "idle"
            /\ handler' = "dropped" /\ UNCHANGED stopVars
  BY DEF StartHandler, Expire, DropBody, Dropped, RequestShutdown, Serving
<1>2. shutdown' \in BOOLEAN
  BY DEF StartHandler, Expire, DropBody, Dropped, RequestShutdown, IInv, TypeOK
<1>3. ASSUME NEW t \in {"RequestFinished", "Cancelled"}, StopBegin("server", t)
      PROVE  /\ terminal # "none" => terminal' = terminal
             /\ terminal' # "none" /\ stop'["server"] = "control"
             /\ UNCHANGED <<control, unseen>>
  BY <1>3, StopFacts DEF IInv, Caller, Terminals, BodyErrors
<1>4. Cancelled'
  <2>1. CASE handler' \in {"running", handler} /\ UNCHANGED stopVars
    BY <1>1, <2>1, CancelledKept DEF IInv, pumpVars, stopVars
  <2>2. CASE handler' = "expired" /\ StopBegin("server", "RequestFinished")
    BY <1>1, <1>3, <2>2, CancelledKept DEF IInv, pumpVars
  <2>3. CASE handler' = "dropping" /\ StopBegin("server", "Cancelled")
    BY <1>1, <1>3, <2>3, CancelledKept DEF IInv, pumpVars
  <2>4. CASE /\ handler = "dropping" /\ stop["server"] = "idle"
             /\ handler' = "dropped" /\ UNCHANGED stopVars
    BY <1>1, <2>4 DEF IInv, Cancelled, pumpVars, stopVars
  <2>5. QED
    BY <1>1, <2>1, <2>2, <2>3, <2>4
<1>5. terminal' = "none" => handler' \notin {"dropping", "dropped"}
  BY <1>1, <1>3 DEF IInv, Flow, stopVars
<1>6. /\ UNCHANGED stopVars \/ \E c \in {"watchdog", "server"}, t \in BodyErrors : StopBegin(c, t)
      /\ handler' \in {"waiting", "running", "expired", "dropping", "dropped"}
  BY <1>1 DEF BodyErrors, IInv, TypeOK
<1>7. /\ watchdog' \in {"none", "armed", "fired", "stopping", "ended"}
      /\ reason' \in {"running", "timeout", "stopping"}
  BY <1>1 DEF watchVars, IInv, TypeOK
<1>8. QED
  BY <1>1, <1>2, <1>4, <1>5, <1>6, <1>7, OtherStep

-----------------------------------------------------------------------------
(* The theorems.                                                           *)

\* register: nothing is on its way.
LEMMA InitHolds == Init => IInv
<1> SUFFICES ASSUME Init PROVE IInv
  OBVIOUS
<1>1. HardLimit \in Nat /\ MaxReads \in Nat /\ BufferedChunks \in Nat
  BY BodyAssumption
<1>2. TypeOK
  <2>1. client \in [state : {"open", "ended", "failed"}, length : Lengths \cup {NoLength}]
    BY DEF Init
  <2>2. /\ unsent \in Seq(Messages) /\ channel \in Seq(Messages)
        /\ Len(channel) + (IF slot = "granted" THEN 1 ELSE 0) <= BufferedChunks
    BY <1>1, SMTT(30) DEF Init
  <2>3. /\ call \in [op : {"none", "read", "read_all", "write_file"},
                     requested : Limits \cup {HardLimit}, from : 0 .. HardLimit]
        /\ got \in Messages /\ stop \in [Caller -> {"idle", "control", "wake"}]
    BY <1>1, MessageKinds, SMTT(30) DEF Init, NoCall
  <2>4. /\ received \in 0 .. HardLimit /\ narrow_limit \in 0 .. HardLimit
        /\ delivered \in 0 .. HardLimit /\ written \in 0 .. HardLimit /\ reads \in 0 .. MaxReads
    BY <1>1, SMTT(30) DEF Init
  <2>5. /\ draining \in BOOLEAN /\ unseen \in BOOLEAN /\ staging \in BOOLEAN
        /\ published \in BOOLEAN /\ shutdown \in BOOLEAN
    BY DEF Init
  <2>6. QED
    BY <2>1, <2>2, <2>3, <2>4, <2>5 DEF Init, TypeOK
<1>3. PumpOrder /\ Taken /\ Cancelled
  BY SMTT(30) DEF Init, PumpOrder, Taken, Cancelled
<1>4. Flow
  <2>1. Position = 0 /\ 0 \in 0 .. HardLimit
    BY <1>1, SMTT(30) DEF Init, Position
  <2>2. Chain(channel, Position, 0) /\ Chain(unsent, 0, received)
    BY <2>1, ChainEmpty DEF Init
  <2>3. QED
    BY <2>1, <2>2, SMTT(30) DEF Init, Flow
<1>5. Transferred
  BY DEF Init, Transferred, NoCall
<1>6. QED
  BY <1>2, <1>3, <1>4, <1>5 DEF IInv

\* Every step of the specification preserves the invariant.
LEMMA StepHolds == IInv /\ [Next]_vars => IInv'
<1> SUFFICES ASSUME IInv, [Next]_vars PROVE IInv'
  OBVIOUS
<1>1. CASE UNCHANGED vars
  <2>1. UNCHANGED <<client, pumpVars, channelVars, stopVars, limitVars, readVars, fileVars,
                    watchVars, shutdown, handler>>
    BY <1>1 DEF vars
  <2>2. Cancelled'
    BY <2>1, CancelledKept DEF IInv, pumpVars, stopVars
  <2>3. terminal' = "none" => handler' \notin {"dropping", "dropped"}
    BY <2>1 DEF IInv, Flow, stopVars
  <2>4. /\ watchdog' \in {"none", "armed", "fired", "stopping", "ended"}
        /\ reason' \in {"running", "timeout", "stopping"}
        /\ shutdown' \in BOOLEAN
        /\ handler' \in {"waiting", "running", "expired", "dropping", "dropped"}
    BY <2>1 DEF watchVars, IInv, TypeOK
  <2>5. QED
    BY <2>1, <2>2, <2>3, <2>4, OtherStep
<1>2. CASE Pump
  BY <1>2, SeeControlStep, ReceiveFrameStep, ReceiveEndStep, SendInterruptedStep, SendStep,
     SendWaitsStep
  DEF Pump
<1>3. CASE Call
  BY <1>3, CallStep DEF Call
<1>4. CASE Reader
  BY <1>4, EnterStep, RecvStep, CheckTerminalStep, TakeStep, SinkStep, ReturnStep DEF Reader
<1>5. CASE \E c \in Caller : Stopping(c)
  BY <1>5, StopControlStep, StopWakeStep DEF Stopping
<1>6. QED
  BY <1>1, <1>2, <1>3, <1>4, <1>5, WatchdogStep, ServerStep DEF Next

\* The invariant holds in every reachable state of the body.
THEOREM Invariance == Spec => []IInv
BY InitHolds, StepHolds, PTL DEF Spec

\* A handler that is told End has seen the client's whole body, and each chunk
\* it takes starts where the last one ended: for every limit, chunk size,
\* channel capacity and client, whichever sends and reads are interrupted.
THEOREM BodyNeverLosesBytes == Spec => []NothingLost
<1>1. IInv => NothingLost
  BY DEF IInv, Taken, Whole, NothingLost
<1>2. QED
  BY <1>1, Invariance, PTL

\* write_file publishes exactly the bytes that were left of a complete body,
\* reports success exactly then, and leaves a staging file only if it says so.
THEOREM PublishesExactly == Spec => []PublishedExactly
<1>1. ASSUME IInv PROVE PublishedExactly
  <2>1. published => call.op = "write_file" /\ Whole /\ call.from + written = received
    BY <1>1 DEF IInv, Transferred
  <2>2. CASE call.op = "write_file"
    BY <1>1, <2>1, <2>2 DEF IInv, Transferred, Whole, PublishedExactly
  <2>3. CASE call.op # "write_file"
    BY <1>1, <2>3 DEF IInv, Transferred, PublishedExactly
  <2>4. QED
    BY <2>2, <2>3
<1>2. QED
  BY <1>1, Invariance, PTL

\* A body that was found too large is never cancelled: the pump drains it to
\* the client's end, whatever stops it afterwards.
THEOREM DrainNeverCancelled == Spec => []DrainKept
<1>1. IInv => DrainKept
  BY DEF IInv, Cancelled, DrainKept
<1>2. QED
  BY <1>1, Invariance, PTL
=============================================================================
