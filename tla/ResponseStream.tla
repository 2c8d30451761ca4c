--------------------------- MODULE ResponseStream ---------------------------
(***************************************************************************)
(* response_body.rs and send_h2_response of http_server.rs: one streamed   *)
(* (SSE) response, from its source through an optional Brotli encoder into *)
(* the fixed frames of a ResponseFramePool and on to HTTP/2.               *)
(*                                                                         *)
(* Bytes are counted in units.  The encoder (external) keeps units back,   *)
(* queues output and adds a tail when it finishes; in the bounded mode its *)
(* operations run as jobs on the Brotli executor's threads, each owning    *)
(* the output reservation meanwhile.  The pool's lock, the job, h2's queue *)
(* and the body are touched by different tasks, so each step of the loop   *)
(* in poll_frame is an action of its own.                                  *)
(***************************************************************************)
EXTENDS Naturals, Sequences, SequencesExt

CONSTANTS
    MaxSlots,           \* frames of the pool
    FrameBytes,         \* capacity of a frame, in units
    MaxItem,            \* max_item_bytes
    Items               \* how many items the source has

VARIABLES
    slots,              \* the pool's size
    free, reserved, transport, waiter, \* PoolState
    mode,               \* "identity", "inline" or "bounded"
    phase, hold,        \* SseBody: its phase; whether it holds a reservation
    item, offset,       \* length of the current item and units consumed of it
    encoder,            \* units kept back and queued; whether the tail is out
    job, step,          \* BrotliJob, and the completed encoder step
    outcome,            \* SseLifecycle: "live", "finished", "failed", "cancelled"
    left, outstanding,  \* the source: items left; one not acknowledged yet
    polling, sender,    \* poll_frame is running; where send_h2_response waits
    frame, queue,       \* the frame the sender holds; h2's queue of frames
    acked, emitted, lost \* units: of acknowledged items, framed, never sent

vars == <<slots, free, reserved, transport, waiter, mode, phase, hold, item, offset, encoder,
          job, step, outcome, left, outstanding, polling, sender, frame, queue,
          acked, emitted, lost>>
pool == <<free, reserved, transport, waiter>>
codec == <<encoder, job, step>>
source == <<left, outstanding>>
fixed == <<slots, mode>>

NoStep == [out |-> 0, complete |-> FALSE]

Init ==
    /\ slots \in 1 .. MaxSlots
    /\ free = slots /\ reserved = 0 /\ transport = 0 /\ waiter = FALSE
    /\ mode \in {"identity", "inline", "bounded"}
    /\ phase = "PollSource" /\ hold = FALSE /\ item = 0 /\ offset = 0
    /\ encoder = [kept |-> 0, queued |-> 0, tail |-> FALSE]
    /\ job = "none" /\ step = NoStep
    /\ outcome = "live" /\ left = Items /\ outstanding = FALSE
    /\ polling = TRUE /\ sender = "frame" /\ frame = 0 /\ queue = <<>>
    /\ acked = 0 /\ emitted = 0 /\ lost = 0

-----------------------------------------------------------------------------
(* ResponseFramePool *)

\* The waiter is not woken.
release_quietly(r, t) ==
    /\ free' = free + r + t
    /\ reserved' = reserved - r
    /\ transport' = transport - t
    /\ UNCHANGED waiter

\* r reserved and t committed frames come back; a waiter is woken.
release(r, t) ==
    /\ free' = free + r + t
    /\ reserved' = reserved - r
    /\ transport' = transport - t
    /\ waiter' = (waiter /\ r + t = 0)

\* poll_frame runs again when the body's waker is called.
Woken(wake) == polling' = (polling \/ (wake /\ sender = "frame"))

poll_reserve ==
    /\ polling /\ phase # "Done" /\ ~hold /\ job = "none"
    /\ IF free > 0
       THEN /\ free' = free - 1 /\ reserved' = reserved + 1
            /\ hold' = TRUE
            /\ UNCHANGED <<waiter, polling>>
       ELSE /\ waiter' = TRUE /\ polling' = FALSE
            /\ UNCHANGED <<free, reserved, hold>>
    /\ UNCHANGED <<fixed, transport, phase, item, offset, codec, outcome, source, sender,
                   frame, queue, acked, emitted, lost>>

-----------------------------------------------------------------------------
(* SseBody: the source *)

\* finish_normally, fail and cancel: what the body owns is dropped.  A job that
\* runs keeps its reservation until its worker is done with it.
Done(result) ==
    /\ phase' = "Done" /\ outcome' = result
    /\ hold' = FALSE /\ item' = 0 /\ offset' = 0
    /\ job' = CASE job = "running" -> "abandoned" [] job = "ready" -> "none" [] OTHER -> job

Held == IF hold \/ job = "ready" THEN 1 ELSE 0

\* The sender gives up, dropping the body and the frame in its hand.
GiveUp ==
    /\ sender' = "done" /\ polling' = FALSE /\ frame' = 0
    /\ lost' = lost + frame
    /\ IF phase = "Done"
       THEN /\ release(0, IF frame > 0 THEN 1 ELSE 0)
            /\ UNCHANGED <<phase, outcome, hold, item, offset, job>>
       ELSE release(Held, IF frame > 0 THEN 1 ELSE 0) /\ Done("cancelled")

\* An item is taken if it is within the limit.
PollItem ==
    /\ polling /\ phase = "PollSource" /\ hold /\ left > 0
    /\ \E n \in 0 .. MaxItem :
          /\ left' = left - 1 /\ outstanding' = TRUE
          /\ item' = n /\ offset' = 0
          /\ phase' = "Process"
    /\ UNCHANGED <<fixed, pool, hold, codec, outcome, polling, sender, frame, queue,
                   acked, emitted, lost>>

\* An item that is too long, or an error of the source, fails the response.
PollItemFails ==
    /\ polling /\ phase = "PollSource" /\ hold
    /\ release(1, 0)
    /\ Done("failed")
    /\ sender' = "done" /\ polling' = FALSE
    /\ UNCHANGED <<fixed, encoder, step, source, frame, queue, acked, emitted, lost>>

\* End: an encoder has its tail to write; without one the response is finished.
PollItemEnd ==
    /\ polling /\ phase = "PollSource" /\ hold /\ left = 0
    /\ IF mode = "identity"
       THEN release(1, 0) /\ Done("finished")
       ELSE phase' = "Finish" /\ UNCHANGED <<pool, outcome, hold, item, offset, job>>
    /\ UNCHANGED <<fixed, encoder, step, source, polling, sender, frame, queue, acked,
                   emitted, lost>>

\* Parked and Advancing: the source will wake the body.  A parked one gives its
\* reservation back, one that is advancing keeps it.
PollItemPending ==
    /\ polling /\ phase = "PollSource" /\ hold
    /\ \/ release(1, 0) /\ hold' = FALSE
       \/ UNCHANGED <<pool, hold>>
    /\ polling' = FALSE
    /\ UNCHANGED <<fixed, phase, item, offset, codec, outcome, source, sender, frame, queue,
                   acked, emitted, lost>>

SourceWakes ==
    /\ phase = "PollSource" /\ sender = "frame" /\ ~polling /\ ~waiter
    /\ polling' = TRUE
    /\ UNCHANGED <<fixed, pool, phase, hold, item, offset, codec, outcome, source, sender,
                   frame, queue, acked, emitted, lost>>

-----------------------------------------------------------------------------
(* SseBody: Process, Flush and Finish *)

\* acknowledge_item: the item is done with, and the source may produce the next.
acknowledge_item ==
    /\ item' = 0 /\ offset' = 0 /\ phase' = "PollSource"
    /\ outstanding' = FALSE
    /\ acked' = acked + item

\* The end of one step with reservation in hand: an empty frame is given back
\* and the loop goes on, any other is committed and handed to the sender.
Commit(out) ==
    /\ emitted' = emitted + out
    /\ IF out = 0
       THEN release(1, 0) /\ UNCHANGED <<polling, sender, frame>>
       ELSE /\ reserved' = reserved - 1 /\ transport' = transport + 1
            /\ UNCHANGED <<free, waiter>>
            /\ polling' = FALSE /\ sender' = "capacity" /\ frame' = out
    /\ UNCHANGED <<fixed, left, queue, lost>>

Advance(complete) ==
    CASE phase = "Process" /\ complete ->
            /\ phase' = "Flush"
            /\ UNCHANGED <<item, outcome, outstanding, acked>>
      [] phase = "Flush" /\ complete -> acknowledge_item /\ UNCHANGED outcome
      [] phase = "Finish" /\ complete ->
            /\ phase' = "Done" /\ outcome' = "finished" /\ item' = 0 /\ offset' = 0
            /\ UNCHANGED <<outstanding, acked>>
      [] OTHER -> UNCHANGED <<phase, outcome, item, outstanding, acked>>

\* Without an encoder the units are copied, and the item is acknowledged with
\* its last unit.
CopyIdentity ==
    /\ polling /\ phase = "Process" /\ mode = "identity" /\ hold
    /\ LET count == IF item - offset < FrameBytes THEN item - offset ELSE FrameBytes IN
       /\ Commit(count)
       /\ IF offset + count = item
          THEN acknowledge_item
          ELSE offset' = offset + count /\ UNCHANGED <<phase, item, outstanding, acked>>
    /\ hold' = FALSE
    /\ UNCHANGED <<codec, outcome>>

\* Does not ask whether the encoder has more output.
EncoderStepHasty(used, moved) ==
    LET kept == encoder.kept + used
        tail == phase = "Finish" /\ ~encoder.tail
        all == phase \in {"Flush", "Finish"}
        ready == encoder.queued + (IF all THEN kept ELSE moved) + (IF tail THEN 1 ELSE 0)
        out == IF ready < FrameBytes THEN ready ELSE FrameBytes
    IN [encoder |-> [kept |-> IF all THEN 0 ELSE kept - moved, queued |-> ready - out, tail |-> TRUE],
        step |-> [out |-> out, complete |-> phase = "Process" => offset + used = item]]

\* brotli_operation_step: compress_stream takes `used` units of input, turns
\* `moved` of what it keeps into output and writes as much as fits.  Flush and
\* Finish turn all of it into output; Finish adds the tail.
EncoderStep(used, moved) ==
    LET kept == encoder.kept + used
        tail == phase = "Finish" /\ ~encoder.tail
        all == phase \in {"Flush", "Finish"}
        ready == encoder.queued + (IF all THEN kept ELSE moved) + (IF tail THEN 1 ELSE 0)
        out == IF ready < FrameBytes THEN ready ELSE FrameBytes
    IN [encoder |-> [kept |-> IF all THEN 0 ELSE kept - moved,
                     queued |-> ready - out,
                     tail |-> encoder.tail \/ tail],
        step |-> [out |-> out,
                  complete |-> ready = out /\ (phase = "Process" => offset + used = item)]]

\* The encoder always gets somewhere: it takes input, writes or is complete.
EncoderSteps ==
    LET all == IF phase = "Process" THEN item - offset ELSE 0 IN
    {s \in {[used |-> u, result |-> EncoderStep(u, m)] :
            u \in 0 .. all, m \in 0 .. encoder.kept + all} :
        /\ s.result.encoder.kept \in Nat
        /\ s.used > 0 \/ s.result.step.out > 0 \/ s.result.step.complete}

\* An encoder of the body's own runs inside poll_frame.
EncodeInline ==
    /\ polling /\ phase \in {"Process", "Flush", "Finish"} /\ mode = "inline" /\ hold
    /\ \E s \in EncoderSteps :
          /\ encoder' = s.result.encoder
          /\ Commit(s.result.step.out)
          /\ Advance(s.result.step.complete)
          /\ (phase = "Process" \/ ~s.result.step.complete) => offset' = offset + s.used
    /\ hold' = FALSE
    /\ UNCHANGED <<job, step>>

\* poll_bounded_operation: the reservation goes with the job.
SubmitJob ==
    /\ polling /\ phase \in {"Process", "Flush", "Finish"} /\ mode = "bounded"
    /\ hold /\ job = "none"
    /\ hold' = FALSE
    /\ job' = "running"
    /\ UNCHANGED <<fixed, pool, phase, item, offset, encoder, step, outcome, source, polling,
                   sender, frame, queue, acked, emitted, lost>>

PollJobPending ==
    /\ polling /\ job = "running"
    /\ polling' = FALSE
    /\ UNCHANGED <<fixed, pool, phase, hold, item, offset, codec, outcome, source, sender,
                   frame, queue, acked, emitted, lost>>

PollJobReady ==
    /\ polling /\ job = "ready"
    /\ job' = "none" /\ step' = NoStep
    /\ Commit(step.out)
    /\ Advance(step.complete)
    /\ (phase = "Process" \/ ~step.complete) => UNCHANGED offset
    /\ UNCHANGED <<hold, encoder>>

\* A submission that is refused, or a step that fails, fails the response.
EncodingFails ==
    /\ polling /\ phase \in {"Process", "Flush", "Finish"} /\ mode # "identity"
    /\ hold \/ job = "ready"
    /\ release(1, 0)
    /\ Done("failed")
    /\ step' = NoStep
    /\ sender' = "done" /\ polling' = FALSE
    /\ UNCHANGED <<fixed, encoder, source, frame, queue, acked, emitted, lost>>

\* The worker finishes its job, for the body or for nobody.
WorkerFinishes ==
    /\ \/ /\ job = "running"
          /\ \E s \in EncoderSteps :
                encoder' = s.result.encoder /\ step' = s.result.step /\ offset' = offset + s.used
          /\ job' = "ready"
          /\ Woken(TRUE)
          /\ UNCHANGED pool
       \/ /\ job = "abandoned"
          /\ job' = "none"
          /\ release(1, 0)
          /\ UNCHANGED <<encoder, step, offset, polling>>
    /\ UNCHANGED <<fixed, phase, hold, item, outcome, source, sender, frame, queue, acked,
                   emitted, lost>>

-----------------------------------------------------------------------------
(* send_h2_response *)

\* A positive grant sends the frame; it ends the stream if the body is done.
Granted ==
    /\ sender = "capacity"
    /\ queue' = Append(queue, frame)
    /\ frame' = 0
    /\ sender' = IF phase = "Done" THEN "done" ELSE "frame"
    /\ polling' = (sender' = "frame")
    /\ UNCHANGED <<fixed, pool, phase, hold, item, offset, codec, outcome, source, acked,
                   emitted, lost>>

\* A grant of zero: the loop continues with the next frame.
GrantedZero ==
    /\ sender = "capacity"
    /\ release(0, 1)
    /\ lost' = lost + frame
    /\ frame' = 0
    /\ sender' = "frame" /\ polling' = TRUE
    /\ UNCHANGED <<fixed, phase, hold, item, offset, codec, outcome, source, queue, acked,
                   emitted>>

\* The body has no more frames.
SendEnd ==
    /\ polling /\ phase = "Done"
    /\ sender' = "done" /\ polling' = FALSE
    /\ UNCHANGED <<fixed, pool, phase, hold, item, offset, codec, outcome, source, frame,
                   queue, acked, emitted, lost>>

\* The deadline passes without progress, or h2 reports an error.
SenderFails ==
    /\ sender # "done" /\ ~polling
    /\ GiveUp
    /\ UNCHANGED <<fixed, encoder, step, source, queue, acked, emitted>>

\* The connection's task writes a frame and drops it.
FrameWritten ==
    /\ queue # <<>>
    /\ queue' = Tail(queue)
    /\ release(0, 1)
    /\ Woken(waiter)
    /\ UNCHANGED <<fixed, phase, hold, item, offset, codec, outcome, source, sender, frame,
                   acked, emitted, lost>>

\* The stream is reset or the connection is lost: h2 drops what it queued.
StreamReset ==
    /\ queue # <<>>
    /\ lost' = lost + FoldSeq(LAMBDA n, sum : n + sum, 0, queue)
    /\ queue' = <<>>
    /\ release(0, Len(queue))
    /\ Woken(waiter)
    /\ UNCHANGED <<fixed, phase, hold, item, offset, codec, outcome, source, sender, frame,
                   acked, emitted>>

Next ==
    \/ poll_reserve \/ PollItem \/ PollItemFails \/ PollItemEnd \/ PollItemPending \/ SourceWakes
    \/ CopyIdentity \/ EncodeInline \/ SubmitJob \/ PollJobPending \/ PollJobReady
    \/ EncodingFails \/ WorkerFinishes
    \/ Granted \/ GrantedZero \/ SendEnd \/ SenderFails \/ FrameWritten \/ StreamReset

Spec == Init /\ [][Next]_vars
-----------------------------------------------------------------------------
(* Properties *)

\* The shape of the state.
TypeOK ==
    /\ free \in 0 .. slots /\ reserved \in 0 .. slots /\ transport \in 0 .. slots
    /\ phase \in {"PollSource", "Process", "Flush", "Finish", "Done"}
    /\ job \in {"none", "running", "ready", "abandoned"}
    /\ outcome \in {"live", "finished", "failed", "cancelled"}
    /\ sender \in {"frame", "capacity", "done"}
    /\ offset \in 0 .. item /\ item \in 0 .. MaxItem

\* Every frame of the pool is free, reserved by the body or by its job, or with
\* the transport; a response that is over holds none but its worker's.
FramesAccounted ==
    /\ free + reserved + transport = slots
    /\ reserved = (IF hold THEN 1 ELSE 0) + (IF job = "none" THEN 0 ELSE 1)
    /\ transport = Len(queue) + (IF frame > 0 THEN 1 ELSE 0)
    /\ sender = "done" => phase = "Done" /\ ~hold /\ job \in {"none", "abandoned"} /\ frame = 0

\* The source hears that an item is drained only when every unit of it has been
\* framed, and a response that finishes has framed all of them and the tail.
AckedOnlyWhenFramed ==
    /\ acked <= emitted
    /\ outcome = "finished" =>
          /\ ~outstanding
          /\ emitted = acked + (IF mode = "identity" THEN 0 ELSE 1)

\* A body that waits for a frame is woken by the one that is returned.
FrameWaiterNotStranded == waiter => free = 0 /\ ~polling
=============================================================================
