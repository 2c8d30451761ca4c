----------------------------- MODULE RequestBody -----------------------------
(***************************************************************************)
(* A request's body on its way from the connection to a synchronous Roc    *)
(* handler (request_body.rs) and, with write_file, into a file             *)
(* (body_sink.rs).                                                         *)
(*                                                                         *)
(* Four actors share the body.  The pump is a Tokio task that reads the    *)
(* client's frames and sends chunks into a bounded channel.  The reader is *)
(* the worker thread on which the handler calls read, read_all or          *)
(* write_file.  During write_file a watchdog thread stops the body at a    *)
(* deadline or when the server stops.  The server expires the body when    *)
(* the handler has returned, and the last reference drops it.              *)
(*                                                                         *)
(* Bytes are numbered; a chunk is a range of them.                         *)
(***************************************************************************)
EXTENDS Integers, Sequences, FiniteSets

CONSTANTS
  HardLimit,       \* body_max_bytes
  ChunkBytes,      \* body_chunk_bytes
  BufferedChunks,  \* body_buffered_chunks, the channel's capacity
  FrameBytes,      \* the sizes of frames that a client may send
  Lengths,         \* the Content-Length values a client may declare
  Limits,          \* the limits that handlers pass to a read
  MaxReads         \* bound: how many reads one handler makes

ASSUME BodyAssumption ==
  /\ HardLimit \in Nat /\ ChunkBytes \in Nat \ {0} /\ BufferedChunks \in Nat \ {0}
  /\ FrameBytes \subseteq Nat \ {0} /\ Lengths \subseteq 0 .. HardLimit
  /\ Limits \subseteq Nat /\ MaxReads \in Nat

VARIABLES
  client,      \* [state, length]: the client's stream and the length it declared
  pump,        \* where the pump is: "next", "sending" or "done"
  unsent,      \* the messages the pump has still to send for the current frame
  draining,    \* the pump discards what it receives
  received,    \* bytes the pump has received
  why,         \* why the pump returned
  channel,     \* the messages in the channel
  slot,        \* the pump's send: "none", "waiting" for a permit, or "granted" one
  control,     \* the watch channel's value
  unseen,      \* the pump has not seen the last change of `control`
  terminal,    \* the first terminal state, or "none"
  narrow_limit,
  delivered,
  stop,        \* where each caller of stop() is in it
  reader,      \* where the reader is
  call,        \* [op, requested, from]: the read that is being served
  got,         \* the message the reader has received
  result,      \* what the current transfer into a file came to
  reads,       \* reads made
  staging,     \* the staging file exists
  written,     \* bytes_written of the current transfer
  published,   \* the destination file was created by the current transfer
  watchdog,    \* the watchdog: "none", "armed", "fired", "stopping", "ended"
  reason,      \* watchdog_reason
  shutdown,    \* a shutdown was requested
  handler      \* "waiting", "running", "expired", "dropping" or "dropped"

pumpVars == <<pump, unsent, draining, received, why>>
channelVars == <<channel, slot>>
stopVars == <<control, unseen, terminal, stop>>
limitVars == <<narrow_limit, delivered>>
readVars == <<reader, call, got, result, reads>>
fileVars == <<staging, written, published>>
watchVars == <<watchdog, reason>>
vars == <<client, pumpVars, channelVars, stopVars, limitVars, readVars, fileVars,
          watchVars, shutdown, handler>>

NoLength == -1
NoCall == [op |-> "none", requested |-> HardLimit, from |-> 0]
Caller == {"reader", "watchdog", "server"}

\* "ClientFailed" stands for ClientDisconnected and InvalidBody, "Failed" for
\* every refusal of the file system and for Saturated: none is told apart.
BodyErrors == {"TooLarge", "Timeout", "ClientFailed", "RequestFinished",
               "Cancelled", "BodyStopping"}
SinkErrors == {"Stopping", "Failed", "CleanupFailed"}
Terminals == {"End"} \cup BodyErrors

Chunk(at, len) == [kind |-> "Chunk", at |-> at, len |-> len]
End == [kind |-> "End"]
Error(e) == [kind |-> "Error", error |-> e]
Wake == [kind |-> "Wake"]

Messages ==
  [kind : {"Chunk"}, at : 0 .. HardLimit, len : 1 .. ChunkBytes]
    \cup [kind : {"Error"}, error : BodyErrors] \cup {End, Wake}

\* A frame of n bytes that starts at `at`, split so that no chunk exceeds
\* ChunkBytes.
ChunksOf(at, n) ==
  [i \in 1 .. (n + ChunkBytes - 1) \div ChunkBytes |->
     LET offset == (i - 1) * ChunkBytes
     IN  Chunk(at + offset, IF n - offset < ChunkBytes THEN n - offset ELSE ChunkBytes)]

TypeOK ==
  /\ client \in [state : {"open", "ended", "failed"}, length : Lengths \cup {NoLength}]
  /\ pump \in {"next", "sending", "done"}
  /\ unsent \in Seq(Messages) /\ (pump = "sending" <=> unsent # <<>>)
  /\ draining \in BOOLEAN /\ unseen \in BOOLEAN
  /\ received \in 0 .. HardLimit
  /\ why \in {"running", "ended", "idle", "hard_limit", "cancelled"}
  /\ channel \in Seq(Messages)
  /\ Len(channel) + (IF slot = "granted" THEN 1 ELSE 0) <= BufferedChunks
  /\ slot \in {"none", "waiting", "granted"}
  /\ control \in {"Running", "Drain", "Cancel"}
  /\ terminal \in Terminals \cup {"none"}
  /\ narrow_limit \in 0 .. HardLimit
  /\ delivered \in 0 .. HardLimit
  /\ stop \in [Caller -> {"idle", "control", "wake"}]
  /\ reader \in {"idle", "stage", "loop", "enter", "recv", "got", "take",
                 "write", "publish", "cleanup", "join", "returned"}
  /\ call \in [op : {"none", "read", "read_all", "write_file"},
               requested : Limits \cup {HardLimit}, from : 0 .. HardLimit]
  /\ got \in Messages
  /\ result \in {"none", "chunk", "end", "ok"} \cup BodyErrors \cup SinkErrors
  /\ reads \in 0 .. MaxReads
  /\ written \in 0 .. HardLimit /\ staging \in BOOLEAN
  /\ published \in BOOLEAN /\ shutdown \in BOOLEAN
  /\ watchdog \in {"none", "armed", "fired", "stopping", "ended"}
  /\ reason \in {"running", "timeout", "stopping"}
  /\ handler \in {"waiting", "running", "expired", "dropping", "dropped"}

\* register: the channel is empty, both limits are the hard limit.
Init ==
  /\ client \in [state : {"open"}, length : Lengths \cup {NoLength}]
  /\ pump = "next" /\ unsent = <<>> /\ draining = FALSE /\ received = 0
  /\ why = "running"
  /\ channel = <<>> /\ slot = "none"
  /\ control = "Running" /\ unseen = FALSE /\ terminal = "none"
  /\ stop = [c \in Caller |-> "idle"]
  /\ narrow_limit = HardLimit /\ delivered = 0
  /\ reader = "idle" /\ got = Wake /\ result = "none" /\ reads = 0
  /\ call = NoCall
  /\ staging = FALSE /\ written = 0 /\ published = FALSE
  /\ watchdog = "none" /\ reason = "running"
  /\ shutdown = FALSE /\ handler = "waiting"

-----------------------------------------------------------------------------
(* Tokio's bounded channel: a permit that the receiver frees goes straight to *)
(* the send that waits for one, before that send's task is polled.            *)

Free == BufferedChunks - Len(channel) - (IF slot = "granted" THEN 1 ELSE 0)

Pop ==
  /\ channel # <<>>
  /\ got' = Head(channel)
  /\ channel' = Tail(channel)
  /\ slot' = IF slot = "waiting" THEN "granted" ELSE slot

-----------------------------------------------------------------------------
(* BodyState::stop, in three steps: the first terminal state wins, the pump  *)
(* is told what follows from that one, and a blocked reader is woken.        *)

SetTerminal(t) == terminal' = IF terminal = "none" THEN t ELSE terminal

StopBegin(c, t) ==
  /\ SetTerminal(t)
  /\ stop' = [stop EXCEPT ![c] = "control"]
  /\ UNCHANGED <<control, unseen>>

\* Mutant: the pump is told what this caller's own terminal asks for.
StopControlOwn(c) ==
  /\ stop[c] = "control"
  /\ LET wanted == IF c = "reader" /\ terminal = "TooLarge" THEN "Drain" ELSE "Cancel"
         next   == IF "Cancel" \in {control, wanted} THEN "Cancel" ELSE "Drain"
     IN  control' = next /\ unseen' = (unseen \/ next # control)
  /\ stop' = [stop EXCEPT ![c] = "wake"]
  /\ UNCHANGED <<client, pumpVars, channelVars, terminal, limitVars, readVars,
                 fileVars, watchVars, shutdown, handler>>

StopControl(c) ==
  /\ stop[c] = "control"
  /\ LET wanted == IF terminal = "TooLarge" THEN "Drain" ELSE "Cancel"
         next   == IF "Cancel" \in {control, wanted} THEN "Cancel" ELSE "Drain"
     IN  control' = next /\ unseen' = (unseen \/ next # control)
  /\ stop' = [stop EXCEPT ![c] = "wake"]
  /\ UNCHANGED <<client, pumpVars, channelVars, terminal, limitVars, readVars,
                 fileVars, watchVars, shutdown, handler>>

\* Mutant: the wakeup is queued even if the channel is full.
StopWakeAlways(c) ==
  /\ stop[c] = "wake"
  /\ channel' = Append(channel, Wake)
  /\ stop' = [stop EXCEPT ![c] = "idle"]
  /\ UNCHANGED <<client, pumpVars, slot, control, unseen, terminal, limitVars,
                 readVars, fileVars, watchVars, shutdown, handler>>

\* Mutant: no wakeup is sent.
StopWakeNever(c) ==
  /\ stop[c] = "wake"
  /\ stop' = [stop EXCEPT ![c] = "idle"]
  /\ UNCHANGED <<client, pumpVars, channelVars, control, unseen, terminal, limitVars,
                 readVars, fileVars, watchVars, shutdown, handler>>

\* try_send(Wake): a channel without a free permit is left alone.
StopWake(c) ==
  /\ stop[c] = "wake"
  /\ channel' = IF Free > 0 THEN Append(channel, Wake) ELSE channel
  /\ stop' = [stop EXCEPT ![c] = "idle"]
  /\ UNCHANGED <<client, pumpVars, slot, control, unseen, terminal, limitVars,
                 readVars, fileVars, watchVars, shutdown, handler>>

-----------------------------------------------------------------------------
(* The pump: BodyPump::run and BodyPump::send.  Both selects are biased: a    *)
(* change of `control` is seen before anything else happens.                  *)

Pumping == <<client, limitVars, readVars, fileVars, watchVars, shutdown, handler,
             control, terminal, stop>>

SeeControl ==
  /\ pump = "next" /\ unseen
  /\ unseen' = FALSE
  /\ IF control = "Drain"
     THEN draining' = TRUE /\ UNCHANGED <<pump, why>>
     ELSE pump' = "done" /\ why' = "cancelled" /\ UNCHANGED draining
  /\ UNCHANGED <<Pumping, channelVars, unsent, received>>

\* The pump ends for the reason w, telling the reader with `last` first, unless
\* it is draining.
Last(last, w) ==
  /\ why' = w
  /\ IF draining THEN pump' = "done" /\ UNCHANGED unsent
                 ELSE pump' = "sending" /\ unsent' = <<last>>

ReceiveFrame(n) ==
  /\ pump = "next" /\ ~unseen /\ client.state = "open"
  /\ client.length # NoLength => received + n <= client.length
  /\ IF received + n > HardLimit
     THEN Last(Error("TooLarge"), "hard_limit") /\ UNCHANGED received
     ELSE /\ received' = received + n
          /\ IF draining THEN UNCHANGED <<pump, unsent>>
             ELSE pump' = "sending" /\ unsent' = ChunksOf(received, n)
          /\ UNCHANGED why
  /\ UNCHANGED <<Pumping, channelVars, unseen, draining>>

\* Mutant: a broken connection looks like the end of the body.
ReceiveAnyEnd ==
  /\ pump = "next" /\ ~unseen /\ client.state = "open"
  /\ client' \in {[client EXCEPT !.state = e] : e \in {"ended", "failed"}}
  /\ client'.state = "ended" => client.length \in {NoLength, received}
  /\ Last(End, "ended")
  /\ UNCHANGED <<channelVars, unseen, draining, received, limitVars, readVars,
                 fileVars, watchVars, shutdown, handler, control, terminal, stop>>

ReceiveEnd ==
  /\ pump = "next" /\ ~unseen /\ client.state = "open"
  /\ client' \in {[client EXCEPT !.state = e] : e \in {"ended", "failed"}}
  /\ IF client'.state = "ended"
     THEN client.length \in {NoLength, received} /\ Last(End, "ended")
     ELSE Last(Error("ClientFailed"), "ended")
  /\ UNCHANGED <<channelVars, unseen, draining, received, limitVars, readVars,
                 fileVars, watchVars, shutdown, handler, control, terminal, stop>>

\* The idle timeout is reported even while draining.
IdleTimeout ==
  /\ pump = "next" /\ ~unseen
  /\ pump' = "sending" /\ unsent' = <<Error("Timeout")>> /\ why' = "idle"
  /\ UNCHANGED <<Pumping, channelVars, unseen, draining, received>>

\* A send, and the permit it has or waits for, is abandoned when `control`
\* changes or the body is gone.
SendInterrupted ==
  /\ pump = "sending" /\ (unseen \/ handler = "dropped")
  /\ unseen' = FALSE /\ unsent' = <<>> /\ slot' = "none"
  /\ IF Head(unsent).kind # "Chunk"
     THEN pump' = "done" /\ UNCHANGED <<why, draining>>
     ELSE IF control = "Drain"
          THEN pump' = "next" /\ draining' = TRUE /\ UNCHANGED why
          ELSE pump' = "done" /\ why' = "cancelled" /\ UNCHANGED draining
  /\ UNCHANGED <<Pumping, channel, received>>

Send ==
  /\ pump = "sending" /\ ~unseen /\ handler # "dropped"
  /\ slot = "granted" \/ Free > 0
  /\ channel' = Append(channel, Head(unsent))
  /\ slot' = "none"
  /\ unsent' = Tail(unsent)
  /\ pump' = IF Tail(unsent) # <<>> THEN "sending"
             ELSE IF Head(unsent).kind = "Chunk" THEN "next" ELSE "done"
  /\ UNCHANGED <<Pumping, unseen, draining, received, why>>

SendWaits ==
  /\ pump = "sending" /\ ~unseen /\ handler # "dropped"
  /\ slot = "none" /\ Free = 0
  /\ slot' = "waiting"
  /\ UNCHANGED <<Pumping, pumpVars, channel, unseen>>

-----------------------------------------------------------------------------
(* The reader.  Its lock is free: a handler, and later the transitions of a   *)
(* stream that kept the body, call from one thread at a time.                 *)

Outside == <<client, pumpVars, shutdown, handler>>

Calls(op, limit) ==
  /\ handler \in {"running", "expired"}
  /\ reader = "idle" /\ \A c \in Caller : stop[c] = "idle"
  /\ reads < MaxReads
  /\ reads' = reads + 1
  /\ call' = [op |-> op, requested |-> limit, from |-> delivered]
  /\ UNCHANGED <<Outside, channelVars, got, delivered, fileVars>>

\* effective_limit: a handler can lower the limit, never raise it.
Narrowed(limit) == IF limit < narrow_limit THEN limit ELSE narrow_limit

Read(limit) ==
  /\ Calls("read", limit)
  /\ reader' = "enter" /\ result' = "none"
  /\ UNCHANGED <<stopVars, narrow_limit, watchVars>>

\* What a read does that finds the body over its limit already.
OverLimit ==
  /\ StopBegin("reader", "TooLarge")
  /\ reader' = "returned" /\ result' = IF call'.op = "write_file" THEN "TooLarge" ELSE "none"

ReadAll(limit) ==
  /\ Calls("read_all", limit)
  /\ narrow_limit' = Narrowed(limit)
  /\ IF delivered > Narrowed(limit) THEN OverLimit
     ELSE reader' = "enter" /\ result' = "none" /\ UNCHANGED stopVars
  /\ UNCHANGED watchVars

WriteFile(limit) ==
  /\ Calls("write_file", limit)
  /\ IF shutdown
     THEN /\ reader' = "returned" /\ result' = "Stopping"
          /\ UNCHANGED <<stopVars, narrow_limit, watchVars>>
     ELSE /\ narrow_limit' = Narrowed(limit)
          /\ IF delivered > Narrowed(limit) \/ client.length > Narrowed(limit)
             THEN OverLimit /\ UNCHANGED watchVars
             ELSE /\ UNCHANGED stopVars
                  /\ \/ /\ reader' = "stage" /\ result' = "none"
                        /\ watchdog' = "armed" /\ reason' = "running"
                     \/ /\ reader' = "returned" /\ result' = "Failed"
                        /\ UNCHANGED watchVars

\* Where a call goes on with what receive_with_limit returned.
Returned(r) ==
  /\ result' = IF call.op = "write_file" THEN r ELSE "none"
  /\ reader' = CASE call.op = "read"                  -> "returned"
                 [] call.op = "read_all"              -> IF r = "chunk" THEN "enter" ELSE "returned"
                 [] call.op = "write_file"            -> IF r = "chunk" THEN "write"
                                                         ELSE IF r = "end" THEN "publish"
                                                         ELSE "cleanup"

Terminal == IF terminal = "End" THEN "end" ELSE terminal

Running(at) == reader = at /\ stop["reader"] = "idle"
Reading == <<Outside, fileVars, watchVars, call, reads>>

Enter ==
  /\ Running("enter")
  /\ IF terminal # "none" THEN Returned(Terminal) /\ UNCHANGED <<stopVars, narrow_limit>>
     ELSE /\ narrow_limit' = Narrowed(call.requested)
          /\ IF delivered > narrow_limit'
             THEN StopBegin("reader", "TooLarge") /\ Returned("TooLarge")
             ELSE reader' = "recv" /\ UNCHANGED <<result, stopVars>>
  /\ UNCHANGED <<Reading, channelVars, got, delivered>>

\* blocking_recv.  The channel never closes under a reader: the body itself
\* holds a sender.
Recv ==
  /\ Running("recv") /\ Pop
  /\ reader' = "got"
  /\ UNCHANGED <<Reading, stopVars, limitVars, result>>

CheckTerminal ==
  /\ Running("got")
  /\ IF terminal # "none" THEN Returned(Terminal)
                          ELSE reader' = "take" /\ UNCHANGED result
  /\ UNCHANGED <<Reading, channelVars, stopVars, limitVars, got>>

TakeChunk ==
  /\ got.kind = "Chunk"
  /\ IF delivered + got.len > narrow_limit
     THEN StopBegin("reader", "TooLarge") /\ Returned("TooLarge") /\ UNCHANGED delivered
     ELSE delivered' = delivered + got.len /\ Returned("chunk") /\ UNCHANGED stopVars

TakeLast ==
  /\ UNCHANGED delivered
  /\ CASE got.kind = "End"   -> /\ SetTerminal("End") /\ Returned("end")
                                /\ UNCHANGED <<control, unseen, stop>>
       [] got.kind = "Error" -> StopBegin("reader", got.error) /\ Returned(got.error)
       [] got.kind = "Wake"  -> reader' = "recv" /\ UNCHANGED <<result, stopVars>>

Take ==
  /\ Running("take")
  /\ IF got.kind = "Chunk" THEN TakeChunk ELSE TakeLast
  /\ UNCHANGED <<Reading, channelVars, narrow_limit, got>>

-----------------------------------------------------------------------------
(* BodySinkService::write_file, between a call's start and the join of its   *)
(* watchdog.                                                                 *)

stopping == reason # "running" \/ shutdown

Sinking == <<Outside, channelVars, stopVars, limitVars, watchVars, call, got, reads>>

\* The permit, the directories and the staging file may each be refused.
Stage ==
  /\ Running("stage")
  /\ \/ /\ stopping
        /\ reader' = "join" /\ result' = "Stopping" /\ UNCHANGED staging
     \/ /\ ~stopping
        /\ reader' = "join" /\ result' = "Failed"
        /\ UNCHANGED staging
     \/ /\ ~stopping
        /\ reader' = "loop" /\ staging' = TRUE /\ UNCHANGED result
  /\ UNCHANGED <<Sinking, written, published>>

Loop ==
  /\ Running("loop")
  /\ IF stopping THEN reader' = "cleanup" /\ result' = "Stopping"
                 ELSE reader' = "enter" /\ UNCHANGED result
  /\ UNCHANGED <<Sinking, fileVars>>

\* Mutant: a failed write is ignored.
WriteIgnoringErrors ==
  /\ Running("write")
  /\ reader' = "loop"
  /\ written' \in {written, written + got.len}
  /\ UNCHANGED <<Sinking, staging, published, result>>

Write ==
  /\ Running("write")
  /\ \/ reader' = "loop" /\ written' = written + got.len /\ UNCHANGED result
     \/ reader' = "cleanup" /\ result' = "Failed" /\ UNCHANGED written
  /\ UNCHANGED <<Sinking, staging, published>>

Publish ==
  /\ Running("publish")
  /\ reader' = "cleanup"
  /\ \/ stopping /\ result' = "Stopping" /\ UNCHANGED published
     \/ ~stopping /\ result' = "Failed" /\ UNCHANGED published
     \/ ~stopping /\ result' = "ok" /\ published' = TRUE
  /\ UNCHANGED <<Sinking, staging, written>>

\* If the staging file cannot be removed, its drop tries once more.
Cleanup ==
  /\ Running("cleanup")
  /\ reader' = "join"
  /\ \/ staging' = FALSE /\ UNCHANGED result
     \/ staging' \in BOOLEAN /\ result' = "CleanupFailed"
  /\ UNCHANGED <<Sinking, written, published>>

Join ==
  /\ Running("join") /\ watchdog = "ended"
  /\ reader' = "returned"
  /\ result' = CASE result = "Stopping" /\ reason = "timeout" -> "Timeout"
                 [] result = "BodyStopping"                   -> "Stopping"
                 [] OTHER                                     -> result
  /\ watchdog' = "none" /\ reason' = "running"
  /\ UNCHANGED <<Outside, channelVars, stopVars, limitVars, fileVars, call, got,
                 reads>>

\* The call returns to Roc, and its locals are gone.
Return ==
  /\ Running("returned")
  /\ reader' = "idle"
  /\ call' = NoCall /\ got' = Wake /\ result' = "none"
  /\ staging' = FALSE /\ written' = 0 /\ published' = FALSE
  /\ UNCHANGED <<Outside, channelVars, stopVars, limitVars, watchVars, reads>>

-----------------------------------------------------------------------------
(* The watchdog thread of write_file.                                        *)

Watching == <<Outside, channelVars, limitVars, readVars, fileVars>>

\* A shutdown that comes after the watchdog's look at it leaves the deadline.
Fire ==
  /\ watchdog = "armed"
  /\ watchdog' = "fired"
  /\ reason' \in {"timeout"} \cup (IF shutdown THEN {"stopping"} ELSE {})
  /\ UNCHANGED <<Watching, stopVars>>

WatchdogStops ==
  /\ watchdog = "fired"
  /\ watchdog' = "stopping"
  /\ StopBegin("watchdog", IF reason = "timeout" THEN "Timeout" ELSE "BodyStopping")
  /\ UNCHANGED <<Watching, reason>>

\* It ends when its stop() is done, or when the transfer is completed.
WatchdogEnds ==
  /\ \/ watchdog = "stopping" /\ stop["watchdog"] = "idle"
     \/ watchdog = "armed" /\ reader = "join"
  /\ watchdog' = "ended"
  /\ UNCHANGED <<Watching, stopVars, reason>>

-----------------------------------------------------------------------------
(* The server.                                                               *)

Serving == <<client, pumpVars, channelVars, limitVars, readVars, fileVars, watchVars>>

StartHandler ==
  /\ handler = "waiting"
  /\ handler' = "running"
  /\ UNCHANGED <<Serving, stopVars, shutdown>>

\* BodyHandle::expire, when the handler has returned.
Expire ==
  /\ handler = "running" /\ Running("idle")
  /\ handler' = "expired"
  /\ StopBegin("server", "RequestFinished")
  /\ UNCHANGED <<Serving, shutdown>>

\* The last reference goes: that of a job that never ran, of the server, or of
\* a stream.
DropBody ==
  /\ handler \in {"waiting", "expired"}
  /\ Running("idle") /\ stop["server"] = "idle"
  /\ handler' = "dropping"
  /\ StopBegin("server", "Cancelled")
  /\ UNCHANGED <<Serving, shutdown>>

Dropped ==
  /\ handler = "dropping" /\ stop["server"] = "idle"
  /\ handler' = "dropped"
  /\ UNCHANGED <<Serving, stopVars, shutdown>>

RequestShutdown ==
  /\ ~shutdown
  /\ shutdown' = TRUE
  /\ UNCHANGED <<Serving, stopVars, handler>>

-----------------------------------------------------------------------------
Pump ==
  \/ SeeControl \/ (\E n \in FrameBytes : ReceiveFrame(n)) \/ ReceiveEnd
  \/ IdleTimeout \/ SendInterrupted \/ Send \/ SendWaits

Stopping(c) == StopControl(c) \/ StopWake(c)

Call == \E limit \in Limits : Read(limit) \/ ReadAll(limit) \/ WriteFile(limit)

Reader ==
  \/ Enter \/ Recv \/ CheckTerminal \/ Take
  \/ Stage \/ Loop \/ Write \/ Publish \/ Cleanup \/ Join \/ Return

Watchdog == Fire \/ WatchdogStops \/ WatchdogEnds

Next ==
  \/ Pump \/ Call \/ Reader \/ Watchdog
  \/ \E c \in Caller : Stopping(c)
  \/ StartHandler \/ Expire \/ DropBody \/ Dropped \/ RequestShutdown

Spec == Init /\ [][Next]_vars

\* The reader's and the watchdog's threads run, the deadline passes, Tokio polls
\* the pump, and the pump's idle timer expires.  The client may send nothing and
\* the handler may keep the body.
Fairness ==
  /\ WF_vars(Pump) /\ WF_vars(Reader) /\ WF_vars(Watchdog)
  /\ \A c \in Caller : WF_vars(Stopping(c))

FairSpec == Spec /\ Fairness

-----------------------------------------------------------------------------
(* Properties.                                                               *)

\* A handler that is told End has seen the client's whole body: no chunk was
\* lost, repeated or reordered between pump and reader, whichever sends were
\* interrupted, and the client did end the body.
NothingLost ==
  /\ TypeOK
  /\ reader = "take" /\ got.kind = "Chunk" => got.at = delivered
  /\ terminal = "End" => client.state = "ended" /\ delivered = received

\* write_file creates the destination only with all the bytes that were left of
\* a complete body, reports success exactly for a transfer it published, and
\* leaves a staging file only if it says so, wherever the watchdog, a shutdown
\* or a file-system error strikes.
PublishedExactly ==
  /\ published => client.state = "ended" /\ call.from + written = received
  /\ reader = "returned" =>
       /\ result = "ok" => published
       /\ published => result \in {"ok", "CleanupFailed"}
       /\ staging => result = "CleanupFailed"

\* A body that a read found too large is drained, so that the connection can
\* carry the response and the next request: neither the handler's return, nor
\* the drop of the body, nor a watchdog makes the pump give up before the client
\* ends, fails, idles or passes the hard limit.
DrainKept == pump = "done" /\ terminal = "TooLarge" => why # "cancelled"

\* stop() wakes a reader: "If a reader is blocked on an empty channel this wakes
\* it. A full channel means the reader can already make progress".  So once the
\* body is stopped and the pump is gone, a reader that waits finds a message.
StopWakesReader ==
  /\ reader = "recv" /\ terminal # "none"
  /\ \A c \in Caller : stop[c] = "idle"
  /\ pump = "done"
  => channel # <<>>

\* Every read returns: the client's bytes or end, the idle timeout or the
\* watchdog reach a reader that waits.
ReaderReturns == reader # "idle" ~> reader = "idle"

=============================================================================
