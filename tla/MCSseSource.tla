---------------------------- MODULE MCSseSource ----------------------------
(* Two streams on one worker with one waiting place: one transition runs   *)
(* or publishes while the other stream's waits, times out or is cancelled. *)
EXTENDS SseSource
=============================================================================
