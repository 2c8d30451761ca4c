------------------------- MODULE MCServerLifecycle -------------------------
(* ServerLifecycle with one worker, one waiting place and one connection   *)
(* slot: a queued job, a refused one and a full listener all happen.       *)
EXTENDS ServerLifecycle
=============================================================================
