---- MODULE MCRequestBody ----
(* Frames of two bytes, a hard limit of three, and two reads. *)
EXTENDS RequestBody

====
