------------------------------ MODULE Commands ------------------------------
(***************************************************************************)
(* cmd.rs: one command under supervision.  The child leads a process group *)
(* and may start descendants, which inherit its streams and may leave the  *)
(* group.  Two threads read the captured streams up to their limits; the   *)
(* supervisor polls the child and the readers until the deadline, kills    *)
(* what is left of the group, and joins the readers.                       *)
(*                                                                         *)
(* The child, its descendants and the operating system are modelled from   *)
(* how cmd.rs uses them.  Admission is in BoundedGate.                     *)
(***************************************************************************)
EXTENDS Naturals, FiniteSets, Sequences

CONSTANT Descendants    \* processes that the child or another one may start

Streams == {"stdout", "stderr"}

VARIABLES
    mode,               \* "exit_code" or "output"
    pc,                 \* the supervisor
    child,              \* "absent", "running", "exited" or "reaped"
    descendant,         \* each descendant: "none", in the "group", out of it
                        \* with the streams ("left") or without ("closed"), "gone"
    reader,             \* each reader thread: "absent", "reading" or "done"
    messages,           \* what the readers sent
    status,             \* try_wait has returned the exit status
    output,             \* streams received in full
    result              \* what the call returns

vars == <<mode, pc, child, descendant, reader, messages, status, output, result>>

found == <<status, output>>

Init ==
    /\ mode \in {"exit_code", "output"}
    /\ pc = "spawn" /\ child = "absent"
    /\ descendant = [d \in Descendants |-> "none"]
    /\ reader = [s \in Streams |-> "absent"]
    /\ messages = <<>> /\ status = FALSE /\ output = {} /\ result = "none"

-----------------------------------------------------------------------------
(* Processes *)

InGroup == {d \in Descendants : descendant[d] = "group"}
\* Somebody has the write ends of the pipes.
StreamsHeld == child = "running" \/ \E d \in Descendants : descendant[d] \in {"group", "left"}

Fork(d) ==
    /\ descendant[d] = "none"
    /\ child = "running" \/ InGroup # {}
    /\ descendant' = [descendant EXCEPT ![d] = "group"]
    /\ UNCHANGED <<mode, pc, child, reader, messages, found, result>>

LeaveGroup(d) ==
    /\ descendant[d] = "group"
    /\ \E to \in {"left", "closed"} : descendant' = [descendant EXCEPT ![d] = to]
    /\ UNCHANGED <<mode, pc, child, reader, messages, found, result>>

Exit(d) ==
    /\ descendant[d] \in {"group", "left", "closed"}
    /\ descendant' = [descendant EXCEPT ![d] = "gone"]
    /\ UNCHANGED <<mode, pc, child, reader, messages, found, result>>

ChildExits ==
    /\ child = "running"
    /\ child' = "exited"
    /\ UNCHANGED <<mode, pc, descendant, reader, messages, found, result>>

-----------------------------------------------------------------------------
(* read_bounded *)

\* End of file once nobody can write; or the limit is passed; or an error.
read_bounded(s) ==
    /\ reader[s] = "reading"
    /\ \E got \in {"Complete", "TooLarge", "Io"} :
          /\ got = "Complete" => ~StreamsHeld
          /\ messages' = Append(messages, [kind |-> s, got |-> got])
    /\ reader' = [reader EXCEPT ![s] = "done"]
    /\ UNCHANGED <<mode, pc, child, descendant, found, result>>

-----------------------------------------------------------------------------
(* The supervisor *)

spawn_managed ==
    /\ pc = "spawn"
    /\ \/ /\ child' = "running" /\ pc' = "try_wait"
          /\ reader' = [s \in Streams |-> IF mode = "output" THEN "reading" ELSE "absent"]
          /\ UNCHANGED result
       \/ result' = "Io" /\ pc' = "returned" /\ UNCHANGED <<child, reader>>
    /\ UNCHANGED <<mode, descendant, messages, found>>

Break(outcome) == result' = outcome /\ pc' = "terminate"

\* The loop of run_captured, first third: has the child exited?  The status
\* of an exited child may be unavailable.
TryWait ==
    /\ pc = "try_wait" /\ mode = "output"
    /\ \/ /\ child = "exited" /\ ~status
          /\ child' = "reaped"
          /\ \/ status' = TRUE /\ pc' = "messages" /\ UNCHANGED result
             \/ Break("Io") /\ UNCHANGED status
       \/ /\ child = "running" \/ status
          /\ pc' = "messages"
          /\ UNCHANGED <<child, status, result>>
    /\ UNCHANGED <<mode, descendant, reader, messages, output>>

\* Second third: messages are taken in order up to a failed one.
ReadMessages ==
    /\ pc = "messages"
    /\ messages' = <<>>
    /\ LET failed == {k \in DOMAIN messages : messages[k].got # "Complete"}
       IN  IF failed = {}
           THEN /\ output' = output \union {messages[k].kind : k \in DOMAIN messages}
                /\ pc' = "decide"
                /\ UNCHANGED result
           ELSE LET first == messages[CHOOSE k \in failed : \A j \in failed : k <= j]
                IN  /\ Break(IF first.got = "Io" THEN "Io" ELSE first.kind)
                    /\ UNCHANGED output
    /\ UNCHANGED <<mode, child, descendant, reader, status>>

\* Last third: everything is there, or the deadline has passed, or go on.
Decide ==
    /\ pc = "decide"
    /\ IF status /\ output = Streams THEN Break("Ok")
       ELSE \/ Break("Timeout")
            \/ pc' = "try_wait" /\ UNCHANGED result
    /\ UNCHANGED <<mode, child, descendant, reader, messages, found>>

\* wait_for_exit: the loop of exec_exit_code.  When the status of the child is
\* unavailable it returns at once.
wait_for_exit ==
    /\ pc = "try_wait" /\ mode = "exit_code"
    /\ \/ /\ child = "exited"
          /\ child' = "reaped"
          /\ \/ status' = TRUE /\ Break("Ok")
             \/ result' = "Io" /\ pc' = "returned" /\ UNCHANGED status
       \/ child = "running" /\ Break("Timeout") /\ UNCHANGED <<child, status>>
    /\ UNCHANGED <<mode, descendant, reader, messages, output>>

\* Kills the child alone.
terminate_child ==
    /\ pc = "terminate"
    /\ child' = "reaped"
    /\ pc' = IF mode = "output" THEN "join" ELSE "returned"
    /\ UNCHANGED <<mode, descendant, reader, messages, found, result>>

\* terminate_process_tree, or only the group when the child has been waited for.
terminate ==
    /\ pc = "terminate"
    /\ descendant' = [d \in Descendants |-> IF d \in InGroup THEN "gone" ELSE descendant[d]]
    /\ child' = "reaped"
    /\ pc' = IF mode = "output" THEN "join" ELSE "returned"
    /\ UNCHANGED <<mode, reader, messages, found, result>>

Join ==
    /\ pc = "join"
    /\ \A s \in Streams : reader[s] = "done"
    /\ pc' = "returned"
    /\ UNCHANGED <<mode, child, descendant, reader, messages, found, result>>

Next ==
    \/ \E d \in Descendants : Fork(d) \/ LeaveGroup(d) \/ Exit(d)
    \/ ChildExits
    \/ \E s \in Streams : read_bounded(s)
    \/ spawn_managed \/ TryWait \/ ReadMessages \/ Decide \/ wait_for_exit
    \/ terminate \/ Join

Spec == Init /\ [][Next]_vars
-----------------------------------------------------------------------------
(* Properties *)

\* The shape of the state.
TypeOK ==
    /\ pc \in {"spawn", "try_wait", "messages", "decide", "terminate", "join", "returned"}
    /\ child \in {"absent", "running", "exited", "reaped"}
    /\ descendant \in [Descendants -> {"none", "group", "left", "closed", "gone"}]
    /\ reader \in [Streams -> {"absent", "reading", "done"}]
    /\ output \subseteq Streams
    /\ result \in {"none", "Ok", "Timeout", "Io"} \union Streams

\* When the call returns, and its admission permit with it, the child has been
\* waited for, the readers are joined and no member of its group runs; only an
\* exec_exit_code whose wait failed leaves descendants.  A success has both
\* streams in full.  And the join is not waiting for a stream that a member of
\* the group still has: only a descendant that left the group can delay it.
CommandLeavesNothing ==
    /\ pc = "returned" =>
          /\ child \in {"absent", "reaped"}
          /\ \A s \in Streams : reader[s] # "reading"
          /\ InGroup = {} \/ <<mode, result>> = <<"exit_code", "Io">>
    /\ pc = "returned" /\ mode = "output" /\ result = "Ok" => status /\ output = Streams
    /\ pc = "join" /\ StreamsHeld => \E d \in Descendants : descendant[d] = "left"
=============================================================================
