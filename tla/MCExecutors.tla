---------------------------- MODULE MCExecutors ----------------------------
(***************************************************************************)
(* The two executors with threads of their own: the fixed executor of Roc  *)
(* handlers, and the compression executor with one lane, on which two      *)
(* streams follow one another.  They share no state, so each behaviour     *)
(* explores one, named by `executor`, and the other rests.                 *)
(***************************************************************************)
EXTENDS FixedExecutor

CONSTANTS w1, w2, s1, s2

VARIABLES
  executor,
  free_slots, available, active, channel, encoder, cancelled, result, waker,
  at_stream, lane, woken, ops, at, work, stops, joined, panicked

\* Two workers and one waiting place; a fourth job finds the ring full, or a
\* place that an early retirement or a cancellation gave back.
MCWorker == {w1, w2}
MCStream == {s1, s2}

Brotli == INSTANCE BrotliExecutor
            WITH Stream <- MCStream, Lanes <- 1, MaxOps <- 2, pc <- at_stream

brotliVars == <<free_slots, available, active, channel, encoder, cancelled, result, waker,
                at_stream, lane, woken, ops, at, work, stops, joined, panicked>>
allVars == <<executor, execVars, brotliVars>>

MCInit == executor \in {"fixed", "brotli"} /\ Init /\ Brotli!Init

MCNext ==
  /\ UNCHANGED executor
  /\ \/ executor = "fixed" /\ Next /\ UNCHANGED brotliVars
     \/ executor = "brotli" /\ Brotli!Next /\ UNCHANGED execVars

\* The fairness of each executor, for the behaviours that explore it.
MCFairness ==
  /\ \A w \in Worker : /\ WF_execVars(executor = "fixed" /\ WorkerLoop(w))
                       /\ WF_brotliVars(executor = "brotli" /\ Brotli!WorkerLoop(w))
  /\ WF_execVars(executor = "fixed" /\ NotifyOne)
  /\ WF_execVars(executor = "fixed" /\ NotifyAll)
  /\ WF_execVars(executor = "fixed" /\ Join)
  /\ \A s \in MCStream :
       /\ WF_brotliVars(executor = "brotli" /\ Brotli!Task(s))
       /\ WF_brotliVars(executor = "brotli" /\ woken[s] /\ Brotli!PollAgain(s))
  /\ WF_brotliVars(executor = "brotli" /\ Brotli!SendStop)
  /\ WF_brotliVars(executor = "brotli" /\ Brotli!Join)

MCSpec == MCInit /\ [][MCNext]_allVars /\ MCFairness
-----------------------------------------------------------------------------
(* Properties of the compression executor, on one lane *)

\* A stream that was given the only slot has the only lane until it is over, and
\* no step reaches an assertion.
LeasedForLifetime == Brotli!TypeOK /\ Brotli!LeasedForLifetime /\ Brotli!NoInvalidState

\* Every submitted operation is completed or its stream is dropped.
OperationCompletes == Brotli!OperationCompletes

\* Dropping the executor stops its workers and returns.
DropReturns == Brotli!DropReturns
=============================================================================
