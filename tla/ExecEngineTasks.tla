--------------------------- MODULE ExecEngineTasks --------------------------
(***************************************************************************)
(* The engine seen as an executor of tasks: batch i of the engine is task  *)
(* i, the values a caller passed to submit name the earlier batches that   *)
(* carry them, and a task has finished when its batch has signaled.        *)
(***************************************************************************)
EXTENDS ExecEngine

Tasks == INSTANCE AsyncTasks WITH
  Window   <- RingSlots,
  MaxTasks <- MaxValue,
  needs    <- [i \in 1 .. Len(batches) |-> batches[i].needs],
  running  <- started,
  finished <- retired

(* The engine implements the abstract executor: rings, queues and           *)
(* semaphores neither lose a dependency, nor run a batch twice, nor let the *)
(* host run further ahead than the ring.                                    *)
ImplementsTasks == Tasks!Spec

(* With fair devices and a fair host thread it also keeps the executor's    *)
(* liveness promises: what is accepted begins and finishes.                 *)
ImplementsFairTasks == Tasks!FairSpec

=============================================================================
