----------------------------- MODULE AsyncTasks -----------------------------
(***************************************************************************)
(* What an asynchronous executor promises its callers, without rings,      *)
(* queues, command buffers or semaphores: tasks are accepted one at a time *)
(* while fewer than Window of them are unfinished, each naming earlier     *)
(* tasks it depends on; a task runs once, after everything it depends on   *)
(* has finished, and every accepted task finishes.                         *)
(***************************************************************************)
EXTENDS Integers, Sequences, FiniteSets

CONSTANTS
  Window,    \* the largest number of unfinished tasks
  MaxTasks   \* bound: the tasks the fairness conditions range over

VARIABLES
  needs,     \* needs[i]: the tasks task i depends on
  running,   \* the tasks that have begun
  finished   \* the tasks that have finished

taskVars == <<needs, running, finished>>

Accepted == DOMAIN needs

Init == needs = <<>> /\ running = {} /\ finished = {}

Accept(D) ==
  /\ Cardinality(Accepted \ finished) < Window
  /\ needs' = Append(needs, D)
  /\ UNCHANGED <<running, finished>>

Begin(i) ==
  /\ i \in Accepted \ running
  /\ needs[i] \subseteq finished
  /\ running' = running \cup {i}
  /\ UNCHANGED <<needs, finished>>

Finish(i) ==
  /\ i \in running \ finished
  /\ finished' = finished \cup {i}
  /\ UNCHANGED <<needs, running>>

Next ==
  \/ \E D \in SUBSET Accepted : Accept(D)
  \/ \E i \in Accepted : Begin(i) \/ Finish(i)

Spec == Init /\ [][Next]_taskVars

Fairness == \A i \in 1 .. MaxTasks : WF_taskVars(Begin(i)) /\ WF_taskVars(Finish(i))

FairSpec == Spec /\ Fairness

=============================================================================
