----------------------------- MODULE NativeSessions -----------------------------
(***************************************************************************)
(* A client of the native training API and the one handle it holds: a      *)
(* persistent Tiny graph or one of the standalone trainers.  Every handle  *)
(* has a device context of its own, and nothing of one reaches another.    *)
(***************************************************************************)
EXTENDS GraphSession, Trainers

VARIABLE handle

vars == <<handle, graphVars, trainerVars>>

TypeOK == handle \in {"graph", "trainer"} /\ GraphTypeOK /\ TrainerTypeOK

\* The handle the client does not hold is fixed.
Init ==
    /\ GraphInit /\ TrainerInit
    /\ \/ handle = "graph" /\ kind = "lmHead"
       \/ handle = "trainer"

Next ==
    \/ handle = "graph" /\ GraphNext /\ UNCHANGED <<handle, trainerVars>>
    \/ handle = "trainer" /\ TrainerNext /\ UNCHANGED <<handle, graphVars>>

Spec == Init /\ [][Next]_vars

=============================================================================
