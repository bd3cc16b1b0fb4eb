-------------------------------- MODULE Trainers --------------------------------
(***************************************************************************)
(* The standalone trainers of one parameter group: the LM head, the output *)
(* projection, the embedding table and the three attention projections.    *)
(* Each keeps its weights (and, for the first two, AdamW moments and a     *)
(* step) on the device.  A step leaves a copy of the weights and of the    *)
(* gradient in the staging buffer, and all trainers but the embedding's    *)
(* answer a readback from that copy.                                       *)
(*                                                                         *)
(* Values are modelled by the call that computed or uploaded them, numbered *)
(* from 1; 0 is what an allocation holds before anything is written.       *)
(***************************************************************************)
EXTENDS Naturals

CONSTANTS
    Wrap,          \* stands for 2^32, what a kernel's step wraps at
    TrainerCalls   \* calls of a behaviour

ASSUME WrapAssumption == Wrap \in Nat \ {0}
ASSUME TrainerCallsAssumption == TrainerCalls \in Nat \ {0}

Kinds == {"lmHead", "output", "embedding", "qkv"}

VARIABLES
    kind,
    weight, gradient, moments,    \* on the device; m and v are written together
    step,                         \* adamw_step, step_no
    staged,                       \* the copy a step leaves: weight and gradient
    fromHost,                     \* whether the weight was uploaded since the last step
    answer,                       \* the last call, its status and what it returned
    clock

trainerVars == <<kind, weight, gradient, moments, step, staged, fromHost, answer, clock>>

Versions == 0 .. TrainerCalls + 1
Answer(op, status) == [op |-> op, status |-> status, weight |-> 0, gradient |-> 0,
                       moments |-> 0, step |-> 0]

TrainerTypeOK ==
    /\ kind \in Kinds
    /\ weight \in Versions \ {0} /\ gradient \in Versions /\ moments \in Versions \ {0}
    /\ step \in 0 .. Wrap + TrainerCalls
    /\ staged \in [weight : Versions, gradient : Versions]
    /\ fromHost \in BOOLEAN
    /\ answer \in [op : {"create", "step", "adamw", "update", "update_state",
                         "readback", "readback_state"},
                   status : {0, 1, 2}, weight : Versions, gradient : Versions,
                   moments : Versions, step : 0 .. Wrap + TrainerCalls]
    /\ clock \in Versions \ {0}

-----------------------------------------------------------------------------

\* The constructor uploads the weight and clears the moments; the attention
\* projections are uploaded from the place a readback is answered from.
TrainerInit ==
    /\ kind \in Kinds
    /\ weight = 1 /\ gradient = 0 /\ moments = 1
    /\ step = 0
    /\ staged = [weight |-> IF kind = "qkv" THEN 1 ELSE 0, gradient |-> 0]
    /\ fromHost = TRUE
    /\ answer = Answer("create", 0)
    /\ clock = 1

Tick == clock <= TrainerCalls /\ clock' = clock + 1

\* vmaMapMemory fails, at a place that has changed nothing yet.
MapFails(op) ==
    /\ Tick
    /\ answer' = Answer(op, 2)
    /\ UNCHANGED <<kind, weight, gradient, moments, step, staged, fromHost>>

\* Mutant: the weight is copied before the optimizer has run.
ComputedCopyEarly ==
    /\ weight' = clock' /\ gradient' = clock' /\ fromHost' = FALSE
    /\ staged' = IF kind = "embedding" THEN staged
                 ELSE [weight |-> weight, gradient |-> clock']

\* The weight and the gradient a step computes, and its copy of them; the
\* embedding's step makes none.
Computed ==
    /\ weight' = clock' /\ gradient' = clock' /\ fromHost' = FALSE
    /\ staged' = IF kind = "embedding" THEN staged
                 ELSE [weight |-> clock', gradient |-> clock']

StandaloneSgdStep ==
    \/ MapFails("step")
    \/ /\ Tick
       /\ Computed
       /\ answer' = Answer("step", 0)
       /\ UNCHANGED <<kind, moments, step>>

HasMoments == kind \in {"lmHead", "output"}

\* Mutant: the step is counted before the inputs are staged.
StandaloneAdamwStepEarly ==
    /\ HasMoments
    /\ Tick
    /\ step' = step + 1
    /\ \/ /\ Computed
          /\ moments' = clock'
          /\ answer' = Answer("adamw", 0)
          /\ UNCHANGED kind
       \/ /\ answer' = Answer("adamw", 2)
          /\ UNCHANGED <<kind, weight, gradient, moments, staged, fromHost>>

\* The step is checked against the largest 64-bit integer, which is out of reach.
StandaloneAdamwStep ==
    /\ HasMoments
    /\ \/ MapFails("adamw")
       \/ /\ Tick
          /\ step' = step + 1
          /\ Computed
          /\ moments' = clock'
          /\ answer' = Answer("adamw", 0)
          /\ UNCHANGED kind

\* The weight is staged beside the copy of it that a readback is answered from;
\* the attention projections have no update.
UpdateWeight ==
    /\ kind # "qkv"
    /\ \/ MapFails("update")
       \/ /\ Tick
          /\ weight' = clock' /\ fromHost' = TRUE
          /\ answer' = Answer("update", 0)
          /\ UNCHANGED <<kind, gradient, moments, step, staged>>

\* The LM head's update refuses a step of more than 32 bits.
UpdateState(s) ==
    /\ HasMoments
    /\ \/ MapFails("update_state")
       \/ /\ Tick
          /\ kind = "lmHead" => s < Wrap
          /\ weight' = clock' /\ moments' = clock' /\ fromHost' = TRUE
          /\ step' = s
          /\ answer' = Answer("update_state", 0)
          /\ UNCHANGED <<kind, gradient, staged>>
       \/ /\ Tick
          /\ kind = "lmHead" /\ s >= Wrap
          /\ answer' = Answer("update_state", 1)
          /\ UNCHANGED <<kind, weight, gradient, moments, step, staged, fromHost>>

\* What a readback copies: the embedding's from the device, the others' from
\* where the last step left it.
Copied ==
    IF kind = "embedding" THEN [weight |-> weight, gradient |-> gradient] ELSE staged

ReadbackWeight ==
    \/ MapFails("readback")
    \/ /\ Tick
       /\ answer' = [Answer("readback", 0) EXCEPT
                        !.weight = Copied.weight, !.gradient = Copied.gradient]
       /\ UNCHANGED <<kind, weight, gradient, moments, step, staged, fromHost>>

ReadbackState ==
    /\ HasMoments
    /\ \/ MapFails("readback_state")
       \/ /\ Tick
          /\ answer' = [op |-> "readback_state", status |-> 0, weight |-> Copied.weight,
                        gradient |-> Copied.gradient, moments |-> moments, step |-> step]
          /\ UNCHANGED <<kind, weight, gradient, moments, step, staged, fromHost>>

TrainerNext ==
    \/ StandaloneSgdStep \/ StandaloneAdamwStep \/ UpdateWeight \/ ReadbackWeight \/ ReadbackState
    \/ \E s \in {0, Wrap - 1, Wrap} : UpdateState(s)

TrainerSpec == TrainerInit /\ [][TrainerNext]_trainerVars

-----------------------------------------------------------------------------

\* The weights, the gradient, the moments and the step a readback returns are
\* those on the device, all of one moment, as long as no weight was uploaded
\* since the last step.  After an upload all trainers but the embedding's answer
\* with the weights of an earlier step, or with memory nothing was written to.
ReadbackIsCurrent ==
    answer.op \in {"readback", "readback_state"} /\ answer.status = 0
        => /\ kind = "embedding" \/ ~ fromHost
                => answer.weight = weight /\ answer.gradient = gradient
           /\ answer.op = "readback_state"
                => answer.moments = moments /\ answer.step = step

\* A call that fails leaves the parameters, the moments and the step together
\* as they were: a client repeats it without training twice or skipping a step.
FailedStepChangesNothing ==
    [][clock' # clock /\ answer'.status # 0
           => UNCHANGED <<weight, gradient, moments, step>>]_trainerVars

=============================================================================
