------------------------------- MODULE TinyGraph -------------------------------
(***************************************************************************)
(* The life of one ForwardResourceGraph: its client calls one operation    *)
(* after the other, and the buffers on the device, the shared AdamW step   *)
(* and the accumulation flag carry what earlier calls left into later      *)
(* ones.  A call is a sequence of effects, any of which may fail where the *)
(* source has an error path; what came before the failure stays.           *)
(*                                                                         *)
(* A buffer is modelled by what its value was computed from: arguments of  *)
(* the call that is running ("now"), arguments of earlier calls ("old"),   *)
(* or what a buffer, named, held when it was allocated.  Parameters and    *)
(* moments always hold values, so that reading one adds nothing.           *)
(***************************************************************************)
EXTENDS TinyReadbacks, FiniteSets

CONSTANTS
    MaxStep,     \* stands for UINT32_MAX
    MaxCalls     \* calls of a behaviour

ASSUME MaxStepAssumption == MaxStep \in Nat \ {0}
ASSUME MaxCallsAssumption == MaxCalls \in Nat

Parameters == Weights \cup Moments

\* Buffers that hold the arguments of the call: those of the host and those of
\* the dataset batch.
Given == {"host", "hostStaging", "trainingStaging", "readback",
          "batchTokens", "batchTargets", "batchMasks"}

\* What a source of a program, buffer b, contributes after the flow f.
Held(f, b) ==
    IF b \in Parameters THEN {}
    ELSE IF b \in DOMAIN f THEN f[b]
    ELSE IF b \in Given THEN {"now"} ELSE {b}

\* What each buffer that program p writes is computed from; the host's buffers
\* hold the arguments of the call.
Flow(p) ==
    LET Buffers(places) == {q[1] : q \in places}
        upTo[n \in 0 .. Len(p)] ==
            IF n = 0 THEN <<>>
            ELSE LET f == upTo[n - 1]
                 IN  IF p[n].stage = "barrier" THEN f
                     ELSE [b \in Buffers(p[n].writes) \ Given |->
                              UNION {Held(f, r) : r \in Buffers(p[n].reads)}] ++ f
    IN  upTo[Len(p)]

\* The flow g after the flow f.
Through(f, tags) == UNION {IF t \in DOMAIN f THEN f[t] ELSE {t} : t \in tags}
Then(f, g) == [b \in DOMAIN g |-> Through(f, g[b])] ++ f

-----------------------------------------------------------------------------
(* The effects a call is made of.  fails says what happens where one does: *)
(* the call returns a status, or throws, which ends the program in the     *)
(* operations that are noexcept.                                           *)

Nothing == [flow |-> <<>>, step |-> "keep", accumulating |-> "keep",
            reset |-> FALSE, read |-> {}, fails |-> "never"]

MapMemory  == [Nothing EXCEPT !.fails = "returns"]
Submits(p) == [Nothing EXCEPT !.flow = Flow(p), !.fails = "throws"]
Uploads(b) == [Nothing EXCEPT !.flow = [x \in {b} |-> Held(<<>>, "host")], !.fails = "throws"]
CountStep  == [Nothing EXCEPT !.step = "count"]
SetStep    == [Nothing EXCEPT !.step = "set"]
BeginSum   == [Nothing EXCEPT !.accumulating = "begin"]
EndSum     == [Nothing EXCEPT !.accumulating = "end"]
NewCheckpoint == [Nothing EXCEPT !.reset = TRUE]

\* What the program copies out, once it is mapped.
Reads(p) == [Nothing EXCEPT !.read = {q[1] : q \in UNION {p[k].reads : k \in Commands(p)}},
                            !.fails = "returns"]
ReadsStep == [Nothing EXCEPT !.read = {"adamwStep"}]

\* Effect e and then effect n.
Followed(e, n) ==
    [flow  |-> Then(e.flow, n.flow),
     step  |-> IF n.step = "keep" THEN e.step ELSE n.step,
     accumulating |-> IF n.accumulating = "keep" THEN e.accumulating ELSE n.accumulating,
     reset |-> e.reset \/ n.reset,
     read  |-> e.read \cup n.read,
     fails |-> "never"]

UploadAll(buffers) == [n \in DOMAIN buffers |-> Uploads(buffers[n])]

\* An operation: whether it is noexcept, what it checks, what it does.
Operation(noexcept, needs, effects) ==
    [noexcept |-> noexcept, needs |-> needs, effects |-> effects]

Noexcept(effects)  == Operation(TRUE, {}, effects)
MayThrow(effects)  == Operation(FALSE, {}, effects)

-----------------------------------------------------------------------------
(* Training a parameter group.                                              *)

SgdStep(p) == Noexcept(<<MapMemory, Submits(p)>>)

\* Mutant: the step is counted before the window is staged.
AdamwStepEarly(p) == Operation(TRUE, {"step"}, <<CountStep, MapMemory, Submits(p)>>)

\* Mutant: the step is not checked against UINT32_MAX.
AdamwStepUnchecked(p) == Noexcept(<<MapMemory, CountStep, Submits(p)>>)

AdamwStep(p) == Operation(TRUE, {"step"}, <<MapMemory, CountStep, Submits(p)>>)

\* AdamW from gradients that are on the device already.
AdamwStaged(p) == Operation(TRUE, {"step"}, <<CountStep, Submits(p)>>)

GroupTraining ==
    [train_lm_head_sgd     |-> SgdStep(train_lm_head_sgd),
     train_output_sgd      |-> SgdStep(train_output_sgd),
     train_qkv_sgd         |-> SgdStep(train_qkv_sgd),
     train_embeddings_sgd  |-> SgdStep(train_embeddings_sgd),
     train_positions_sgd   |-> MayThrow(<<MapMemory, Submits(train_positions_sgd)>>),
     train_dataset_batch   |-> Noexcept(<<Submits(train_dataset_batch)>>),
     train_lm_head_adamw   |-> AdamwStep(train_lm_head_adamw),
     train_output_adamw    |-> AdamwStep(train_output_adamw),
     train_positions_adamw |-> AdamwStep(train_positions_adamw),
     train_qkv_adamw_from_gradients |-> AdamwStaged(train_qkv_adamw_from_gradients),
     run_ffn_adamw_all     |-> AdamwStaged(run_ffn_adamw_all),
     run_ffn_w1_adamw      |-> AdamwStaged(run_ffn_w1_adamw),
     run_rmsnorm_gamma_adamw_staged |-> AdamwStaged(run_rmsnorm_gamma_adamw_staged)]

-----------------------------------------------------------------------------
(* The LoRA path.                                                           *)

TokenTraining == <<MapMemory, Submits(token_step_training), MapMemory>>

\* token_step: its tokens, the forward pass, its logits.
TokenForward == <<Uploads("tokens"), Submits(forward), MapMemory>>

TokenBackward(accumulating) ==
    TokenTraining \o TokenForward
    \o <<Uploads("doutput"), Submits(lora_backward(4, accumulating)), MapMemory>>
    \o TokenTraining

\* Mutant: the gradients of the last accumulation are not cleared.
BeginAccumulationKeeping == MayThrow(<<BeginSum>>)

BeginAccumulation == MayThrow(<<Submits(begin_lora_accumulation), BeginSum>>)

\* token_windows_training_backward_accumulate, here with two tokens.
LoraTraining ==
    [token_step_training          |-> MayThrow(TokenTraining),
     token_step_training_backward |-> Operation(FALSE, {"idle"}, TokenBackward(FALSE)),
     token_step_training_backward_accumulate |->
         Operation(FALSE, {"accumulating"}, TokenBackward(TRUE)),
     token_windows_training_backward_accumulate |->
         Operation(FALSE, {"accumulating"}, TokenBackward(TRUE) \o TokenBackward(TRUE)),
     begin_lora_accumulation |-> BeginAccumulation,
     finalize_lora_sgd   |-> Operation(FALSE, {"accumulating"},
                                       <<Submits(finalize_lora_sgd), EndSum>>),
     finalize_lora_adamw |-> Operation(FALSE, {"accumulating"},
                                       <<CountStep, Submits(finalize_lora_adamw), EndSum>>)]

-----------------------------------------------------------------------------
(* Forward passes and staged operations.                                    *)

Inferring ==
    [forward    |-> MayThrow(TokenForward),
     token_step |-> MayThrow(TokenForward),
     forward_fixed_retained      |-> MayThrow(<<MapMemory, Submits(forward_fixed_retained), MapMemory>>),
     forward_loss_fixed_retained |-> MayThrow(<<MapMemory, Submits(forward_loss_fixed_retained), MapMemory>>),
     forward_loss_fixed_metrics  |-> MayThrow(<<MapMemory, Submits(forward_loss_fixed_metrics), MapMemory>>),
     readback_graph_dstate       |-> MayThrow(<<MapMemory, Submits(readback_graph_dstate), MapMemory>>),
     evaluate_dataset_batch      |-> MayThrow(<<Submits(evaluate_dataset_batch), MapMemory>>)]

Staged ==
    [train_ffn_forward_loss   |-> SgdStep(train_ffn_forward_loss),
     run_rmsnorm_forward_staged    |-> Noexcept(<<Submits(run_rmsnorm_forward_staged)>>),
     run_rmsnorm_state_only_staged |-> Noexcept(<<Submits(run_rmsnorm_state_only_staged)>>),
     run_rmsnorm_backward_staged   |-> Noexcept(<<Submits(run_rmsnorm_backward_staged)>>),
     run_rmsnorm_dgamma_staged     |-> Noexcept(<<Submits(run_rmsnorm_dgamma_staged)>>),
     run_rmsnorm_staged_state_chain |->
         Noexcept(<<Submits(run_rmsnorm_forward_staged), Submits(run_rmsnorm_backward_staged),
                    Submits(run_rmsnorm_dgamma_staged)>>),
     run_rmsnorm_gamma_gradient    |-> Noexcept(<<Submits(run_rmsnorm_gamma_gradient)>>),
     run_ffn_forward             |-> Noexcept(<<Submits(run_ffn_forward)>>),
     run_ffn_backward            |-> Noexcept(<<Submits(run_ffn_backward)>>),
     run_ffn_parameter_gradients |-> Noexcept(<<Submits(run_ffn_parameter_gradients)>>),
     seed_rmsnorm_staged_dy   |-> Noexcept(<<Uploads("dprojected")>>),
     seed_ffn_output_gradient_staged |-> Noexcept(<<Uploads("dprojected")>>),
     seed_rmsnorm_staged_gamma |-> Noexcept(<<Uploads("gamma")>>),
     seed_rmsnorm_staged_mask |-> Noexcept(<<Uploads("mask")>>),
     seed_ffn_input_staged    |-> Noexcept(<<Uploads("activations")>>)]

-----------------------------------------------------------------------------
(* State a client puts back, by group and as a checkpoint of all groups.    *)

import_base_train_qkv == UploadAll(<<"query", "key", "value">>)
update_positions == UploadAll(<<"positions", "positionM", "positionV">>) \o <<SetStep>>
update_lm_head   == UploadAll(<<"lmHead", "lmHeadM", "lmHeadV">>) \o <<SetStep>>
update_output    == UploadAll(<<"output", "outputM", "outputV">>) \o <<SetStep>>
update_qkv   == import_base_train_qkv \o <<MapMemory, Submits(update_qkv_adamw_moments), SetStep>>
update_gamma == UploadAll(<<"gamma", "gammaM", "gammaV">>) \o <<SetStep>>
update_ffn   == UploadAll(<<"ffnW1", "ffnB1", "ffnW2", "ffnB2", "ffnW1M", "ffnB1M", "ffnW2M",
                            "ffnB2M", "ffnW1V", "ffnB1V", "ffnW2V", "ffnB2V">>) \o <<SetStep>>

\* The two calls at the end are noexcept.
Certain(effects) == [n \in DOMAIN effects |-> [effects[n] EXCEPT !.fails = "never"]]

update_base_checkpoint ==
    <<Uploads("embeddings")>> \o update_positions
    \o <<Uploads("lmHead"), Uploads("output")>> \o import_base_train_qkv
    \o update_lm_head \o update_qkv \o update_output
    \o Certain(update_gamma \o update_ffn)

\* Mutant: the FFN groups are left out.
readback_base_checkpoint_no_ffn ==
    <<NewCheckpoint, Reads(readback_base_train_embeddings), Reads(readback_positions),
      Reads(readback_base_train_qkv("query")), Reads(readback_base_train_qkv("key")),
      Reads(readback_base_train_qkv("value")), Reads(qkv_adamw_moments), ReadsStep,
      Reads(readback_base_train_lm_head), Reads(lm_head_adamw_moments(4)),
      Reads(readback_base_train_output), Reads(output_adamw_moments(4)),
      Reads(readback_gamma_state(4))>>

readback_base_checkpoint ==
    <<NewCheckpoint, Reads(readback_base_train_embeddings), Reads(readback_positions),
      Reads(readback_base_train_qkv("query")), Reads(readback_base_train_qkv("key")),
      Reads(readback_base_train_qkv("value")), Reads(qkv_adamw_moments), ReadsStep,
      Reads(readback_base_train_lm_head), Reads(lm_head_adamw_moments(4)),
      Reads(readback_base_train_output), Reads(output_adamw_moments(4)),
      Reads(readback_gamma_state(4)), Reads(readback_ffn_state)>>

Restoring ==
    [import_base_train_embeddings |-> MayThrow(<<Uploads("embeddings")>>),
     import_base_train_positions  |-> MayThrow(<<Uploads("positions")>>),
     import_base_train_lm_head    |-> MayThrow(<<Uploads("lmHead")>>),
     import_base_train_output     |-> MayThrow(<<Uploads("output")>>),
     import_base_train_qkv        |-> MayThrow(import_base_train_qkv),
     update_base_train_positions_adamw_state |-> MayThrow(update_positions),
     update_base_train_lm_head_adamw_state   |-> MayThrow(update_lm_head),
     update_base_train_output_adamw_state    |-> MayThrow(update_output),
     update_base_train_qkv_adamw_state       |-> MayThrow(update_qkv),
     update_trainable_gamma |-> Noexcept(<<Uploads("gamma")>>),
     update_gamma_state     |-> Noexcept(update_gamma),
     update_ffn_state       |-> Noexcept(update_ffn),
     update_lora_adapters    |-> MayThrow(<<MapMemory, Submits(update_lora_adapters(4))>>),
     update_lora_adamw_state |-> MayThrow(<<MapMemory, Submits(update_lora_adamw_state(4)), SetStep>>),
     readback_base_checkpoint |-> Noexcept(readback_base_checkpoint),
     update_base_checkpoint  |-> Operation(FALSE, {"checkpoint"}, update_base_checkpoint)]

\* How a call may end: after all its effects, or before one of them.
Outcomes(op) ==
    LET upTo[n \in 0 .. Len(op.effects)] ==
            IF n = 0 THEN Nothing ELSE Followed(upTo[n - 1], op.effects[n])
        mayFail(n) == \/ op.effects[n].fails = "returns"
                      \/ op.effects[n].fails = "throws" /\ ~ op.noexcept
    IN  {[ok |-> TRUE, effect |-> upTo[Len(op.effects)]]}
        \cup {[ok |-> FALSE, effect |-> upTo[n - 1]] : n \in {m \in DOMAIN op.effects : mayFail(m)}}

\* The calls of a client: the operation, what it checks, how it may end.
GraphCalls ==
    LET graph == GroupTraining ++ LoraTraining ++ Inferring ++ Staged ++ Restoring
    IN  {[op |-> o, needs |-> graph[o].needs, outcomes |-> Outcomes(graph[o])] : o \in DOMAIN graph}

=============================================================================
