------------------------------ MODULE TinyPrograms ------------------------------
(***************************************************************************)
(* The command buffers of ForwardResourceGraph: for each operation of the  *)
(* persistent Tiny graph, the program its lambda records, with its         *)
(* barriers.  Offsets in trainingStaging_ and readback_ are the bytes of   *)
(* the source, at full row count; r is the LoRA rank the graph was built   *)
(* with.                                                                   *)
(***************************************************************************)
EXTENDS CommandStream, TinyKernels

H    == 64       \* hidden size
Vp   == 320      \* padded vocabulary
Tcap == 128      \* rows of a window

FfnSize == H * 4 * H + 4 * H + 4 * H * H + H

lora_bytes(r) == Floats(4 * H * r)      \* lora_a_bytes and lora_b_bytes
adamw_state_bytes(r) == 6 * lora_bytes(r)

Larger(a, b) == IF a < b THEN b ELSE a

adamw_staging_offset(r) ==
    Larger(Floats(Tcap) + 8 + Floats(H) + Floats(Vp) + 4
             + Floats(4 * H + Tcap * H + 16 * H * r),
           3 * Floats(Tcap) + Floats(Tcap * Vp) + Floats(Tcap))

\* Mutant: the part behind the offset sized for the AdamW state alone.
trainingStagingBytesAdamwOnly(r) ==
    adamw_staging_offset(r)
    + Larger(adamw_state_bytes(r), 2 * Floats(H * Vp)) + 8

trainingStagingBytes(r) ==
    adamw_staging_offset(r)
    + Larger(adamw_state_bytes(r),
             Larger(2 * Floats(H * Vp),
                    3 * Floats(FfnSize) + 3 * Floats(H) + Floats(H)
                      + Floats(FfnSize) + 4 * Floats(Tcap * H)))
    + 8

readbackBytes == Floats(Tcap * Vp)

Staging(at, bytes)  == <<"trainingStaging", at, at + bytes>>
Readback(bytes) == <<"readback", 0, bytes>>

-----------------------------------------------------------------------------
(* Pieces that many operations share.                                       *)

Do(kernel) == <<Dispatch(K[kernel])>>

Run(kernels) == Chain([n \in DOMAIN kernels |-> K[kernels[n]]], KernelDone)

AnyStage  == {"C", "T"}
AnyAccess == {"CR", "CW", "TR", "TW"}
Transfers == {"TR", "TW"}

\* A transfer-to-transfer barrier on the whole staging buffer.
StagingBarrier(makes, shows) ==
    <<Barrier({"T"}, {"T"}, makes, shows, {"trainingStaging"})>>

CopyWindow == <<Copy(Staging(0, 512), Whole("tokens")),
                Copy(Staging(512, 512), Whole("targets")),
                Copy(Staging(1024, 512), Whole("mask"))>>

LoadWindow == CopyWindow \o <<UploadDone>>

\* Mutant: the first barrier names the buffer that is written.
CarryOverMisnamed(from, to) ==
    <<Barrier(AnyStage, {"T"}, {"CW"}, {"TR"}, {to}),
      Barrier(AnyStage, {"T"}, {"CR", "TR", "TW"}, {"TW"}, {to}),
      Copy(Whole(from), Whole(to)), UploadDone>>

\* A copy between two device buffers fenced on both sides with buffer barriers.
CarryOver(from, to) ==
    <<Barrier(AnyStage, {"T"}, {"CW"}, {"TR"}, {from}),
      Barrier(AnyStage, {"T"}, {"CR", "TR", "TW"}, {"TW"}, {to}),
      Copy(Whole(from), Whole(to)), UploadDone>>

\* Forward, loss and the gradient at the projected rows.
LossGradient == <<"forward", "loss", "lmBackward">>

\* From the rows of the attention context to the gradient of the states.
StateGradient == <<"attentionQ", "attentionK", "attentionV",
                   "projQ", "projKV", "projVV">>

-----------------------------------------------------------------------------
(* Stochastic gradient descent on one parameter group.                      *)

train_lm_head_sgd ==
    LoadWindow \o Run(<<"forward", "loss", "lmHeadGradient", "lmHeadSgd">>)

train_output_sgd ==
    LoadWindow \o Run(LossGradient \o <<"outputGradient", "outputSgd">>)

train_qkv_sgd ==
    LoadWindow
    \o Run(LossGradient \o <<"projBackward", "attentionQ", "attentionK",
                             "attentionV", "qkvGradient", "qkvSgd">>)

train_embeddings_sgd ==
    LoadWindow
    \o Run(LossGradient \o <<"projBackward">> \o StateGradient
             \o <<"embeddingGradient", "embeddingSgd">>)

\* Mutant: without the copy from dcontext to doutput, like the two above.
train_positions_sgd_uncopied ==
    LoadWindow
    \o Run(LossGradient \o <<"projBackward">> \o StateGradient
             \o <<"positionGradient", "positionSgd">>)

train_positions_sgd ==
    LoadWindow
    \o Run(LossGradient \o <<"projBackward">>)
    \o <<KernelDone,
         Barrier({"C"}, {"T"}, {"CW"}, {"TR"}, {"dcontext"}),
         Copy(Whole("dcontext"), Whole("doutput")),
         Barrier({"T"}, {"C"}, {"TW"}, {"CR"}, {"doutput"})>>
    \o Run(StateGradient \o <<"positionGradient", "positionSgd">>)

-----------------------------------------------------------------------------
(* AdamW on one parameter group, and on all of them for a window.           *)

train_lm_head_adamw ==
    LoadWindow \o Run(<<"forward", "loss", "lmHeadGradient", "lmHeadAdamw">>)

train_output_adamw ==
    LoadWindow \o Run(LossGradient \o <<"outputGradient", "outputAdamw">>)

train_positions_adamw ==
    <<Barrier(AnyStage, {"T"}, AnyAccess, {"TW"}, {}),
      Barrier(AnyStage, {"T"}, {"CR", "TW"}, {"TW"}, {"tokens", "targets", "mask"})>>
    \o CopyWindow
    \o StagingBarrier({"TR"}, {"TW"}) \o <<UploadDone>>
    \o Run(<<"forward", "rmsFixed">>) \o <<KernelDone>>
    \o CarryOver("states", "gammaInput")
    \o Do("ffnForward") \o <<KernelDone>>
    \o CarryOver("ffnOutput", "projected")
    \o Run(<<"lmHeadForward", "loss", "lmBackward", "ffnBackward">>) \o <<KernelDone>>
    \o CarryOver("ffnDx", "dprojected")
    \o Run(<<"ffnGradient", "rmsDgamma", "rmsBackwardState">>) \o <<KernelDone>>
    \o CarryOver("rmsDx", "dprojected")
    \o Do("projBackward") \o <<KernelDone>>
    \o CarryOver("dcontext", "doutput")
    \o Run(StateGradient \o <<"positionGradient">>) \o <<KernelDone>>
    \o CarryOver("dstates", "gammaInput")
    \o Run(<<"gammaAdamw", "ffnW1Adamw", "ffnB1Adamw", "ffnW2Adamw",
             "ffnB2Adamw", "positionAdamw">>)

train_qkv_adamw_from_gradients == <<KernelDone>> \o Do("qkvAdamw")

run_ffn_adamw_all == Do("ffnW1Adamw") \o Do("ffnB1Adamw")
                     \o Do("ffnW2Adamw") \o Do("ffnB2Adamw")

run_ffn_w1_adamw == Do("ffnW1Adamw")

run_rmsnorm_gamma_adamw_staged == Do("gammaAdamw")

-----------------------------------------------------------------------------
(* Dataset batches: windows already on the device, here two of them.        *)

DatasetWindows == 2

CopyDatasetWindow == <<Copy(Whole("batchTokens"), Whole("tokens")),
                       Copy(Whole("batchTargets"), Whole("targets")),
                       Copy(Whole("batchMasks"), Whole("mask")), UploadDone>>

train_dataset_batch ==
    LET window(update) == CopyDatasetWindow
                            \o Run(<<"forward", "loss", update>>) \o <<KernelDone>>
    IN  window("lmHeadGradient") \o window("lmHeadGradientMore") \o Do("lmHeadSgd")

\* Mutant: the metrics of a window taken for one float.
evaluate_dataset_batch_overlapping ==
    LET window(w) ==
            CopyDatasetWindow
            \o Run(<<"forward", "loss", "metrics">>) \o <<ResultDone>>
            \o StagingBarrier(Transfers, {"TW"})
            \o <<Copy(Whole("metrics"), Staging(4 * w, 8))>>
            \o StagingBarrier({"TW"}, Transfers)
    IN  StagingBarrier(Transfers, {"TR"}) \o window(0) \o window(1)

evaluate_dataset_batch ==
    LET window(w) ==
            CopyDatasetWindow
            \o Run(<<"forward", "loss", "metrics">>) \o <<ResultDone>>
            \o StagingBarrier(Transfers, {"TW"})
            \o <<Copy(Whole("metrics"), Staging(8 * w, 8))>>
            \o StagingBarrier({"TW"}, Transfers)
    IN  StagingBarrier(Transfers, {"TR"}) \o window(0) \o window(1)

-----------------------------------------------------------------------------
(* Forward passes and losses.                                               *)

\* The two immutable command buffers recorded at construction.
forward_fixed_retained ==
    StagingBarrier(Transfers, {"TR"})
    \o <<Copy(Staging(0, 512), Whole("tokens")), UploadDone>>
    \o Do("forward")
    \o <<ResultDone, Copy(Whole("logits"), Readback(Floats(Tcap * Vp)))>>
    \o StagingBarrier({"TW"}, Transfers)

forward_loss_fixed_retained ==
    LET logits == Staging(1536, Floats(Tcap * Vp))
        rowLoss == Staging(1536 + Floats(Tcap * Vp), Floats(Tcap))
    IN  StagingBarrier(Transfers, {"TR"}) \o CopyWindow
        \o StagingBarrier(Transfers, {"TW"}) \o <<UploadDone>>
        \o Run(<<"forward", "ffnForward", "loss">>) \o <<ResultDone>>
        \o StagingBarrier(Transfers, {"TW"})
        \o <<Copy(Whole("logits"), logits), Copy(Whole("rowLoss"), rowLoss)>>
        \o StagingBarrier({"TW"}, Transfers)

forward_loss_fixed_metrics ==
    StagingBarrier(Transfers, {"TR"}) \o LoadWindow
    \o Do("forward") \o <<KernelDone>>
    \o <<Copy(Whole("projected"), Whole("activations")), UploadDone>>
    \o Do("ffnForward") \o <<KernelDone>>
    \o <<Barrier({"T"}, {"T"}, {"TR"}, {"TW"}, {"projected"}),
         Copy(Whole("ffnOutput"), Whole("projected")), UploadDone>>
    \o Run(<<"lmHeadForward", "loss", "metrics">>) \o <<ResultDone>>
    \o StagingBarrier({"TR"}, {"TW"})
    \o <<Barrier(AnyStage, {"T"}, Transfers, {"TW"}, {"trainingStaging"})>>
    \o StagingBarrier(Transfers, {"TW"})
    \o <<Copy(Whole("metrics"), Staging(1536, 8))>>
    \o StagingBarrier({"TW"}, Transfers)

forward ==
    Do("forward")
    \o <<ResultDone, Copy(Whole("logits"), Readback(Floats(Tcap * Vp)))>>

readback_projected ==
    <<Barrier({"C"}, {"T"}, {"CW"}, {"TR"}, {"projected"}),
      Copy(Whole("projected"), Readback(Floats(Tcap * H)))>>

train_ffn_forward_loss ==
    LoadWindow \o Run(<<"forward", "ffnForward", "rmsNormGradient">>)

readback_graph_dstate ==
    CopyWindow \o <<Fill(Whole("dstates")), UploadDone>>
    \o Run(<<"forward", "ffnForward">>) \o <<KernelDone>>
    \o <<Copy(Whole("ffnOutput"), Whole("projected")), KernelDone>>
    \o Run(<<"loss", "lmBackward", "projBackward">>) \o <<KernelDone, ResultDone>>
    \o <<Copy(Whole("dcontext"), Whole("doutput")), UploadDone>>
    \o Run(StateGradient) \o <<ResultDone>>
    \o StagingBarrier(Transfers, {"TW"})
    \o <<Copy(Whole("dstates"), Staging(0, Floats(Tcap * H)))>>

-----------------------------------------------------------------------------
(* The LoRA path, one token position at a time.                             *)

token_step_training ==
    LET result == 520
    IN  <<Copy(Staging(0, 512), Whole("tokens")),
          Copy(Staging(512, 4), Whole("targets")),
          Copy(Staging(516, 4), Whole("mask")), UploadDone>>
        \o Do("forward") \o <<KernelDone, Fill(Whole("dlogits")),
                              Barrier({"T"}, {"C"}, {"TW"}, {"CW"}, {})>>
        \o Run(<<"loss", "lmBackward">>) \o <<ResultDone>>
        \o StagingBarrier(Transfers, {"TW"})
        \o <<Copy(Whole("dlogits"), Staging(result, Floats(Vp))),
             Copy(Whole("rowLoss"), Staging(result + Floats(Vp), 4)),
             Copy(Whole("dprojected"), Staging(result + Floats(Vp) + 4, Floats(H)))>>

\* The submission of token_step_training_backward between its two calls of
\* token_step_training.  The four targets of the LoRA kernel are one dispatch
\* each; accumulating stands for accumulating_.
lora_backward(r, accumulating) ==
    LET lora == IF accumulating THEN "loraMore" ELSE "lora"
        row(n)   == Staging(Floats(n * H), Floats(H))
        after(n) == Staging(Floats(4 * H + Tcap * H) + n * lora_bytes(r), lora_bytes(r))
    IN  Chain([n \in 1 .. 3 |-> K["attentionFirstSet"]], KernelWrites)
        \o Do("projBackward") \o <<KernelWrites>>
        \o Chain(<<K["projQMore"], K["projKV"], K["projVV"]>>, KernelWrites)
        \o <<ResultDone, KernelDone>>
        \o Chain([n \in 1 .. 4 |-> K[lora]], KernelWrites) \o <<KernelDone>>
        \o (IF accumulating THEN <<>> ELSE Do("loraSgd")) \o <<ResultDone>>
        \o <<Copy(Whole("dquery"), row(0)), Copy(Whole("dkey"), row(1)),
             Copy(Whole("dvalue"), row(2)), Copy(Whole("dcontext"), row(3)),
             Copy(Whole("dstates"), Staging(Floats(4 * H), Floats(Tcap * H))),
             Copy(Whole("loraDA"), after(0)), Copy(Whole("loraDB"), after(1)),
             Copy(Whole("loraA"), after(2)), Copy(Whole("loraB"), after(3))>>

begin_lora_accumulation == Do("loraClear")

finalize_lora_adamw == Do("loraAdamw")

finalize_lora_sgd == Do("loraFinalize")

-----------------------------------------------------------------------------
(* The staged operations: one kernel each, over what the client has seeded. *)

run_rmsnorm_forward_staged    == Do("rmsForward")
run_rmsnorm_state_only_staged == Do("rmsState")
run_rmsnorm_backward_staged   == Do("rmsBackwardState")
run_rmsnorm_dgamma_staged     == Do("rmsDgamma")
run_rmsnorm_gamma_gradient    == Do("rmsNormGradient")
run_ffn_forward               == Do("ffnForward")
run_ffn_backward              == Do("ffnBackward")
run_ffn_parameter_gradients   == Do("ffnGradient")

=============================================================================
