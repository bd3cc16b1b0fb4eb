------------------------------ MODULE NativePrograms ------------------------------
(***************************************************************************)
(* Every operation of the native API that submits work, with the program   *)
(* it submits and the sizes of the host buffers it uses: the table that    *)
(* DeviceQueue is checked with.                                            *)
(***************************************************************************)
EXTENDS TinyReadbacks, ApiPrograms

CONSTANT Ranks     \* the LoRA ranks graphs and sessions are built with

ASSUME RanksAssumption == Ranks \subseteq 1 .. 8

-----------------------------------------------------------------------------
(* The programs of a graph or a session of rank r, with the sizes of the   *)
(* host buffers they use.                                                  *)

TinyCall(r, program) ==
    [program |-> program,
     sizes |-> [trainingStaging |-> trainingStagingBytes(r), readback |-> readbackBytes,
                hostStaging |-> 2 * lora_bytes(r)]]

Training(r) ==
    [train_lm_head_sgd     |-> train_lm_head_sgd,
     train_output_sgd      |-> train_output_sgd,
     train_qkv_sgd         |-> train_qkv_sgd,
     train_embeddings_sgd  |-> train_embeddings_sgd,
     train_positions_sgd   |-> train_positions_sgd,
     train_lm_head_adamw   |-> train_lm_head_adamw,
     train_output_adamw    |-> train_output_adamw,
     train_positions_adamw |-> train_positions_adamw,
     train_qkv_adamw_from_gradients |-> train_qkv_adamw_from_gradients,
     run_ffn_adamw_all     |-> run_ffn_adamw_all,
     run_ffn_w1_adamw      |-> run_ffn_w1_adamw,
     run_rmsnorm_gamma_adamw_staged |-> run_rmsnorm_gamma_adamw_staged,
     begin_lora_accumulation |-> begin_lora_accumulation,
     finalize_lora_adamw   |-> finalize_lora_adamw,
     finalize_lora_sgd     |-> finalize_lora_sgd,
     train_dataset_batch   |-> train_dataset_batch,
     token_step_training   |-> token_step_training,
     lora_backward         |-> lora_backward(r, FALSE),
     lora_backward_more    |-> lora_backward(r, TRUE)]

Inference ==
    [evaluate_dataset_batch      |-> evaluate_dataset_batch,
     forward_fixed_retained      |-> forward_fixed_retained,
     forward_loss_fixed_retained |-> forward_loss_fixed_retained,
     forward_loss_fixed_metrics  |-> forward_loss_fixed_metrics,
     forward                     |-> forward,
     readback_projected          |-> readback_projected,
     train_ffn_forward_loss      |-> train_ffn_forward_loss,
     readback_graph_dstate       |-> readback_graph_dstate,
     run_rmsnorm_forward_staged    |-> run_rmsnorm_forward_staged,
     run_rmsnorm_state_only_staged |-> run_rmsnorm_state_only_staged,
     run_rmsnorm_backward_staged   |-> run_rmsnorm_backward_staged,
     run_rmsnorm_dgamma_staged     |-> run_rmsnorm_dgamma_staged,
     run_rmsnorm_gamma_gradient    |-> run_rmsnorm_gamma_gradient,
     run_ffn_forward             |-> run_ffn_forward,
     run_ffn_backward            |-> run_ffn_backward,
     run_ffn_parameter_gradients |-> run_ffn_parameter_gradients]

State(r) ==
    [readback_base_train_output |-> readback_base_train_output,
     readback_base_train_qkv   |-> readback_base_train_qkv("query"),
     readback_base_train_embeddings |-> readback_base_train_embeddings,
     readback_positions        |-> readback_positions,
     upload                    |-> upload("loraA", lora_bytes(r)),
     readback_base_train_lm_head |-> readback_base_train_lm_head,
     readback_base_train_qkv_gradients |-> readback_base_train_qkv_gradients("qkvGradientQ"),
     output_adamw_moments      |-> output_adamw_moments(r),
     qkv_adamw_moments         |-> qkv_adamw_moments,
     positions_adamw_moments   |-> positions_adamw_moments(r),
     lm_head_adamw_moments     |-> lm_head_adamw_moments(r),
     readback_gamma_state      |-> readback_gamma_state(r),
     readback_ffn_state        |-> readback_ffn_state,
     readback_lora_adamw_state |-> readback_lora_adamw_state(r),
     update_lora_adamw_state   |-> update_lora_adamw_state(r),
     update_qkv_adamw_moments  |-> update_qkv_adamw_moments,
     readback_lora_adapters    |-> readback_lora_adapters(r),
     update_lora_adapters      |-> update_lora_adapters(r),
     readback_rmsnorm_state    |-> readback_rmsnorm_state_staged(r),
     readback_ffn_gradients    |-> readback_ffn_gradients_staged(r),
     readback_rmsnorm_states   |-> readback_rmsnorm_states_staged(r),
     readback_rmsnorm_dx       |-> readback_rmsnorm_dx_staged(r),
     readback_rmsnorm_dgamma   |-> readback_rmsnorm_dgamma_staged(r),
     readback_ffn_dx           |-> readback_ffn_dx_staged(r),
     readback_ffn_output       |-> readback_ffn_output_staged(r),
     readback_position_gradient  |-> readback_position_gradient(r),
     readback_combined_gradients |-> readback_combined_gradients(r)]

ApiCall(api) == [program |-> api.program, sizes |-> [staging |-> api.staging]]

\* At the largest legal shapes, and some at the smallest.
OneShots(r) ==
    [attention          |-> spaceslug_attention,
     attention_causal   |-> spaceslug_attention_causal,
     attention_backward |-> spaceslug_attention_causal_backward(128),
     lm_head_backward   |-> spaceslug_lm_head_backward(128, 320, 64),
     projection_backward |-> spaceslug_projection_backward(128, 64, 64),
     causal_loss        |-> spaceslug_causal_loss(128, 320),
     causal_loss_small  |-> spaceslug_causal_loss(1, 1),
     sgemm              |-> spaceslug_sgemm(128, 64, 32),
     vector_add         |-> spaceslug_vector_add,
     lora_delta         |-> spaceslug_lora_delta(128, r),
     lora_gradients     |-> spaceslug_lora_gradients(128, r),
     lora_sgd           |-> spaceslug_lora_sgd(r),
     lora_gradients_multi |-> spaceslug_lora_gradients_multi(128, r),
     lora_sgd_multi     |-> spaceslug_lora_sgd_multi(r),
     immutable_prototype |-> ImmutableCommandPrototype]

\* A session takes up to 128 rows at any rank, and returns the delta of a step if
\* it is asked to.
Sessions(r) ==
    [session_create     |-> spaceslug_lora_session_create(128, r),
     session_step       |-> spaceslug_lora_session_step(128, r, FALSE),
     session_step_delta |-> spaceslug_lora_session_step(128, r, TRUE),
     session_step_small_delta |-> spaceslug_lora_session_step(4 * r, r, TRUE),
     session_readback   |-> spaceslug_lora_session_readback(128, r),
     batch_upload       |-> BatchBuffer_upload(32, 128),
     batch_readback     |-> BatchBuffer_process_readback(32, 128),
     batch_process      |-> BatchBuffer_process(2, 1),
     lm_head_step       |-> tiny_base_step(64, 320, 128, {}),
     lm_head_adamw      |-> tiny_base_step(64, 320, 128, {"m", "v"}),
     lm_head_update     |-> tiny_base_update(64, 320, 128),
     lm_head_moments    |-> tiny_base_moments(64, 320, 128),
     lm_head_state      |-> tiny_base_update_adamw_state(64, 320, 128),
     outproj_adamw      |-> outproj_step(64, 128, {"m", "v"}),
     outproj_moments    |-> outproj_moments(64, 128),
     outproj_state      |-> outproj_update_state(64, 128),
     embedding_step     |-> embedding_step(259, 64),
     outproj_update     |-> outproj_update(64, 128),
     embedding_update   |-> embedding_update(259, 64),
     embedding_read     |-> embedding_read(259, 64),
     qkv_step           |-> qkv_step(64, 128)]

\* Programs whose barriers do not order what the source assumes: their windows
\* or intermediate copies overwrite, or are taken from, buffers that kernels of
\* the same program may still be using.
KnownRaces == {"train_dataset_batch", "readback_graph_dstate",
               "forward_loss_fixed_metrics", "lora_backward", "lora_backward_more"}

\* Programs that copy past the end of their staging buffer.
KnownOverruns == {"session_step_delta"}

\* The calls of every operation with every rank.
NativeCalls ==
    LET tiny(r) == LET f == Training(r) ++ Inference ++ State(r)
                   IN  {<<<<o, r>>, TinyCall(r, f[o])>> : o \in DOMAIN f}
        api(r)  == LET f == OneShots(r) ++ Sessions(r)
                   IN  {<<<<o, r>>, ApiCall(f[o])>> : o \in DOMAIN f}
    IN  UNION {tiny(r) \cup api(r) : r \in Ranks}

OrderedCalls == {c \in NativeCalls : c[1][1] \notin KnownRaces}
FittingCalls == {c \in OrderedCalls : c[1][1] \notin KnownOverruns}
MetricsCalls == {c \in NativeCalls : c[1][1] = "forward_loss_fixed_metrics"}

=============================================================================
