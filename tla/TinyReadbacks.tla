------------------------------ MODULE TinyReadbacks ------------------------------
(***************************************************************************)
(* The command buffers that carry values of the persistent Tiny graph      *)
(* between the device and the host outside a training step: parameters,    *)
(* moments, gradients and diagnostics.  Each copies whole buffers to       *)
(* consecutive places of trainingStaging_ or to readback_.                 *)
(***************************************************************************)
EXTENDS TinyPrograms

V == 259        \* vocabulary

W1 == Floats(H * 4 * H)      \* bytes of the four FFN groups
B1 == Floats(4 * H)
W2 == Floats(4 * H * H)
B2 == Floats(H)

\* Copies of whole buffers to consecutive places from base on.
StagedParts(parts, base) == CopyOut("trainingStaging", parts, base)

\* Behind a barrier on the buffers, as most operations record them, ...
StateOut(parts, base) ==
    <<Barrier({"C"}, {"T"}, {"CW"}, {"TR"}, Names(parts))>>
    \o StagedParts(parts, base)

\* ... or behind one on everything.
AllOut(parts, base) ==
    <<Barrier(AnyStage, {"T"}, AnyAccess, {"TW"}, {})>> \o StagedParts(parts, base)

\* One buffer to the start of readback_.
ReadOut(buffer, bytes) ==
    <<Barrier({"C"}, {"T"}, {"CW"}, {"TR"}, {buffer}),
      Copy(Whole(buffer), Readback(bytes))>>

-----------------------------------------------------------------------------
(* Parameters and moments.                                                  *)

readback_base_train_output == ReadOut("output", Floats(H * H))
output_adamw_moments(r) ==
    StateOut(<<<<"outputM", Floats(H * H)>>, <<"outputV", Floats(H * H)>>>>,
             adamw_staging_offset(r))

\* One submission per projection.
readback_base_train_qkv(projection) == ReadOut(projection, Floats(H * H))
qkv_adamw_moments ==
    StateOut(<<<<"qkvM", Floats(3 * H * H)>>, <<"qkvV", Floats(3 * H * H)>>>>, 0)

readback_base_train_qkv_gradients(gradient) == ReadOut(gradient, Floats(H * H))

readback_positions == ReadOut("positions", Floats(Tcap * H))
positions_adamw_moments(r) ==
    StateOut(<<<<"positionM", Floats(Tcap * H)>>, <<"positionV", Floats(Tcap * H)>>>>,
             adamw_staging_offset(r))

readback_base_train_embeddings == ReadOut("embeddings", Floats(V * H))
readback_base_train_lm_head ==
    <<Barrier({"C"}, {"T"}, {"CR"}, {"TR"}, {"lmHead"}),
      Copy(Whole("lmHead"), Readback(Floats(H * Vp)))>>
lm_head_adamw_moments(r) ==
    StateOut(<<<<"lmHeadM", Floats(H * Vp)>>, <<"lmHeadV", Floats(H * Vp)>>>>,
             adamw_staging_offset(r))

readback_gamma_state(r) ==
    AllOut(<<<<"gamma", Floats(H)>>, <<"gammaM", Floats(H)>>, <<"gammaV", Floats(H)>>>>,
           adamw_staging_offset(r) + 3 * Floats(FfnSize))

\* The offset is the one of rank 4 whatever the rank of the graph.
readback_ffn_state ==
    AllOut(<<<<"ffnW1", W1>>, <<"ffnB1", B1>>, <<"ffnW2", W2>>, <<"ffnB2", B2>>,
             <<"ffnW1M", W1>>, <<"ffnB1M", B1>>, <<"ffnW2M", W2>>, <<"ffnB2M", B2>>,
             <<"ffnW1V", W1>>, <<"ffnB1V", B1>>, <<"ffnW2V", W2>>, <<"ffnB2V", B2>>>>,
           adamw_staging_offset(4))

LoraParts(r) == [n \in 1 .. 6 |-> <<<<"loraA", "loraB", "loraMA", "loraVA",
                                      "loraMB", "loraVB">>[n], lora_bytes(r)>>]

readback_lora_adamw_state(r) == StateOut(LoraParts(r), adamw_staging_offset(r))

\* The way back: the host has staged the state at the same places.
update_lora_adamw_state(r) ==
    CopyIn("trainingStaging", LoraParts(r), adamw_staging_offset(r))
    \o <<Barrier({"T"}, {"C"}, {"TW"}, {"CR"}, Names(LoraParts(r)))>>

update_qkv_adamw_moments ==
    CopyIn("trainingStaging",
           <<<<"qkvM", Floats(3 * H * H)>>, <<"qkvV", Floats(3 * H * H)>>>>, 0)

-----------------------------------------------------------------------------
(* Programs on command pools and staging buffers of their own.              *)

upload(buffer, bytes) ==
    <<Barrier(AnyStage, {"T"}, AnyAccess, Transfers, {}),
      Copy(<<"hostStaging", 0, bytes>>, Whole(buffer)),
      Barrier({"T"}, AnyStage, {"TW"}, {"TW", "CR"}, {buffer})>>

\* The A and B factors of the four targets, next to each other on the host and
\* in two buffers on the device.
AdapterCopies(r, Move(_, _)) ==
    LET bytes == H * Floats(r)
        device(b, t) == <<b, t * bytes, (t + 1) * bytes>>
        host(n)      == <<"hostStaging", n * bytes, (n + 1) * bytes>>
    IN  [n \in 1 .. 8 |->
            Move(device(IF n % 2 = 1 THEN "loraA" ELSE "loraB", (n - 1) \div 2),
                 host(n - 1))]

\* The adapters may have been written by the last submission, which is waited for.
readback_lora_adapters(r) == AdapterCopies(r, Copy)

update_lora_adapters(r) ==
    LET fromHost(device, host) == Copy(host, device)
    IN  AdapterCopies(r, fromHost)
        \o <<Barrier({"T"}, {"C"}, {"TW"}, {"CR"}, LoraAdapters)>>

-----------------------------------------------------------------------------
(* Gradients and diagnostics.                                               *)

\* One buffer to the start of the optimizer's part of the staging buffer.
StagedOut(buffer, bytes, r) == StateOut(<<<<buffer, bytes>>>>, adamw_staging_offset(r))

readback_rmsnorm_state_staged(r) ==
    StateOut(<<<<"rmsRaw", Floats(Tcap * H)>>, <<"rmsInv", Floats(Tcap)>>>>,
             adamw_staging_offset(r))
readback_position_gradient(r)     == StagedOut("positionGradient", Floats(Tcap * H), r)
readback_rmsnorm_states_staged(r) == StagedOut("states", Floats(Tcap * H), r)
readback_rmsnorm_dx_staged(r)     == StagedOut("rmsDx", Floats(Tcap * H), r)
readback_rmsnorm_dgamma_staged(r) == StagedOut("gammaGradient", Floats(H), r)

readback_ffn_dx_staged(r)     == StagedOut("ffnDx", Floats(Tcap * H), r)
readback_ffn_output_staged(r) == StagedOut("ffnOutput", Floats(Tcap * H), r)

FfnGradientParts == <<<<"ffnW1Gradient", W1>>, <<"ffnB1Gradient", B1>>,
                      <<"ffnW2Gradient", W2>>, <<"ffnB2Gradient", B2>>>>

\* Only the first gradient is named by the barrier.
readback_ffn_gradients_staged(r) ==
    <<Barrier({"C"}, {"T"}, {"CW"}, {"TR"}, {"ffnW1Gradient"})>>
    \o StagedParts(FfnGradientParts, adamw_staging_offset(r))

\* Every copy behind a transfer-to-transfer barrier of its own.
readback_combined_gradients(r) ==
    LET rows  == Floats(Tcap * H)
        parts == <<<<"gammaGradient", Floats(H)>>>> \o FfnGradientParts
                 \o <<<<"ffnDx", rows>>, <<"activations", rows>>,
                      <<"states", rows>>, <<"dstates", rows>>>>
        copies == StagedParts(parts, adamw_staging_offset(r) + 3 * Floats(FfnSize) + 3 * Floats(H))
    IN  <<Barrier(AnyStage, {"T"}, AnyAccess, {"TW"}, {"trainingStaging"})>>
        \o [n \in 1 .. 2 * Len(copies) |->
               IF n % 2 = 1 THEN Barrier({"T"}, {"T"}, Transfers, Transfers, {})
               ELSE copies[n \div 2]]
        \o StagingBarrier({"TW"}, Transfers)

=============================================================================
