------------------------------ MODULE TinyKernels ------------------------------
(***************************************************************************)
(* What each compute pipeline of the persistent Tiny graph reads and       *)
(* writes: the buffers its descriptor set binds (ForwardResourceGraph::    *)
(* initialize), with the direction its shader uses them in.  The           *)
(* arithmetic of a kernel is not modelled: its outputs depend on its       *)
(* inputs.                                                                 *)
(***************************************************************************)
EXTENDS Naturals

\* f, and g where f is not defined.
f ++ g == [x \in DOMAIN f \cup DOMAIN g |-> IF x \in DOMAIN f THEN f[x] ELSE g[x]]

Kernel(reads, writes) == [reads |-> reads, writes |-> writes]

\* An optimizer reads a parameter, its gradient and its moments, and writes
\* the parameter and the moments.
Optimizer(state, gradients) == Kernel(state \cup gradients, state)

-----------------------------------------------------------------------------

ForwardReads == {"embeddings", "positions", "query", "key", "value", "output",
                 "lmHead", "tokens"}
ForwardWrites == {"states", "activations", "projected", "logits", "readback",
                  "qRows", "kRows", "vRows"}

ForwardKernels ==
    [forward    |-> Kernel(ForwardReads, ForwardWrites),
     rmsForward |-> Kernel(ForwardReads \cup {"gamma"},
                           ForwardWrites \cup {"rmsRaw", "rmsInv"}),
     rmsState   |-> Kernel({"embeddings", "positions", "gamma", "tokens"},
                           {"states", "rmsRaw", "rmsInv"}),
     rmsFixed   |-> Kernel({"projected", "gamma", "mask"},
                           {"activations", "rmsRaw", "rmsInv"})]

RmsBackwardKernels ==
    [rmsBackwardState |-> Kernel({"rmsRaw", "gamma", "dprojected", "mask", "rmsInv"},
                                 {"rmsDx"}),
     rmsDgamma        |-> Kernel({"rmsRaw", "dprojected", "mask", "rmsInv"},
                                 {"gammaGradient"})]

\* lmHeadGradient overwrites its result, lmHeadGradientMore (accumulate = 1)
\* adds to it.
LossKernels ==
    [loss    |-> Kernel({"logits", "targets", "mask"}, {"dlogits", "rowLoss"}),
     metrics |-> Kernel({"rowLoss", "mask"}, {"metrics"}),
     lmBackward         |-> Kernel({"dlogits", "lmHead"}, {"dprojected"}),
     lmHeadGradient     |-> Kernel({"projected", "dlogits"}, {"lmHeadGradient"}),
     lmHeadGradientMore |-> Kernel({"projected", "dlogits", "lmHeadGradient"},
                                   {"lmHeadGradient"})]

LmHeadKernels ==
    [lmHeadSgd   |-> Optimizer({"lmHead"}, {"lmHeadGradient"}),
     lmHeadAdamw |-> Optimizer({"lmHead", "lmHeadM", "lmHeadV"}, {"lmHeadGradient"})]

OutputKernels ==
    [outputGradient |-> Kernel({"activations", "dprojected"}, {"outputGradient"}),
     outputSgd      |-> Optimizer({"output"}, {"outputGradient"}),
     outputAdamw    |-> Optimizer({"output", "outputM", "outputV"}, {"outputGradient"})]

QkvGradients == {"qkvGradientQ", "qkvGradientK", "qkvGradientV"}

QkvKernels ==
    [qkvGradient |-> Kernel({"states", "dquery", "dkey", "dvalue"}, QkvGradients),
     qkvSgd      |-> Optimizer({"query", "key", "value"}, QkvGradients),
     qkvAdamw    |-> Optimizer({"query", "key", "value", "qkvM", "qkvV"}, QkvGradients)]

TableKernels ==
    [embeddingGradient |-> Kernel({"tokens", "dstates", "mask"}, {"embeddingGradient"}),
     embeddingSgd      |-> Optimizer({"embeddings"}, {"embeddingGradient"}),
     positionGradient  |-> Kernel({"dstates", "mask", "gamma"}, {"positionGradient"}),
     positionSgd       |-> Optimizer({"positions"}, {"positionGradient"}),
     positionAdamw     |-> Optimizer({"positions", "positionM", "positionV"},
                                     {"positionGradient", "mask"})]

FfnWeights == {"ffnW1", "ffnB1", "ffnW2", "ffnB2"}
FfnGradients == {"ffnW1Gradient", "ffnB1Gradient", "ffnW2Gradient", "ffnB2Gradient"}

FfnKernels ==
    [ffnForward  |-> Kernel(FfnWeights \cup {"activations", "mask"}, {"ffnOutput"}),
     ffnBackward |-> Kernel((FfnWeights \ {"ffnB2"})
                            \cup {"activations", "dprojected", "mask"}, {"ffnDx"}),
     ffnGradient |-> Kernel((FfnWeights \ {"ffnB2"})
                            \cup {"activations", "dprojected", "mask"}, FfnGradients),
     ffnW1Adamw  |-> Optimizer({"ffnW1", "ffnW1M", "ffnW1V"}, {"ffnW1Gradient"}),
     ffnB1Adamw  |-> Optimizer({"ffnB1", "ffnB1M", "ffnB1V"}, {"ffnB1Gradient"}),
     ffnW2Adamw  |-> Optimizer({"ffnW2", "ffnW2M", "ffnW2V"}, {"ffnW2Gradient"}),
     ffnB2Adamw  |-> Optimizer({"ffnB2", "ffnB2M", "ffnB2V"}, {"ffnB2Gradient"}),
     lmHeadForward   |-> Kernel({"projected", "lmHead"}, {"logits"}),
     rmsNormGradient |-> Kernel({"gammaInput", "dprojected", "mask"}, {"gammaGradient"}),
     gammaAdamw      |-> Optimizer({"gamma", "gammaM", "gammaV"}, {"gammaGradient"})]

\* The sets of mode Q, K and V bind one result each; the first set, made for
\* the seven buffers, has dquery where the shader writes whatever the mode.
AttentionKernels ==
    LET attention(result) ==
            Kernel({"qRows", "kRows", "vRows", "doutput"}, {result})
    IN  [attentionQ |-> attention("dquery"), attentionK |-> attention("dkey"),
         attentionV |-> attention("dvalue"),
         attentionFirstSet |-> attention("dquery")]

\* projKV and projVV, and projQMore of the token step, add to dstates.
ProjectionKernels ==
    [projBackward |-> Kernel({"dprojected", "output"}, {"dcontext"}),
     projQ        |-> Kernel({"dquery", "query"}, {"dstates"}),
     projQMore    |-> Kernel({"dquery", "query", "dstates"}, {"dstates"}),
     projKV       |-> Kernel({"dkey", "key", "dstates"}, {"dstates"}),
     projVV       |-> Kernel({"dvalue", "value", "dstates"}, {"dstates"})]

LoraGradients == {"loraDA", "loraDB"}
LoraAdapters  == {"loraA", "loraB"}
LoraMoments   == {"loraMA", "loraVA", "loraMB", "loraVB"}

LoraKernels ==
    LET inputs == LoraAdapters \cup {"states", "dquery", "dkey", "dvalue",
                                     "activations", "dprojected"}
    IN  [lora         |-> Kernel(inputs, LoraGradients),
         loraMore     |-> Kernel(inputs \cup LoraGradients, LoraGradients),
         loraClear    |-> Kernel({}, LoraGradients),
         loraSgd      |-> Optimizer(LoraAdapters, LoraGradients),
         loraFinalize |-> Optimizer(LoraAdapters, LoraGradients),
         loraAdamw    |-> Optimizer(LoraAdapters \cup LoraMoments, LoraGradients)]

K == ForwardKernels ++ RmsBackwardKernels ++ LossKernels ++ LmHeadKernels
     ++ OutputKernels ++ QkvKernels ++ TableKernels ++ FfnKernels
     ++ AttentionKernels ++ ProjectionKernels ++ LoraKernels

-----------------------------------------------------------------------------
(* Buffers that hold values from construction on.                           *)

Weights == {"embeddings", "positions", "gamma", "query", "key", "value",
            "output", "lmHead"} \cup FfnWeights \cup LoraAdapters

Moments == {"lmHeadM", "lmHeadV", "outputM", "outputV", "positionM", "positionV",
            "qkvM", "qkvV", "gammaM", "gammaV", "ffnW1M", "ffnW1V", "ffnB1M",
            "ffnB1V", "ffnW2M", "ffnW2V", "ffnB2M", "ffnB2V"} \cup LoraMoments

\* The upload calls of initialize.
Uploaded == Weights \cup Moments \cup {"gammaGradient"} \cup FfnGradients

Scratch == (UNION {K[k].reads \cup K[k].writes : k \in DOMAIN K})
           \ (Weights \cup Moments)

=============================================================================
