---------------------------- MODULE TinyGraphProofs ----------------------------
(***************************************************************************)
(* Lemmas about the operations of the persistent Tiny graph, for every     *)
(* MaxStep and MaxCalls.  From the bottom up: the kernels, and which of    *)
(* them write parameters; the commands and the programs made of them; what *)
(* the buffers a program writes are computed from (Flow), met command by   *)
(* command; the effects of an operation, and what its outcomes add up to;  *)
(* every operation of the tables of TinyGraph in turn; and the programs    *)
(* that read nothing but what they have written.  NativeSessionsProofs     *)
(* draws the theorems from them.  GraphSession is extended for the names   *)
(* of the groups a checkpoint holds and of the optimizers.                 *)
(***************************************************************************)
EXTENDS GraphSession, TLAPS, SequenceTheorems, WellFoundedInduction

-----------------------------------------------------------------------------
\* Tables and kernels

LEMMA Merged ==
  ASSUME NEW f, NEW g
  PROVE  /\ DOMAIN (f ++ g) = DOMAIN f \cup DOMAIN g
         /\ \A x \in DOMAIN f : (f ++ g)[x] = f[x]
         /\ \A x \in DOMAIN g : x \notin DOMAIN f => (f ++ g)[x] = g[x]
BY DEF ++

\* f is merged from the tables: what is found in it is found in one of them.
MergedFrom(f, tables) ==
  /\ DOMAIN f = UNION {DOMAIN t : t \in tables}
  /\ \A x \in DOMAIN f : \E t \in tables : x \in DOMAIN t /\ f[x] = t[x]

LEMMA FromItself ==
  ASSUME NEW f
  PROVE  MergedFrom(f, {f})
BY DEF MergedFrom

LEMMA OneMore ==
  ASSUME NEW tables, NEW f, NEW g, MergedFrom(f, tables)
  PROVE  MergedFrom(f ++ g, tables \cup {g})
<1> DEFINE h == f ++ g
<1>1. /\ DOMAIN h = DOMAIN f \cup DOMAIN g
      /\ \A x \in DOMAIN f : h[x] = f[x]
      /\ \A x \in DOMAIN g : x \notin DOMAIN f => h[x] = g[x]
  BY Merged
<1> HIDE DEF h
<1>2. DOMAIN h = UNION {DOMAIN t : t \in tables \cup {g}}
  BY <1>1 DEF MergedFrom
<1>3. ASSUME NEW x \in DOMAIN h
      PROVE  \E t \in tables \cup {g} : x \in DOMAIN t /\ h[x] = t[x]
  <2>1. CASE x \in DOMAIN f
    BY <1>1, <2>1 DEF MergedFrom
  <2>2. CASE x \notin DOMAIN f
    BY <1>1, <1>3, <2>2
  <2> QED
    BY <2>1, <2>2
<1> QED
  BY <1>2, <1>3 DEF h, MergedFrom

KernelTables == {ForwardKernels, RmsBackwardKernels, LossKernels, LmHeadKernels, OutputKernels,
                 QkvKernels, TableKernels, FfnKernels, AttentionKernels, ProjectionKernels,
                 LoraKernels}

LEMMA KernelsFound == MergedFrom(K, KernelTables)
<1> DEFINE t1 == {ForwardKernels}
           t2 == t1 \cup {RmsBackwardKernels}
           t3 == t2 \cup {LossKernels}
           t4 == t3 \cup {LmHeadKernels}
           t5 == t4 \cup {OutputKernels}
           t6 == t5 \cup {QkvKernels}
           t7 == t6 \cup {TableKernels}
           t8 == t7 \cup {FfnKernels}
           t9 == t8 \cup {AttentionKernels}
           t10 == t9 \cup {ProjectionKernels}
           t11 == t10 \cup {LoraKernels}
           k2 == ForwardKernels ++ RmsBackwardKernels
           k3 == k2 ++ LossKernels
           k4 == k3 ++ LmHeadKernels
           k5 == k4 ++ OutputKernels
           k6 == k5 ++ QkvKernels
           k7 == k6 ++ TableKernels
           k8 == k7 ++ FfnKernels
           k9 == k8 ++ AttentionKernels
           k10 == k9 ++ ProjectionKernels
           k11 == k10 ++ LoraKernels
<1>1. K = k11
  BY DEF K
<1>2. MergedFrom(k2, t2)
  BY FromItself, OneMore
<1> HIDE DEF k2, t2
<1>3. MergedFrom(k3, t3)
  BY <1>2, OneMore
<1> HIDE DEF k3, t3
<1>4. MergedFrom(k4, t4)
  BY <1>3, OneMore
<1> HIDE DEF k4, t4
<1>5. MergedFrom(k5, t5)
  BY <1>4, OneMore
<1> HIDE DEF k5, t5
<1>6. MergedFrom(k6, t6)
  BY <1>5, OneMore
<1> HIDE DEF k6, t6
<1>7. MergedFrom(k7, t7)
  BY <1>6, OneMore
<1> HIDE DEF k7, t7
<1>8. MergedFrom(k8, t8)
  BY <1>7, OneMore
<1> HIDE DEF k8, t8
<1>9. MergedFrom(k9, t9)
  BY <1>8, OneMore
<1> HIDE DEF k9, t9
<1>10. MergedFrom(k10, t10)
  BY <1>9, OneMore
<1> HIDE DEF k10, t10
<1>11. MergedFrom(k11, t11)
  BY <1>10, OneMore
<1> HIDE DEF k11
<1>12. t11 = KernelTables
  BY DEF t2, t3, t4, t5, t6, t7, t8, t9, t10, KernelTables
<1> QED
  BY <1>1, <1>11, <1>12

\* The kernels by name, of the forward passes, losses and gradients and of the
\* optimizers.
Computing ==
  {"forward", "rmsForward", "rmsState", "rmsFixed", "rmsBackwardState", "rmsDgamma", "loss",
   "metrics", "lmBackward", "lmHeadGradient", "lmHeadGradientMore", "outputGradient",
   "qkvGradient", "embeddingGradient", "positionGradient", "ffnForward", "ffnBackward",
   "ffnGradient", "lmHeadForward", "rmsNormGradient", "attentionQ", "attentionK", "attentionV",
   "attentionFirstSet", "projBackward", "projQ", "projQMore", "projKV", "projVV", "lora",
   "loraMore", "loraClear"}

Optimizing ==
  {"lmHeadSgd", "lmHeadAdamw", "outputSgd", "outputAdamw", "qkvSgd", "qkvAdamw", "embeddingSgd",
   "positionSgd", "positionAdamw", "ffnW1Adamw", "ffnB1Adamw", "ffnW2Adamw", "ffnB2Adamw",
   "gammaAdamw", "loraSgd", "loraFinalize", "loraAdamw"}

LEMMA KernelDomains ==
  /\ DOMAIN ForwardKernels = {"forward", "rmsForward", "rmsState", "rmsFixed"}
  /\ DOMAIN RmsBackwardKernels = {"rmsBackwardState", "rmsDgamma"}
  /\ DOMAIN LossKernels = {"loss", "metrics", "lmBackward", "lmHeadGradient", "lmHeadGradientMore"}
  /\ DOMAIN LmHeadKernels = {"lmHeadSgd", "lmHeadAdamw"}
  /\ DOMAIN OutputKernels = {"outputGradient", "outputSgd", "outputAdamw"}
  /\ DOMAIN QkvKernels = {"qkvGradient", "qkvSgd", "qkvAdamw"}
  /\ DOMAIN TableKernels =
       {"embeddingGradient", "embeddingSgd", "positionGradient", "positionSgd", "positionAdamw"}
  /\ DOMAIN FfnKernels =
       {"ffnForward", "ffnBackward", "ffnGradient", "ffnW1Adamw", "ffnB1Adamw", "ffnW2Adamw",
        "ffnB2Adamw", "lmHeadForward", "rmsNormGradient", "gammaAdamw"}
  /\ DOMAIN AttentionKernels = {"attentionQ", "attentionK", "attentionV", "attentionFirstSet"}
  /\ DOMAIN ProjectionKernels = {"projBackward", "projQ", "projQMore", "projKV", "projVV"}
  /\ DOMAIN LoraKernels = {"lora", "loraMore", "loraClear", "loraSgd", "loraFinalize", "loraAdamw"}
BY DEF ForwardKernels, RmsBackwardKernels, LossKernels, LmHeadKernels, OutputKernels, QkvKernels,
       TableKernels, FfnKernels, AttentionKernels, ProjectionKernels, LoraKernels

LEMMA KernelNames == DOMAIN K = Computing \cup Optimizing
<1>1. DOMAIN K = UNION {DOMAIN t : t \in KernelTables}
  BY KernelsFound DEF MergedFrom
<1>2. UNION {DOMAIN t : t \in KernelTables} =
        UNION {DOMAIN ForwardKernels, DOMAIN RmsBackwardKernels, DOMAIN LossKernels,
               DOMAIN LmHeadKernels, DOMAIN OutputKernels, DOMAIN QkvKernels,
               DOMAIN TableKernels, DOMAIN FfnKernels, DOMAIN AttentionKernels,
               DOMAIN ProjectionKernels, DOMAIN LoraKernels}
  BY DEF KernelTables
<1> QED
  BY <1>1, <1>2, KernelDomains DEF Computing, Optimizing

\* A kernel that reads what LoRA accumulates writes nothing else but parameters.
KernelOK(kernel) ==
  /\ kernel.reads \cap LoraGradients # {} => kernel.writes \subseteq LoraGradients \cup Parameters

LEMMA KernelsOK == \A k \in DOMAIN K : KernelOK(K[k])
<1> USE DEF KernelOK, Kernel, Optimizer, LoraGradients, Parameters
<1>1. \A k \in DOMAIN ForwardKernels : KernelOK(ForwardKernels[k])
  BY KernelDomains DEF ForwardKernels, ForwardReads, ForwardWrites
<1>2. \A k \in DOMAIN RmsBackwardKernels : KernelOK(RmsBackwardKernels[k])
  BY KernelDomains DEF RmsBackwardKernels
<1>3. \A k \in DOMAIN LossKernels : KernelOK(LossKernels[k])
  BY KernelDomains DEF LossKernels
<1>4. \A k \in DOMAIN LmHeadKernels : KernelOK(LmHeadKernels[k])
  BY KernelDomains DEF LmHeadKernels
<1>5. \A k \in DOMAIN OutputKernels : KernelOK(OutputKernels[k])
  BY KernelDomains DEF OutputKernels
<1>6. \A k \in DOMAIN QkvKernels : KernelOK(QkvKernels[k])
  BY KernelDomains DEF QkvKernels, QkvGradients
<1>7. \A k \in DOMAIN TableKernels : KernelOK(TableKernels[k])
  BY KernelDomains DEF TableKernels
<1>8. \A k \in DOMAIN FfnKernels : KernelOK(FfnKernels[k])
  BY KernelDomains DEF FfnKernels, FfnWeights, FfnGradients
<1>9. \A k \in DOMAIN AttentionKernels : KernelOK(AttentionKernels[k])
  BY KernelDomains DEF AttentionKernels
<1>10. \A k \in DOMAIN ProjectionKernels : KernelOK(ProjectionKernels[k])
  BY KernelDomains DEF ProjectionKernels
<1>11. \A k \in DOMAIN LoraKernels : KernelOK(LoraKernels[k])
  BY KernelDomains DEF LoraKernels, LoraAdapters, LoraMoments, Weights, Moments
<1> QED
  BY KernelsFound, <1>1, <1>2, <1>3, <1>4, <1>5, <1>6, <1>7, <1>8, <1>9, <1>10, <1>11
  DEF MergedFrom, KernelTables

\* Only optimizers write parameters.
LEMMA ComputingWrites == \A k \in Computing : K[k].writes \cap Parameters = {}
<1> DEFINE Harmless(t) == \A k \in DOMAIN t \cap Computing : t[k].writes \cap Parameters = {}
<1> USE DEF Kernel, Optimizer, Parameters, Weights, Moments, LoraAdapters, LoraMoments, FfnWeights
<1>1. Harmless(ForwardKernels)
  BY KernelDomains DEF ForwardKernels, ForwardReads, ForwardWrites
<1>2. Harmless(RmsBackwardKernels)
  BY KernelDomains DEF RmsBackwardKernels
<1>3. Harmless(LossKernels)
  BY KernelDomains DEF LossKernels
<1>4. Harmless(LmHeadKernels)
  BY KernelDomains DEF Computing
<1>5. Harmless(OutputKernels)
  BY KernelDomains DEF OutputKernels, Computing
<1>6. Harmless(QkvKernels)
  BY KernelDomains DEF QkvKernels, QkvGradients, Computing
<1>7. Harmless(TableKernels)
  BY KernelDomains DEF TableKernels, Computing
<1>8. Harmless(FfnKernels)
  BY KernelDomains DEF FfnKernels, FfnGradients, Computing
<1>9. Harmless(AttentionKernels)
  BY KernelDomains DEF AttentionKernels
<1>10. Harmless(ProjectionKernels)
  BY KernelDomains DEF ProjectionKernels
<1>11. Harmless(LoraKernels)
  BY KernelDomains DEF LoraKernels, LoraGradients, Computing
<1>12. \A t \in KernelTables : Harmless(t)
  BY <1>1, <1>2, <1>3, <1>4, <1>5, <1>6, <1>7, <1>8, <1>9, <1>10, <1>11 DEF KernelTables
<1>13. \A k \in Computing : \E t \in KernelTables : k \in DOMAIN t /\ K[k] = t[k]
  BY KernelsFound, KernelNames DEF MergedFrom
<1> QED
  BY <1>12, <1>13

-----------------------------------------------------------------------------
\* Commands and programs

Buffers == Scratch \cup Parameters \cup Given

Place == Buffers \X Int \X Int

NamesOf(places) == {q[1] : q \in places}

Barriers == [stage : {"barrier"}, from : SUBSET AnyStage, to : SUBSET AnyStage,
             makes : SUBSET AnyAccess, shows : SUBSET AnyAccess, on : SUBSET Buffers]

\* Dispatches, copies and fills.
Works ==
  {c \in [stage : AnyStage, reads : SUBSET Place, writes : SUBSET Place] :
     NamesOf(c.reads) \cap LoraGradients # {}
       => NamesOf(c.writes) \ Given \subseteq LoraGradients \cup Parameters}

Command == Barriers \cup Works

\* Commands that leave the parameters alone.
HarmlessCommand == Barriers \cup {c \in Works : NamesOf(c.writes) \cap Parameters = {}}

LEMMA CommandStages ==
  /\ \A c \in Barriers : c.stage = "barrier"
  /\ \A c \in Works : c.stage # "barrier"
BY DEF Barriers, Works, AnyStage

LEMMA WholePlace ==
  ASSUME NEW b \in Buffers
  PROVE  Whole(b) \in Place /\ Whole(b)[1] = b
BY DEF Whole, Place

LEMMA DispatchIs ==
  ASSUME NEW k \in DOMAIN K
  PROVE  /\ Dispatch(K[k]) \in Works
         /\ NamesOf(Dispatch(K[k]).reads) = K[k].reads
         /\ NamesOf(Dispatch(K[k]).writes) = K[k].writes
         /\ k \in Computing => Dispatch(K[k]) \in HarmlessCommand
<1> DEFINE r == K[k].reads
           w == K[k].writes
           d == Dispatch(K[k])
<1>1. r \subseteq Buffers /\ w \subseteq Buffers
  BY DEF Buffers, Scratch, Parameters
<1>2. r \cap LoraGradients # {} => w \subseteq LoraGradients \cup Parameters
  BY KernelsOK DEF KernelOK
<1>3. k \in Computing => w \cap Parameters = {}
  BY ComputingWrites
<1>4. d = [stage |-> "C", reads |-> {Whole(b) : b \in r}, writes |-> {Whole(b) : b \in w}]
  BY DEF Dispatch
<1> HIDE DEF r, w, d
<1>5. {Whole(b) : b \in r} \subseteq Place /\ {Whole(b) : b \in w} \subseteq Place
  BY <1>1, WholePlace
<1>6. NamesOf({Whole(b) : b \in r}) = r /\ NamesOf({Whole(b) : b \in w}) = w
  BY <1>1, WholePlace DEF NamesOf
<1>7. NamesOf(d.reads) = r /\ NamesOf(d.writes) = w
  BY <1>4, <1>6
<1>8. d \in Works
  BY <1>2, <1>4, <1>5, <1>7 DEF Works, AnyStage
<1> QED
  BY <1>3, <1>7, <1>8 DEF d, r, w, HarmlessCommand

LEMMA CopyIs ==
  ASSUME NEW p \in Place, NEW q \in Place, p[1] \in LoraGradients => q[1] \in Given
  PROVE  /\ Copy(p, q) \in Works
         /\ NamesOf(Copy(p, q).reads) = {p[1]} /\ NamesOf(Copy(p, q).writes) = {q[1]}
         /\ q[1] \notin Parameters => Copy(p, q) \in HarmlessCommand
<1> DEFINE c == Copy(p, q)
<1>1. c = [stage |-> "T", reads |-> {p}, writes |-> {q}]
  BY DEF Copy
<1> HIDE DEF c
<1>2. NamesOf(c.reads) = {p[1]} /\ NamesOf(c.writes) = {q[1]}
  BY <1>1 DEF NamesOf
<1>3. c \in Works
  BY <1>1, <1>2 DEF Works, AnyStage
<1> QED
  BY <1>2, <1>3 DEF c, HarmlessCommand

LEMMA FillIs ==
  ASSUME NEW q \in Place
  PROVE  /\ Fill(q) \in Works
         /\ NamesOf(Fill(q).reads) = {} /\ NamesOf(Fill(q).writes) = {q[1]}
         /\ q[1] \notin Parameters => Fill(q) \in HarmlessCommand
<1> DEFINE c == Fill(q)
<1>1. c = [stage |-> "T", reads |-> {}, writes |-> {q}]
  BY DEF Fill
<1> HIDE DEF c
<1>2. NamesOf(c.reads) = {} /\ NamesOf(c.writes) = {q[1]}
  BY <1>1 DEF NamesOf
<1>3. c \in Works
  BY <1>1, <1>2 DEF Works, AnyStage
<1> QED
  BY <1>2, <1>3 DEF c, HarmlessCommand

LEMMA BarrierIs ==
  ASSUME NEW f \in SUBSET AnyStage, NEW t \in SUBSET AnyStage, NEW m \in SUBSET AnyAccess,
         NEW s \in SUBSET AnyAccess, NEW on \in SUBSET Buffers
  PROVE  Barrier(f, t, m, s, on) \in Barriers
BY DEF Barrier, Barriers

LEMMA CommandSets == Barriers \subseteq HarmlessCommand /\ HarmlessCommand \subseteq Command
BY DEF HarmlessCommand, Command

\* The barriers every program is made of.
LEMMA CommonBarriers ==
  /\ UploadDone \in Barriers /\ KernelDone \in Barriers
  /\ ResultDone \in Barriers /\ KernelWrites \in Barriers
  /\ \A m, s \in SUBSET AnyAccess :
       Barrier({"T"}, {"T"}, m, s, {"trainingStaging"}) \in Barriers
<1>1. {"T"} \in SUBSET AnyStage /\ {"C"} \in SUBSET AnyStage
  BY DEF AnyStage
<1>2. /\ {"TW"} \in SUBSET AnyAccess /\ {"TR"} \in SUBSET AnyAccess
      /\ {"CW"} \in SUBSET AnyAccess /\ {"CR"} \in SUBSET AnyAccess
  BY DEF AnyAccess
<1>3. {} \in SUBSET Buffers /\ {"trainingStaging"} \in SUBSET Buffers
  BY DEF Buffers, Given
<1> QED
  BY <1>1, <1>2, <1>3, BarrierIs DEF UploadDone, KernelDone, ResultDone, KernelWrites

\* Buffers that programs name.
LEMMA BufferNames ==
  /\ {"tokens", "targets", "mask", "states", "gammaInput", "ffnOutput", "projected", "ffnDx",
      "dprojected", "rmsDx", "dcontext", "doutput", "dstates", "logits", "rowLoss", "metrics",
      "activations", "dlogits", "dquery", "dkey", "dvalue", "loraDA", "loraDB"}
       \subseteq Scratch
  /\ Scratch \cap Parameters = {}
<1>1. Scratch = (UNION {K[k].reads \cup K[k].writes : k \in Computing \cup Optimizing}) \ Parameters
  BY KernelNames DEF Scratch, Parameters
<1>2. \A k \in Computing : \E t \in KernelTables : k \in DOMAIN t /\ K[k] = t[k]
  BY KernelsFound, KernelNames DEF MergedFrom
<1> DEFINE Is(k, t) == k \in Computing => K[k] = t[k]
<1>3. \A k \in DOMAIN ForwardKernels : Is(k, ForwardKernels)
  BY <1>2, KernelDomains DEF KernelTables
<1>4. \A k \in DOMAIN LossKernels : Is(k, LossKernels)
  BY <1>2, KernelDomains DEF KernelTables
<1>5. \A k \in DOMAIN FfnKernels : Is(k, FfnKernels)
  BY <1>2, KernelDomains DEF KernelTables
<1>6. \A k \in DOMAIN RmsBackwardKernels : Is(k, RmsBackwardKernels)
  BY <1>2, KernelDomains DEF KernelTables
<1>7. \A k \in DOMAIN ProjectionKernels : Is(k, ProjectionKernels)
  BY <1>2, KernelDomains DEF KernelTables
<1>8. \A k \in DOMAIN AttentionKernels : Is(k, AttentionKernels)
  BY <1>2, KernelDomains DEF KernelTables
<1>9. \A k \in DOMAIN LoraKernels : Is(k, LoraKernels)
  BY <1>2, KernelDomains DEF KernelTables
<1>10. \A k \in Computing : K[k].reads \cup K[k].writes \subseteq Scratch \cup Parameters
  BY <1>1
<1> USE DEF Kernel
<1>11. {"tokens", "states", "activations", "projected", "logits"} \subseteq Scratch \cup Parameters
  <2>1. K["forward"] = ForwardKernels["forward"] /\ "forward" \in Computing
    BY <1>3, KernelDomains DEF Computing
  <2>2. K["forward"] = Kernel(ForwardReads, ForwardWrites)
    BY <2>1 DEF ForwardKernels
  <2> QED
    BY <1>10, <2>1, <2>2 DEF ForwardReads, ForwardWrites
<1>12. {"targets", "mask", "dlogits", "rowLoss", "metrics", "dprojected"} \subseteq Scratch \cup Parameters
  <2>1. /\ K["loss"] = LossKernels["loss"] /\ K["metrics"] = LossKernels["metrics"]
        /\ K["lmBackward"] = LossKernels["lmBackward"]
        /\ {"loss", "metrics", "lmBackward"} \subseteq Computing
    BY <1>4, KernelDomains DEF Computing
  <2> QED
    BY <1>10, <2>1 DEF LossKernels
<1>13. {"ffnOutput", "ffnDx", "gammaInput"} \subseteq Scratch \cup Parameters
  <2>1. /\ K["ffnForward"] = FfnKernels["ffnForward"] /\ K["ffnBackward"] = FfnKernels["ffnBackward"]
        /\ K["rmsNormGradient"] = FfnKernels["rmsNormGradient"]
        /\ {"ffnForward", "ffnBackward", "rmsNormGradient"} \subseteq Computing
    BY <1>5, KernelDomains DEF Computing
  <2> QED
    BY <1>10, <2>1 DEF FfnKernels
<1>14. {"rmsDx"} \subseteq Scratch \cup Parameters
  <2>1. /\ K["rmsBackwardState"] = RmsBackwardKernels["rmsBackwardState"]
        /\ "rmsBackwardState" \in Computing
    BY <1>6, KernelDomains DEF Computing
  <2> QED
    BY <1>10, <2>1 DEF RmsBackwardKernels
<1>15. {"dcontext", "dstates"} \subseteq Scratch \cup Parameters
  <2>1. /\ K["projBackward"] = ProjectionKernels["projBackward"] /\ K["projQ"] = ProjectionKernels["projQ"]
        /\ {"projBackward", "projQ"} \subseteq Computing
    BY <1>7, KernelDomains DEF Computing
  <2> QED
    BY <1>10, <2>1 DEF ProjectionKernels
<1>16. {"doutput", "dquery", "dkey", "dvalue"} \subseteq Scratch \cup Parameters
  <2>1. /\ K["attentionQ"] = AttentionKernels["attentionQ"] /\ K["attentionK"] = AttentionKernels["attentionK"]
        /\ K["attentionV"] = AttentionKernels["attentionV"]
        /\ {"attentionQ", "attentionK", "attentionV"} \subseteq Computing
    BY <1>8, KernelDomains DEF Computing
  <2> QED
    BY <1>10, <2>1 DEF AttentionKernels
<1>17. {"loraDA", "loraDB"} \subseteq Scratch \cup Parameters
  <2>1. K["loraClear"] = LoraKernels["loraClear"] /\ "loraClear" \in Computing
    BY <1>9, KernelDomains DEF Computing
  <2> QED
    BY <1>10, <2>1 DEF LoraKernels, LoraGradients
<1>18. ({"tokens", "targets", "mask", "states", "gammaInput", "ffnOutput", "projected", "ffnDx",
         "dprojected", "rmsDx", "dcontext", "doutput", "dstates", "logits", "rowLoss", "metrics",
         "activations", "dlogits", "dquery", "dkey", "dvalue", "loraDA", "loraDB"}
        \cap Parameters) = {}
  BY DEF Parameters, Weights, Moments, FfnWeights, LoraAdapters, LoraMoments
<1> QED
  BY <1>11, <1>12, <1>13, <1>14, <1>15, <1>16, <1>17, <1>18 DEF Scratch, Parameters

-----------------------------------------------------------------------------
\* Programs from their pieces

LEMMA ChainIs ==
  ASSUME NEW S, NEW between \in S, NEW kernels, Len(kernels) \in Nat \ {0},
         \A n \in 1 .. Len(kernels) : Dispatch(kernels[n]) \in S
  PROVE  Chain(kernels, between) \in Seq(S)
<1> DEFINE L == Len(kernels)
           c == Chain(kernels, between)
<1>1. c = [n \in 1 .. 2 * L - 1 |-> IF n % 2 = 1 THEN Dispatch(kernels[(n + 1) \div 2]) ELSE between]
  BY DEF Chain
<1>2. 2 * L - 1 \in Nat
  OBVIOUS
<1>3. \A n \in 1 .. 2 * L - 1 : (n + 1) \div 2 \in 1 .. L
  OBVIOUS
<1> HIDE DEF L, c
<1>4. c \in [1 .. 2 * L - 1 -> S]
  BY <1>1, <1>3 DEF L
<1>5. c \in Seq(S)
  BY <1>2, <1>4
<1> QED
  BY <1>5 DEF c

LEMMA RunIs ==
  ASSUME NEW ks \in Seq(DOMAIN K), Len(ks) > 0
  PROVE  /\ Run(ks) \in Seq(Command)
         /\ ks \in Seq(Computing) => Run(ks) \in Seq(HarmlessCommand)
<1> DEFINE kernels == [n \in DOMAIN ks |-> K[ks[n]]]
<1>1. /\ Len(ks) \in Nat \ {0} /\ DOMAIN ks = 1 .. Len(ks)
      /\ \A n \in 1 .. Len(ks) : ks[n] \in DOMAIN K
  BY LenProperties
<1>2. Len(kernels) = Len(ks) /\ \A n \in 1 .. Len(ks) : kernels[n] = K[ks[n]]
  BY <1>1
<1>3. Run(ks) = Chain(kernels, KernelDone)
  BY DEF Run
<1> HIDE DEF kernels
<1>4. \A n \in 1 .. Len(kernels) : Dispatch(kernels[n]) \in Command
  BY <1>1, <1>2, DispatchIs DEF Command
<1>5. ASSUME ks \in Seq(Computing)
      PROVE  \A n \in 1 .. Len(kernels) : Dispatch(kernels[n]) \in HarmlessCommand
  BY <1>1, <1>2, <1>5, DispatchIs
<1>6. KernelDone \in Command /\ KernelDone \in HarmlessCommand
  BY CommonBarriers, CommandSets
<1> QED
  BY <1>1, <1>2, <1>3, <1>4, <1>5, <1>6, ChainIs

LEMMA DoIs ==
  ASSUME NEW k \in DOMAIN K
  PROVE  /\ Do(k) \in Seq(Command)
         /\ k \in Computing => Do(k) \in Seq(HarmlessCommand)
BY DispatchIs DEF Do, Command

LEMMA OneBarrier ==
  ASSUME NEW b \in Barriers
  PROVE  <<b>> \in Seq(HarmlessCommand)
BY CommandSets

LEMMA HarmlessProgram ==
  ASSUME NEW p \in Seq(HarmlessCommand)
  PROVE  p \in Seq(Command)
BY CommandSets

LEMMA StagingBarrierIs ==
  ASSUME NEW m \in SUBSET AnyAccess, NEW s \in SUBSET AnyAccess
  PROVE  StagingBarrier(m, s) \in Seq(HarmlessCommand)
BY CommonBarriers, CommandSets DEF StagingBarrier

\* A copy of one whole buffer to another that is not a parameter.
LEMMA DeviceCopyIs ==
  ASSUME NEW b \in Buffers \ LoraGradients, NEW d \in Buffers \ Parameters
  PROVE  Copy(Whole(b), Whole(d)) \in HarmlessCommand
BY WholePlace, CopyIs

LEMMA CarryOverIs ==
  ASSUME NEW b \in Buffers \ LoraGradients, NEW d \in Buffers \ Parameters
  PROVE  CarryOver(b, d) \in Seq(HarmlessCommand)
<1>1. Copy(Whole(b), Whole(d)) \in HarmlessCommand
  BY DeviceCopyIs
<1>2. /\ AnyStage \in SUBSET AnyStage /\ {"T"} \in SUBSET AnyStage
      /\ {"CW"} \in SUBSET AnyAccess /\ {"TR"} \in SUBSET AnyAccess /\ {"TW"} \in SUBSET AnyAccess
      /\ {"CR", "TR", "TW"} \in SUBSET AnyAccess
      /\ {b} \in SUBSET Buffers /\ {d} \in SUBSET Buffers
  BY DEF AnyStage, AnyAccess
<1>3. /\ Barrier(AnyStage, {"T"}, {"CW"}, {"TR"}, {b}) \in HarmlessCommand
      /\ Barrier(AnyStage, {"T"}, {"CR", "TR", "TW"}, {"TW"}, {d}) \in HarmlessCommand
      /\ UploadDone \in HarmlessCommand
  BY <1>2, BarrierIs, CommonBarriers, CommandSets
<1> QED
  BY <1>1, <1>3 DEF CarryOver

LEMMA StagingPlace ==
  ASSUME NEW at \in Int, NEW bytes \in Int
  PROVE  /\ Staging(at, bytes) \in Place /\ Staging(at, bytes)[1] = "trainingStaging"
         /\ Readback(bytes) \in Place /\ Readback(bytes)[1] = "readback"
         /\ {"trainingStaging", "readback"} \subseteq Given \ Parameters
<1>1. {"trainingStaging", "readback"} \subseteq Given \ Parameters
  BY DEF Given, Parameters, Weights, Moments, FfnWeights, LoraAdapters, LoraMoments
<1> QED
  BY <1>1 DEF Staging, Readback, Place, Buffers

\* A copy out of the staging buffer, and one into it or into readback_.
LEMMA StagingCopyIs ==
  ASSUME NEW at \in Int, NEW bytes \in Int, NEW b \in Buffers
  PROVE  /\ b \notin Parameters => Copy(Staging(at, bytes), Whole(b)) \in HarmlessCommand
         /\ Copy(Staging(at, bytes), Whole(b)) \in Command
         /\ Copy(Whole(b), Staging(at, bytes)) \in HarmlessCommand
         /\ Copy(Whole(b), Readback(bytes)) \in HarmlessCommand
<1>1. "trainingStaging" \notin LoraGradients
  BY DEF LoraGradients
<1> QED
  BY <1>1, StagingPlace, WholePlace, CopyIs DEF Command

LEMMA WindowIs ==
  CopyWindow \in Seq(HarmlessCommand) /\ LoadWindow \in Seq(HarmlessCommand)
<1>1. CopyWindow \in Seq(HarmlessCommand)
  BY StagingCopyIs, BufferNames DEF CopyWindow, Buffers
<1>2. <<UploadDone>> \in Seq(HarmlessCommand)
  BY CommonBarriers, OneBarrier
<1> QED
  BY <1>1, <1>2 DEF LoadWindow

-----------------------------------------------------------------------------
\* The programs of the graph

KernelName == Computing \cup Optimizing

\* Runs of named kernels.
LEMMA RunOfComputing ==
  ASSUME NEW ks \in Seq(Computing), Len(ks) > 0
  PROVE  Run(ks) \in Seq(HarmlessCommand)
BY KernelNames, RunIs

LEMMA RunOfSome ==
  ASSUME NEW ks \in Seq(KernelName), Len(ks) > 0
  PROVE  Run(ks) \in Seq(Command)
BY KernelNames, RunIs DEF KernelName

LEMMA DoOf ==
  /\ \A k \in Computing : Do(k) \in Seq(HarmlessCommand)
  /\ \A k \in KernelName : Do(k) \in Seq(Command)
BY KernelNames, DoIs DEF KernelName

LEMMA OffsetIsInt == adamw_staging_offset(4) \in Int
BY DEF adamw_staging_offset, Larger, Floats, Tcap, H, Vp

\* The copies, barriers and kernels of a program that changes no parameter.
LEMMA Pieces ==
  /\ \A at, bytes \in Int, b \in Buffers : Copy(Whole(b), Staging(at, bytes)) \in HarmlessCommand
  /\ \A bytes \in Int, b \in Buffers : Copy(Whole(b), Readback(bytes)) \in HarmlessCommand
  /\ \A at, bytes \in Int, b \in Scratch : Copy(Staging(at, bytes), Whole(b)) \in HarmlessCommand
  /\ \A b \in Scratch \cup Given, d \in Scratch :
       b \notin LoraGradients => Copy(Whole(b), Whole(d)) \in HarmlessCommand
  /\ \A b \in Scratch : Fill(Whole(b)) \in HarmlessCommand
  /\ \A c \in {UploadDone, KernelDone, ResultDone, KernelWrites} : c \in HarmlessCommand
  /\ \A m, s \in {Transfers, {"TR"}, {"TW"}} : StagingBarrier(m, s) \in Seq(HarmlessCommand)
  /\ \A b \in Scratch : b \in Buffers
<1>1. Scratch \subseteq Buffers /\ Scratch \cap Parameters = {} /\ Given \subseteq Buffers
  BY BufferNames DEF Buffers
<1>2. {Transfers, {"TR"}, {"TW"}} \subseteq SUBSET AnyAccess
  BY DEF Transfers, AnyAccess
<1>3. \A b \in Scratch : Fill(Whole(b)) \in HarmlessCommand
  BY <1>1, WholePlace, FillIs
<1>4. \A m, s \in {Transfers, {"TR"}, {"TW"}} : StagingBarrier(m, s) \in Seq(HarmlessCommand)
  BY <1>2, StagingBarrierIs
<1>5. \A b \in Scratch \cup Given, d \in Scratch :
        b \notin LoraGradients => Copy(Whole(b), Whole(d)) \in HarmlessCommand
  BY <1>1, DeviceCopyIs
<1>6. \A c \in {UploadDone, KernelDone, ResultDone, KernelWrites} : c \in HarmlessCommand
  BY CommonBarriers, CommandSets
<1> QED
  BY <1>1, <1>3, <1>4, <1>5, <1>6, StagingCopyIs

LEMMA SizesAreInts ==
  /\ \A n \in Int : Floats(n) \in Int
  /\ H \in Int /\ Vp \in Int /\ Tcap \in Int /\ V \in Int
  /\ {Floats(Tcap * Vp), Floats(Tcap), Floats(Vp), Floats(H), 1536 + Floats(Tcap * Vp),
      Floats(Tcap * H), 520 + Floats(Vp), 520 + Floats(Vp) + 4, Floats(4 * H)} \subseteq Int
BY DEF Floats, H, Vp, Tcap, V

LEMMA ForwardPrograms ==
  /\ forward \in Seq(HarmlessCommand)
  /\ forward_fixed_retained \in Seq(HarmlessCommand)
  /\ forward_loss_fixed_retained \in Seq(HarmlessCommand)
  /\ forward_loss_fixed_metrics \in Seq(HarmlessCommand)
<1> USE Pieces
<1>1. /\ {"logits", "rowLoss", "tokens", "projected", "activations", "ffnOutput", "metrics"} \subseteq Scratch
      /\ {"projected", "ffnOutput"} \cap LoraGradients = {}
  BY BufferNames DEF LoraGradients
<1>2. Do("forward") \in Seq(HarmlessCommand) /\ Do("ffnForward") \in Seq(HarmlessCommand)
  BY DoOf DEF Computing
<1>3. <<ResultDone, Copy(Whole("logits"), Readback(Floats(Tcap * Vp)))>> \in Seq(HarmlessCommand)
  BY <1>1, SizesAreInts
<1>4. forward \in Seq(HarmlessCommand)
  BY <1>2, <1>3 DEF forward
<1>5. /\ StagingBarrier(Transfers, {"TR"}) \in Seq(HarmlessCommand)
      /\ StagingBarrier(Transfers, {"TW"}) \in Seq(HarmlessCommand)
      /\ StagingBarrier({"TW"}, Transfers) \in Seq(HarmlessCommand)
      /\ StagingBarrier({"TR"}, {"TW"}) \in Seq(HarmlessCommand)
      /\ <<UploadDone>> \in Seq(HarmlessCommand) /\ <<ResultDone>> \in Seq(HarmlessCommand)
      /\ <<KernelDone>> \in Seq(HarmlessCommand)
  OBVIOUS
<1>6. forward_fixed_retained \in Seq(HarmlessCommand)
  <2>1. <<Copy(Staging(0, 512), Whole("tokens")), UploadDone>> \in Seq(HarmlessCommand)
    BY <1>1
  <2> QED
    BY <1>2, <1>3, <1>5, <2>1 DEF forward_fixed_retained
<1>7. forward_loss_fixed_retained \in Seq(HarmlessCommand)
  <2>1. Run(<<"forward", "ffnForward", "loss">>) \in Seq(HarmlessCommand)
    <3>1. <<"forward", "ffnForward", "loss">> \in Seq(Computing) /\ Len(<<"forward", "ffnForward", "loss">>) > 0
      BY DEF Computing
    <3> QED
      BY <3>1, RunOfComputing
  <2>2. <<Copy(Whole("logits"), Staging(1536, Floats(Tcap * Vp))),
          Copy(Whole("rowLoss"), Staging(1536 + Floats(Tcap * Vp), Floats(Tcap)))>>
          \in Seq(HarmlessCommand)
    <3>1. {1536, Floats(Tcap * Vp), 1536 + Floats(Tcap * Vp), Floats(Tcap)} \subseteq Int
      BY SizesAreInts
    <3>2. /\ Copy(Whole("logits"), Staging(1536, Floats(Tcap * Vp))) \in HarmlessCommand
          /\ Copy(Whole("rowLoss"), Staging(1536 + Floats(Tcap * Vp), Floats(Tcap))) \in HarmlessCommand
      BY <1>1, <3>1
    <3> QED
      BY <3>2
  <2> QED
    BY WindowIs, <1>5, <2>1, <2>2 DEF forward_loss_fixed_retained
<1>8. forward_loss_fixed_metrics \in Seq(HarmlessCommand)
  <2>1. Run(<<"lmHeadForward", "loss", "metrics">>) \in Seq(HarmlessCommand)
    <3>1. <<"lmHeadForward", "loss", "metrics">> \in Seq(Computing) /\ Len(<<"lmHeadForward", "loss", "metrics">>) > 0
      BY DEF Computing
    <3> QED
      BY <3>1, RunOfComputing
  <2>2. <<Copy(Whole("projected"), Whole("activations")), UploadDone>> \in Seq(HarmlessCommand)
    BY <1>1
  <2>3. <<Barrier({"T"}, {"T"}, {"TR"}, {"TW"}, {"projected"}),
          Copy(Whole("ffnOutput"), Whole("projected")), UploadDone>> \in Seq(HarmlessCommand)
    <3>1. Barrier({"T"}, {"T"}, {"TR"}, {"TW"}, {"projected"}) \in HarmlessCommand
      BY <1>1, BarrierIs, CommandSets DEF AnyStage, AnyAccess, Buffers
    <3> QED
      BY <1>1, <3>1
  <2>4. <<Barrier(AnyStage, {"T"}, Transfers, {"TW"}, {"trainingStaging"})>> \in Seq(HarmlessCommand)
    <3>1. Barrier(AnyStage, {"T"}, Transfers, {"TW"}, {"trainingStaging"}) \in HarmlessCommand
      BY BarrierIs, CommandSets DEF AnyStage, AnyAccess, Transfers, Buffers, Given
    <3> QED
      BY <3>1
  <2>5. <<Copy(Whole("metrics"), Staging(1536, 8))>> \in Seq(HarmlessCommand)
    BY <1>1
  <2>6. StagingBarrier(Transfers, {"TR"}) \o LoadWindow \o Do("forward") \o <<KernelDone>>
        \o <<Copy(Whole("projected"), Whole("activations")), UploadDone>>
        \o Do("ffnForward") \o <<KernelDone>> \in Seq(HarmlessCommand)
    BY WindowIs, <1>2, <1>5, <2>2
  <2> QED
    BY <1>5, <2>1, <2>3, <2>4, <2>5, <2>6 DEF forward_loss_fixed_metrics
<1> QED
  BY <1>4, <1>6, <1>7, <1>8

LEMMA StateGradientIs ==
  /\ StateGradient \in Seq(Computing) /\ Len(StateGradient) = 6
  /\ LossGradient \in Seq(Computing) /\ Len(LossGradient) = 3
BY DEF StateGradient, LossGradient, Computing

LEMMA GradientPrograms ==
  /\ readback_graph_dstate \in Seq(HarmlessCommand)
  /\ evaluate_dataset_batch \in Seq(HarmlessCommand)
  /\ CopyDatasetWindow \in Seq(HarmlessCommand)
<1> USE Pieces
<1>1. /\ {"dstates", "ffnOutput", "projected", "dcontext", "doutput", "tokens", "targets", "mask",
          "metrics"} \subseteq Scratch
      /\ {"ffnOutput", "dcontext", "batchTokens", "batchTargets", "batchMasks"} \cap LoraGradients = {}
      /\ {"batchTokens", "batchTargets", "batchMasks"} \subseteq Given
  BY BufferNames DEF LoraGradients, Given
<1>2. /\ <<UploadDone>> \in Seq(HarmlessCommand) /\ <<ResultDone>> \in Seq(HarmlessCommand)
      /\ <<KernelDone>> \in Seq(HarmlessCommand)
      /\ <<KernelDone, ResultDone>> \in Seq(HarmlessCommand)
      /\ StagingBarrier(Transfers, {"TW"}) \in Seq(HarmlessCommand)
      /\ StagingBarrier(Transfers, {"TR"}) \in Seq(HarmlessCommand)
      /\ StagingBarrier({"TW"}, Transfers) \in Seq(HarmlessCommand)
  OBVIOUS
<1>3. readback_graph_dstate \in Seq(HarmlessCommand)
  <2>1. /\ <<"forward", "ffnForward">> \in Seq(Computing) /\ Len(<<"forward", "ffnForward">>) > 0
        /\ <<"loss", "lmBackward", "projBackward">> \in Seq(Computing)
        /\ Len(<<"loss", "lmBackward", "projBackward">>) > 0
        /\ StateGradient \in Seq(Computing) /\ Len(StateGradient) > 0
    BY StateGradientIs DEF Computing
  <2>2. /\ Run(<<"forward", "ffnForward">>) \in Seq(HarmlessCommand)
        /\ Run(<<"loss", "lmBackward", "projBackward">>) \in Seq(HarmlessCommand)
        /\ Run(StateGradient) \in Seq(HarmlessCommand)
    BY <2>1, RunOfComputing
  <2>3. <<Fill(Whole("dstates")), UploadDone>> \in Seq(HarmlessCommand)
    BY <1>1
  <2>4. <<Copy(Whole("ffnOutput"), Whole("projected")), KernelDone>> \in Seq(HarmlessCommand)
    BY <1>1
  <2>5. <<Copy(Whole("dcontext"), Whole("doutput")), UploadDone>> \in Seq(HarmlessCommand)
    BY <1>1
  <2>6. <<Copy(Whole("dstates"), Staging(0, Floats(Tcap * H)))>> \in Seq(HarmlessCommand)
    <3>1. Copy(Whole("dstates"), Staging(0, Floats(Tcap * H))) \in HarmlessCommand
      BY <1>1, SizesAreInts
    <3> QED
      BY <3>1
  <2>7. CopyWindow \o <<Fill(Whole("dstates")), UploadDone>>
        \o Run(<<"forward", "ffnForward">>) \o <<KernelDone>>
        \o <<Copy(Whole("ffnOutput"), Whole("projected")), KernelDone>>
        \o Run(<<"loss", "lmBackward", "projBackward">>) \o <<KernelDone, ResultDone>>
        \in Seq(HarmlessCommand)
    BY WindowIs, <1>2, <2>2, <2>3, <2>4
  <2> QED
    BY <1>2, <2>2, <2>5, <2>6, <2>7 DEF readback_graph_dstate
<1>4. CopyDatasetWindow \in Seq(HarmlessCommand)
  BY <1>1 DEF CopyDatasetWindow
<1>5. evaluate_dataset_batch \in Seq(HarmlessCommand)
  <2> DEFINE window(w) ==
        CopyDatasetWindow
        \o Run(<<"forward", "loss", "metrics">>) \o <<ResultDone>>
        \o StagingBarrier(Transfers, {"TW"})
        \o <<Copy(Whole("metrics"), Staging(8 * w, 8))>>
        \o StagingBarrier({"TW"}, Transfers)
  <2>1. Run(<<"forward", "loss", "metrics">>) \in Seq(HarmlessCommand)
    <3>1. <<"forward", "loss", "metrics">> \in Seq(Computing) /\ Len(<<"forward", "loss", "metrics">>) > 0
      BY DEF Computing
    <3> QED
      BY <3>1, RunOfComputing
  <2>2. ASSUME NEW w \in {0, 1} PROVE window(w) \in Seq(HarmlessCommand)
    <3>1. Copy(Whole("metrics"), Staging(8 * w, 8)) \in HarmlessCommand
      BY <1>1
    <3>2. <<Copy(Whole("metrics"), Staging(8 * w, 8))>> \in Seq(HarmlessCommand)
      BY <3>1
    <3> QED
      BY <1>2, <1>4, <2>1, <3>2
  <2>3. evaluate_dataset_batch = StagingBarrier(Transfers, {"TR"}) \o window(0) \o window(1)
    BY DEF evaluate_dataset_batch
  <2> HIDE DEF window
  <2> QED
    BY <1>2, <2>2, <2>3
<1> QED
  BY <1>3, <1>4, <1>5

LEMMA TokenPrograms ==
  /\ token_step_training \in Seq(HarmlessCommand)
  /\ lora_backward(4, TRUE) \in Seq(HarmlessCommand)
  /\ lora_backward(4, FALSE) \in Seq(Command)
<1> USE Pieces
<1>1. /\ {"tokens", "targets", "mask", "dlogits", "rowLoss", "dprojected", "dquery", "dkey",
          "dvalue", "dcontext", "dstates", "loraDA", "loraDB"} \subseteq Buffers
      /\ {"tokens", "targets", "mask", "dlogits"} \subseteq Scratch
      /\ {"loraA", "loraB"} \subseteq Buffers
  BY BufferNames DEF Buffers, Parameters, Weights, LoraAdapters
<1>2. /\ <<UploadDone>> \in Seq(HarmlessCommand) /\ <<ResultDone>> \in Seq(HarmlessCommand)
      /\ <<KernelDone>> \in Seq(HarmlessCommand) /\ <<KernelWrites>> \in Seq(HarmlessCommand)
      /\ <<ResultDone, KernelDone>> \in Seq(HarmlessCommand)
      /\ StagingBarrier(Transfers, {"TW"}) \in Seq(HarmlessCommand)
  OBVIOUS
<1>3. token_step_training \in Seq(HarmlessCommand)
  <2>1. Run(<<"loss", "lmBackward">>) \in Seq(HarmlessCommand)
    <3>1. <<"loss", "lmBackward">> \in Seq(Computing) /\ Len(<<"loss", "lmBackward">>) > 0
      BY DEF Computing
    <3> QED
      BY <3>1, RunOfComputing
  <2>2. <<Copy(Staging(0, 512), Whole("tokens")), Copy(Staging(512, 4), Whole("targets")),
          Copy(Staging(516, 4), Whole("mask")), UploadDone>> \in Seq(HarmlessCommand)
    <3>1. /\ Copy(Staging(0, 512), Whole("tokens")) \in HarmlessCommand
          /\ Copy(Staging(512, 4), Whole("targets")) \in HarmlessCommand
          /\ Copy(Staging(516, 4), Whole("mask")) \in HarmlessCommand
      BY <1>1
    <3> QED
      BY <3>1
  <2>3. <<KernelDone, Fill(Whole("dlogits")), Barrier({"T"}, {"C"}, {"TW"}, {"CW"}, {})>>
          \in Seq(HarmlessCommand)
    <3>1. Barrier({"T"}, {"C"}, {"TW"}, {"CW"}, {}) \in HarmlessCommand
      BY BarrierIs, CommandSets DEF AnyStage, AnyAccess
    <3>2. Fill(Whole("dlogits")) \in HarmlessCommand
      BY <1>1
    <3> QED
      BY <3>1, <3>2
  <2>4. <<Copy(Whole("dlogits"), Staging(520, Floats(Vp))),
          Copy(Whole("rowLoss"), Staging(520 + Floats(Vp), 4)),
          Copy(Whole("dprojected"), Staging(520 + Floats(Vp) + 4, Floats(H)))>> \in Seq(HarmlessCommand)
    <3>1. {520, Floats(Vp), 520 + Floats(Vp), 4, 520 + Floats(Vp) + 4, Floats(H)} \subseteq Int
      BY SizesAreInts
    <3>2. Copy(Whole("dlogits"), Staging(520, Floats(Vp))) \in HarmlessCommand
      BY <1>1, <3>1
    <3>3. Copy(Whole("rowLoss"), Staging(520 + Floats(Vp), 4)) \in HarmlessCommand
      BY <1>1, <3>1
    <3>4. Copy(Whole("dprojected"), Staging(520 + Floats(Vp) + 4, Floats(H))) \in HarmlessCommand
      BY <1>1, <3>1
    <3> QED
      BY <3>2, <3>3, <3>4
  <2>5. Do("forward") \in Seq(HarmlessCommand)
    BY DoOf DEF Computing
  <2> QED
    BY <1>2, <2>1, <2>2, <2>3, <2>4, <2>5 DEF token_step_training
<1>4. ASSUME NEW a \in BOOLEAN, NEW S,
             HarmlessCommand \subseteq S, a \/ Do("loraSgd") \in Seq(S)
      PROVE  lora_backward(4, a) \in Seq(S)
  <2> DEFINE lora == IF a THEN "loraMore" ELSE "lora"
             row(n)   == Staging(Floats(n * H), Floats(H))
             after(n) == Staging(Floats(4 * H + Tcap * H) + n * lora_bytes(4), lora_bytes(4))
             first == [n \in 1 .. 3 |-> K["attentionFirstSet"]]
             grads == [n \in 1 .. 4 |-> K[lora]]
             proj  == <<K["projQMore"], K["projKV"], K["projVV"]>>
             out   == <<Copy(Whole("dquery"), row(0)), Copy(Whole("dkey"), row(1)),
                        Copy(Whole("dvalue"), row(2)), Copy(Whole("dcontext"), row(3)),
                        Copy(Whole("dstates"), Staging(Floats(4 * H), Floats(Tcap * H))),
                        Copy(Whole("loraDA"), after(0)), Copy(Whole("loraDB"), after(1)),
                        Copy(Whole("loraA"), after(2)), Copy(Whole("loraB"), after(3))>>
             last_ == IF a THEN <<>> ELSE Do("loraSgd")
  <2>1. lora \in Computing /\ {"attentionFirstSet", "projQMore", "projKV", "projVV"} \subseteq Computing
    BY DEF Computing
  <2>2. /\ Dispatch(K[lora]) \in HarmlessCommand
        /\ \A k \in {"attentionFirstSet", "projQMore", "projKV", "projVV"} :
             Dispatch(K[k]) \in HarmlessCommand
    BY <2>1, KernelNames, DispatchIs
  <2>3. Chain(first, KernelWrites) \in Seq(HarmlessCommand)
    <3>1. Len(first) = 3 /\ \A n \in 1 .. 3 : Dispatch(first[n]) \in HarmlessCommand
      BY <2>2
    <3> HIDE DEF first
    <3>2. Len(first) \in Nat \ {0} /\ \A n \in 1 .. Len(first) : Dispatch(first[n]) \in HarmlessCommand
      BY <3>1
    <3>3. KernelWrites \in HarmlessCommand
      BY CommonBarriers, CommandSets
    <3> QED
      BY <3>2, <3>3, ChainIs
  <2>4. Chain(grads, KernelWrites) \in Seq(HarmlessCommand)
    <3>1. Len(grads) = 4 /\ \A n \in 1 .. 4 : Dispatch(grads[n]) \in HarmlessCommand
      BY <2>2
    <3> HIDE DEF grads
    <3>2. Len(grads) \in Nat \ {0} /\ \A n \in 1 .. Len(grads) : Dispatch(grads[n]) \in HarmlessCommand
      BY <3>1
    <3>3. KernelWrites \in HarmlessCommand
      BY CommonBarriers, CommandSets
    <3> QED
      BY <3>2, <3>3, ChainIs
  <2>5. Chain(proj, KernelWrites) \in Seq(HarmlessCommand)
    <3>1. Len(proj) = 3 /\ \A n \in 1 .. 3 : Dispatch(proj[n]) \in HarmlessCommand
      BY <2>2
    <3> HIDE DEF proj
    <3>2. Len(proj) \in Nat \ {0} /\ \A n \in 1 .. Len(proj) : Dispatch(proj[n]) \in HarmlessCommand
      BY <3>1
    <3>3. KernelWrites \in HarmlessCommand
      BY CommonBarriers, CommandSets
    <3> QED
      BY <3>2, <3>3, ChainIs
  <2>6. out \in Seq(HarmlessCommand)
    <3>1. /\ \A n \in 0 .. 3 : Floats(n * H) \in Int
          /\ \A n \in 0 .. 3 : Floats(4 * H + Tcap * H) + n * lora_bytes(4) \in Int
          /\ lora_bytes(4) \in Int /\ Floats(H) \in Int
      BY DEF Floats, lora_bytes, H, Tcap
    <3>2. \A n \in 0 .. 3, b \in Buffers :
            Copy(Whole(b), row(n)) \in HarmlessCommand /\ Copy(Whole(b), after(n)) \in HarmlessCommand
      <4> SUFFICES ASSUME NEW n \in 0 .. 3, NEW b \in Buffers
                   PROVE  Copy(Whole(b), row(n)) \in HarmlessCommand /\ Copy(Whole(b), after(n)) \in HarmlessCommand
        OBVIOUS
      <4>1. Floats(n * H) \in Int /\ Floats(4 * H + Tcap * H) + n * lora_bytes(4) \in Int
        BY <3>1
      <4> QED
        BY <3>1, <4>1
    <3>3. Copy(Whole("dstates"), Staging(Floats(4 * H), Floats(Tcap * H))) \in HarmlessCommand
      <4>1. Floats(4 * H) \in Int /\ Floats(Tcap * H) \in Int
        BY SizesAreInts
      <4> QED
        BY <1>1, <4>1
    <3> HIDE DEF row, after
    <3> QED
      BY <1>1, <3>2, <3>3
  <2>7. Do("projBackward") \in Seq(HarmlessCommand)
    BY DoOf DEF Computing
  <2>8. last_ \in Seq(S)
    BY <1>4
  <2>9. lora_backward(4, a)
          = Chain(first, KernelWrites) \o Do("projBackward") \o <<KernelWrites>>
            \o Chain(proj, KernelWrites) \o <<ResultDone, KernelDone>>
            \o Chain(grads, KernelWrites) \o <<KernelDone>> \o last_ \o <<ResultDone>> \o out
    BY DEF lora_backward
  <2> HIDE DEF first, grads, proj, last_, out
  <2>10. \A p \in Seq(HarmlessCommand) : p \in Seq(S)
    BY <1>4, SeqMonotonic
  <2> DEFINE front == Chain(first, KernelWrites) \o Do("projBackward") \o <<KernelWrites>>
                      \o Chain(proj, KernelWrites) \o <<ResultDone, KernelDone>>
                      \o Chain(grads, KernelWrites) \o <<KernelDone>>
  <2>11. front \in Seq(S)
    <3>1. front \in Seq(HarmlessCommand)
      BY <1>2, <2>3, <2>4, <2>5, <2>7
    <3> HIDE DEF front
    <3> QED
      BY <2>10, <3>1
  <2>12. <<ResultDone>> \in Seq(S) /\ out \in Seq(S)
    BY <1>2, <2>6, <2>10
  <2>13. lora_backward(4, a) = front \o last_ \o <<ResultDone>> \o out
    BY <2>9
  <2> HIDE DEF front
  <2>14. front \o last_ \in Seq(S)
    BY <2>8, <2>11, ConcatProperties
  <2>15. front \o last_ \o <<ResultDone>> \in Seq(S)
    BY <2>12, <2>14, ConcatProperties
  <2> QED
    BY <2>12, <2>13, <2>15, ConcatProperties
<1>5. HarmlessCommand \subseteq Command /\ Do("loraSgd") \in Seq(Command)
  BY CommandSets, DoOf DEF Optimizing, KernelName
<1> QED
  BY <1>3, <1>4, <1>5

LEMMA SgdPrograms ==
  /\ train_lm_head_sgd \in Seq(Command) /\ train_output_sgd \in Seq(Command)
  /\ train_qkv_sgd \in Seq(Command) /\ train_embeddings_sgd \in Seq(Command)
  /\ train_positions_sgd \in Seq(Command) /\ train_dataset_batch \in Seq(Command)
  /\ train_ffn_forward_loss \in Seq(Command)
<1>1. /\ \A p \in Seq(HarmlessCommand) : p \in Seq(Command)
      /\ LoadWindow \in Seq(Command) /\ CopyDatasetWindow \in Seq(Command)
  BY HarmlessProgram, WindowIs, GradientPrograms
<1>2. /\ LossGradient \in Seq(KernelName) /\ StateGradient \in Seq(KernelName)
      /\ Len(LossGradient) = 3 /\ Len(StateGradient) = 6
  BY StateGradientIs, SeqMonotonic DEF KernelName
<1>4. train_lm_head_sgd \in Seq(Command)
  <2>1. /\ <<"forward", "loss", "lmHeadGradient", "lmHeadSgd">> \in Seq(KernelName)
        /\ Len(<<"forward", "loss", "lmHeadGradient", "lmHeadSgd">>) > 0
    BY DEF KernelName, Computing, Optimizing
  <2>2. Run(<<"forward", "loss", "lmHeadGradient", "lmHeadSgd">>) \in Seq(Command)
    BY <2>1, RunOfSome
  <2> QED
    BY <1>1, <2>2 DEF train_lm_head_sgd
<1>5. train_output_sgd \in Seq(Command)
  <2>1. <<"outputGradient", "outputSgd">> \in Seq(KernelName) /\ Len(<<"outputGradient", "outputSgd">>) = 2
    BY DEF KernelName, Computing, Optimizing
  <2>2. /\ LossGradient \o <<"outputGradient", "outputSgd">> \in Seq(KernelName)
        /\ Len(LossGradient \o <<"outputGradient", "outputSgd">>) > 0
    BY <1>2, <2>1, StateGradientIs
  <2>3. Run(LossGradient \o <<"outputGradient", "outputSgd">>) \in Seq(Command)
    BY <2>2, RunOfSome
  <2> QED
    BY <1>1, <2>3 DEF train_output_sgd
<1>6. train_qkv_sgd \in Seq(Command)
  <2> DEFINE ks == <<"projBackward", "attentionQ", "attentionK", "attentionV", "qkvGradient", "qkvSgd">>
  <2>1. ks \in Seq(KernelName) /\ Len(ks) = 6
    BY DEF KernelName, Computing, Optimizing
  <2>2. train_qkv_sgd = LoadWindow \o Run(LossGradient \o ks)
    BY DEF train_qkv_sgd
  <2> HIDE DEF ks
  <2>3. LossGradient \o ks \in Seq(KernelName) /\ Len(LossGradient \o ks) > 0
    BY <1>2, <2>1, StateGradientIs
  <2>4. Run(LossGradient \o ks) \in Seq(Command)
    BY <2>3, RunOfSome
  <2> QED
    BY <1>1, <2>2, <2>4
<1>7. <<"projBackward">> \in Seq(KernelName) /\ Len(<<"projBackward">>) = 1
  BY DEF KernelName, Computing
<1>8. /\ LossGradient \o <<"projBackward">> \in Seq(KernelName)
      /\ Len(LossGradient \o <<"projBackward">>) = 4
  <2> DEFINE one == <<"projBackward">>
  <2>1. one \in Seq(KernelName) /\ Len(one) = 1
    BY <1>7
  <2> HIDE DEF one
  <2>2. /\ LossGradient \o one \in Seq(KernelName)
        /\ Len(LossGradient \o one) = Len(LossGradient) + Len(one)
    BY <1>2, <2>1, ConcatProperties
  <2> QED
    BY <1>2, <2>1, <2>2 DEF one
<1>9. train_embeddings_sgd \in Seq(Command)
  <2> DEFINE ks == <<"embeddingGradient", "embeddingSgd">>
             before == LossGradient \o <<"projBackward">>
  <2>1. ks \in Seq(KernelName) /\ Len(ks) = 2
    BY DEF KernelName, Computing, Optimizing
  <2>2. train_embeddings_sgd = LoadWindow \o Run(before \o StateGradient \o ks)
    BY DEF train_embeddings_sgd
  <2>3. before \in Seq(KernelName) /\ Len(before) = 4
    BY <1>8
  <2> HIDE DEF ks, before
  <2>4. before \o StateGradient \in Seq(KernelName) /\ Len(before \o StateGradient) = 10
    <3>1. /\ before \o StateGradient \in Seq(KernelName)
          /\ Len(before \o StateGradient) = Len(before) + Len(StateGradient)
      BY <1>2, <2>3, ConcatProperties
    <3> QED
      BY <1>2, <2>3, <3>1
  <2>5. before \o StateGradient \o ks \in Seq(KernelName) /\ Len(before \o StateGradient \o ks) > 0
    BY <2>1, <2>4
  <2>6. Run(before \o StateGradient \o ks) \in Seq(Command)
    BY <2>5, RunOfSome
  <2> QED
    BY <1>1, <2>2, <2>6
<1>10. train_positions_sgd \in Seq(Command)
  <2> DEFINE ks == <<"positionGradient", "positionSgd">>
             between == <<KernelDone,
                          Barrier({"C"}, {"T"}, {"CW"}, {"TR"}, {"dcontext"}),
                          Copy(Whole("dcontext"), Whole("doutput")),
                          Barrier({"T"}, {"C"}, {"TW"}, {"CR"}, {"doutput"})>>
  <2>1. ks \in Seq(KernelName) /\ Len(ks) = 2
    BY DEF KernelName, Computing, Optimizing
  <2>2. between \in Seq(Command)
    <3>1. /\ {"dcontext", "doutput"} \subseteq Scratch /\ {"dcontext", "doutput"} \subseteq Buffers
          /\ "dcontext" \notin LoraGradients
      BY BufferNames DEF Buffers, LoraGradients
    <3>2. /\ Barrier({"C"}, {"T"}, {"CW"}, {"TR"}, {"dcontext"}) \in HarmlessCommand
          /\ Barrier({"T"}, {"C"}, {"TW"}, {"CR"}, {"doutput"}) \in HarmlessCommand
      BY <3>1, BarrierIs, CommandSets DEF AnyStage, AnyAccess
    <3>3. KernelDone \in HarmlessCommand /\ Copy(Whole("dcontext"), Whole("doutput")) \in HarmlessCommand
      BY <3>1, Pieces
    <3> QED
      BY <3>2, <3>3, CommandSets
  <2>3. train_positions_sgd
          = LoadWindow \o Run(LossGradient \o <<"projBackward">>) \o between \o Run(StateGradient \o ks)
    BY DEF train_positions_sgd
  <2> HIDE DEF ks, between
  <2>4. StateGradient \o ks \in Seq(KernelName) /\ Len(StateGradient \o ks) > 0
    BY <1>2, <2>1, StateGradientIs
  <2>5. Run(LossGradient \o <<"projBackward">>) \in Seq(Command) /\ Run(StateGradient \o ks) \in Seq(Command)
    <3>1. Len(LossGradient \o <<"projBackward">>) > 0
      BY <1>8
    <3>2. Run(LossGradient \o <<"projBackward">>) \in Seq(Command)
      BY <1>8, <3>1, RunOfSome
    <3>3. Run(StateGradient \o ks) \in Seq(Command)
      BY <2>4, RunOfSome
    <3> QED
      BY <3>2, <3>3
  <2> QED
    BY <1>1, <2>2, <2>3, <2>5
<1>11. train_dataset_batch \in Seq(Command)
  <2> DEFINE window(update) == CopyDatasetWindow
                                 \o Run(<<"forward", "loss", update>>) \o <<KernelDone>>
  <2>1. <<KernelDone>> \in Seq(Command) /\ Do("lmHeadSgd") \in Seq(Command)
    BY <1>1, CommonBarriers, OneBarrier, DoOf DEF KernelName, Optimizing
  <2>2. ASSUME NEW u \in {"lmHeadGradient", "lmHeadGradientMore"} PROVE window(u) \in Seq(Command)
    <3>1. <<"forward", "loss", u>> \in Seq(KernelName) /\ Len(<<"forward", "loss", u>>) > 0
      BY DEF KernelName, Computing
    <3>2. Run(<<"forward", "loss", u>>) \in Seq(Command)
      BY <3>1, RunOfSome
    <3> QED
      BY <1>1, <2>1, <3>2
  <2>3. train_dataset_batch
          = window("lmHeadGradient") \o window("lmHeadGradientMore") \o Do("lmHeadSgd")
    BY DEF train_dataset_batch
  <2> HIDE DEF window
  <2> QED
    BY <2>1, <2>2, <2>3
<1>12. train_ffn_forward_loss \in Seq(Command)
  <2>1. /\ <<"forward", "ffnForward", "rmsNormGradient">> \in Seq(KernelName)
        /\ Len(<<"forward", "ffnForward", "rmsNormGradient">>) > 0
    BY DEF KernelName, Computing
  <2>2. Run(<<"forward", "ffnForward", "rmsNormGradient">>) \in Seq(Command)
    BY <2>1, RunOfSome
  <2> QED
    BY <1>1, <2>2 DEF train_ffn_forward_loss
<1> QED
  BY <1>4, <1>5, <1>6, <1>9, <1>10, <1>11, <1>12

LEMMA AdamwPrograms ==
  /\ train_lm_head_adamw \in Seq(Command) /\ train_output_adamw \in Seq(Command)
  /\ train_positions_adamw \in Seq(Command) /\ train_qkv_adamw_from_gradients \in Seq(Command)
  /\ run_ffn_adamw_all \in Seq(Command) /\ run_ffn_w1_adamw \in Seq(Command)
  /\ run_rmsnorm_gamma_adamw_staged \in Seq(Command)
<1>1. /\ \A p \in Seq(HarmlessCommand) : p \in Seq(Command)
      /\ LoadWindow \in Seq(Command) /\ CopyWindow \in Seq(HarmlessCommand)
  BY HarmlessProgram, WindowIs
<1>2. /\ LossGradient \in Seq(KernelName) /\ StateGradient \in Seq(KernelName)
      /\ Len(LossGradient) = 3 /\ Len(StateGradient) = 6
  BY StateGradientIs, SeqMonotonic DEF KernelName
<1>3. /\ \A k \in KernelName : Do(k) \in Seq(Command)
      /\ <<KernelDone>> \in Seq(Command)
      /\ <<KernelDone>> \in Seq(HarmlessCommand) /\ <<UploadDone>> \in Seq(HarmlessCommand)
  BY <1>1, DoOf, CommonBarriers, OneBarrier
<1>4. train_lm_head_adamw \in Seq(Command)
  <2>1. /\ <<"forward", "loss", "lmHeadGradient", "lmHeadAdamw">> \in Seq(KernelName)
        /\ Len(<<"forward", "loss", "lmHeadGradient", "lmHeadAdamw">>) > 0
    BY DEF KernelName, Computing, Optimizing
  <2>2. Run(<<"forward", "loss", "lmHeadGradient", "lmHeadAdamw">>) \in Seq(Command)
    BY <2>1, RunOfSome
  <2> QED
    BY <1>1, <2>2 DEF train_lm_head_adamw
<1>5. train_output_adamw \in Seq(Command)
  <2>1. <<"outputGradient", "outputAdamw">> \in Seq(KernelName) /\ Len(<<"outputGradient", "outputAdamw">>) = 2
    BY DEF KernelName, Computing, Optimizing
  <2>2. /\ LossGradient \o <<"outputGradient", "outputAdamw">> \in Seq(KernelName)
        /\ Len(LossGradient \o <<"outputGradient", "outputAdamw">>) > 0
    BY <1>2, <2>1, StateGradientIs
  <2>3. Run(LossGradient \o <<"outputGradient", "outputAdamw">>) \in Seq(Command)
    BY <2>2, RunOfSome
  <2> QED
    BY <1>1, <2>3 DEF train_output_adamw
<1>6. /\ "ffnW1Adamw" \in KernelName /\ "ffnB1Adamw" \in KernelName /\ "ffnW2Adamw" \in KernelName
      /\ "ffnB2Adamw" \in KernelName /\ "gammaAdamw" \in KernelName /\ "qkvAdamw" \in KernelName
  BY DEF KernelName, Optimizing
<1>7. /\ run_ffn_adamw_all \in Seq(Command) /\ run_ffn_w1_adamw \in Seq(Command)
      /\ run_rmsnorm_gamma_adamw_staged \in Seq(Command)
      /\ train_qkv_adamw_from_gradients \in Seq(Command)
  BY <1>3, <1>6 DEF run_ffn_adamw_all, run_ffn_w1_adamw, run_rmsnorm_gamma_adamw_staged,
                    train_qkv_adamw_from_gradients
<1>8. train_positions_adamw \in Seq(Command)
  <2> DEFINE start == <<Barrier(AnyStage, {"T"}, AnyAccess, {"TW"}, {}),
                        Barrier(AnyStage, {"T"}, {"CR", "TW"}, {"TW"}, {"tokens", "targets", "mask"})>>
             update == <<"gammaAdamw", "ffnW1Adamw", "ffnB1Adamw", "ffnW2Adamw",
                         "ffnB2Adamw", "positionAdamw">>
             HC == Seq(HarmlessCommand)
  <2>1. start \in HC
    <3>1. {"tokens", "targets", "mask"} \in SUBSET Buffers
      BY BufferNames DEF Buffers
    <3>2. /\ Barrier(AnyStage, {"T"}, AnyAccess, {"TW"}, {}) \in HarmlessCommand
          /\ Barrier(AnyStage, {"T"}, {"CR", "TW"}, {"TW"}, {"tokens", "targets", "mask"}) \in HarmlessCommand
      BY <3>1, BarrierIs, CommandSets DEF AnyStage, AnyAccess
    <3> QED
      BY <3>2
  <2>2. StagingBarrier({"TR"}, {"TW"}) \in HC
    BY Pieces
  <2>3. \A b, d \in {"states", "gammaInput", "ffnOutput", "projected", "ffnDx", "dprojected", "rmsDx",
                     "dcontext", "doutput", "dstates"} : CarryOver(b, d) \in HC
    <3>1. {"states", "gammaInput", "ffnOutput", "projected", "ffnDx", "dprojected", "rmsDx",
           "dcontext", "doutput", "dstates"} \subseteq (Buffers \ LoraGradients) \cap (Buffers \ Parameters)
      BY BufferNames DEF Buffers, LoraGradients
    <3> QED
      BY <3>1, CarryOverIs
  <2>4. Do("ffnForward") \in HC /\ Do("projBackward") \in HC
    BY DoOf DEF Computing
  <2>5. /\ Run(<<"forward", "rmsFixed">>) \in HC
        /\ Run(<<"lmHeadForward", "loss", "lmBackward", "ffnBackward">>) \in HC
        /\ Run(<<"ffnGradient", "rmsDgamma", "rmsBackwardState">>) \in HC
    <3>1. /\ <<"forward", "rmsFixed">> \in Seq(Computing)
          /\ <<"lmHeadForward", "loss", "lmBackward", "ffnBackward">> \in Seq(Computing)
          /\ <<"ffnGradient", "rmsDgamma", "rmsBackwardState">> \in Seq(Computing)
      BY DEF Computing
    <3>2. /\ Len(<<"forward", "rmsFixed">>) > 0
          /\ Len(<<"lmHeadForward", "loss", "lmBackward", "ffnBackward">>) > 0
          /\ Len(<<"ffnGradient", "rmsDgamma", "rmsBackwardState">>) > 0
      OBVIOUS
    <3> QED
      BY <3>1, <3>2, RunOfComputing
  <2>6. Run(StateGradient \o <<"positionGradient">>) \in HC
    <3>1. <<"positionGradient">> \in Seq(Computing) /\ Len(<<"positionGradient">>) = 1
      BY DEF Computing
    <3>2. /\ StateGradient \o <<"positionGradient">> \in Seq(Computing)
          /\ Len(StateGradient \o <<"positionGradient">>) > 0
      BY <3>1, StateGradientIs
    <3> QED
      BY <3>2, RunOfComputing
  <2>7. Run(update) \in Seq(Command)
    <3>1. update \in Seq(KernelName) /\ Len(update) > 0
      BY DEF KernelName, Optimizing
    <3> QED
      BY <3>1, RunOfSome
  <2> DEFINE front == start \o CopyWindow \o StagingBarrier({"TR"}, {"TW"}) \o <<UploadDone>>
                      \o Run(<<"forward", "rmsFixed">>) \o <<KernelDone>>
                      \o CarryOver("states", "gammaInput") \o Do("ffnForward") \o <<KernelDone>>
             middle == front \o CarryOver("ffnOutput", "projected")
                       \o Run(<<"lmHeadForward", "loss", "lmBackward", "ffnBackward">>) \o <<KernelDone>>
                       \o CarryOver("ffnDx", "dprojected")
                       \o Run(<<"ffnGradient", "rmsDgamma", "rmsBackwardState">>) \o <<KernelDone>>
             back == middle \o CarryOver("rmsDx", "dprojected") \o Do("projBackward") \o <<KernelDone>>
                     \o CarryOver("dcontext", "doutput")
                     \o Run(StateGradient \o <<"positionGradient">>) \o <<KernelDone>>
                     \o CarryOver("dstates", "gammaInput")
  <2>8. train_positions_adamw = back \o Run(update)
    BY DEF train_positions_adamw
  <2> HIDE DEF start, update, HC
  <2>9. front \in HC
    BY <1>1, <1>3, <2>1, <2>2, <2>3, <2>4, <2>5 DEF HC
  <2> HIDE DEF front
  <2>10. middle \in HC
    BY <1>3, <2>3, <2>5, <2>9 DEF HC
  <2> HIDE DEF middle
  <2>11. back \in HC
    BY <1>3, <2>3, <2>4, <2>6, <2>10 DEF HC
  <2> HIDE DEF back
  <2> QED
    BY <1>1, <2>7, <2>8, <2>11 DEF HC
<1> QED
  BY <1>4, <1>5, <1>7, <1>8

LEMMA StagedPrograms ==
  /\ begin_lora_accumulation \in Seq(Command) /\ finalize_lora_adamw \in Seq(Command)
  /\ finalize_lora_sgd \in Seq(Command)
  /\ run_rmsnorm_forward_staged \in Seq(Command) /\ run_rmsnorm_state_only_staged \in Seq(Command)
  /\ run_rmsnorm_backward_staged \in Seq(Command) /\ run_rmsnorm_dgamma_staged \in Seq(Command)
  /\ run_rmsnorm_gamma_gradient \in Seq(Command) /\ run_ffn_forward \in Seq(Command)
  /\ run_ffn_backward \in Seq(Command) /\ run_ffn_parameter_gradients \in Seq(Command)
<1>1. {"loraClear", "loraAdamw", "loraFinalize", "rmsForward", "rmsState", "rmsBackwardState",
       "rmsDgamma", "rmsNormGradient", "ffnForward", "ffnBackward", "ffnGradient"}
        \subseteq KernelName
  BY DEF KernelName, Computing, Optimizing
<1> QED
  BY <1>1, DoOf DEF begin_lora_accumulation, finalize_lora_adamw, finalize_lora_sgd,
     run_rmsnorm_forward_staged, run_rmsnorm_state_only_staged, run_rmsnorm_backward_staged,
     run_rmsnorm_dgamma_staged, run_rmsnorm_gamma_gradient, run_ffn_forward, run_ffn_backward,
     run_ffn_parameter_gradients

LEMMA LeastNumber ==
  ASSUME NEW T, T \subseteq Nat, T # {}
  PROVE  \E m \in T : \A k \in T : m <= k
<1> DEFINE R == OpToRel(<, Nat)
<1>1. IsWellFoundedOn(R, Nat)
  BY NatLessThanWellFounded
<1> HIDE DEF R
<1>2. PICK m \in T : \A k \in T : ~ (<<k, m>> \in R)
  BY <1>1, WFMin
<1>3. \A k \in T : k < m => <<k, m>> \in R
  BY DEF R, OpToRel
<1>4. \A k \in T : k \in Int
  OBVIOUS
<1>5. ASSUME NEW k \in T PROVE m <= k
  <2>1. ~ (k < m)
    BY <1>2, <1>3
  <2> QED
    BY <1>4, <2>1
<1> QED
  BY <1>5

\* Induction, over the set of the numbers up to N of which something holds.
LEMMA InductionUpTo ==
  ASSUME NEW N \in Nat, NEW T, 0 \in T, \A n \in 0 .. N : n \in T /\ n < N => n + 1 \in T
  PROVE  0 .. N \subseteq T
<1> SUFFICES ASSUME (0 .. N) \ T # {} PROVE FALSE
  OBVIOUS
<1>1. PICK m \in (0 .. N) \ T : \A k \in (0 .. N) \ T : m <= k
  <2> DEFINE U == (0 .. N) \ T
  <2>1. U \subseteq Nat /\ U # {}
    OBVIOUS
  <2> HIDE DEF U
  <2>2. \E m \in U : \A k \in U : m <= k
    BY <2>1, LeastNumber
  <2> QED
    BY <2>2 DEF U
<1>2. m # 0 /\ m \in 1 .. N
  BY <1>1
<1>3. m - 1 \in 0 .. N /\ m - 1 < N /\ ~ (m <= m - 1) /\ (m - 1) + 1 = m
  BY <1>2
<1>4. m - 1 \in T
  BY <1>1, <1>3
<1> QED
  BY <1>1, <1>3, <1>4

\* Every part has its place in the buffer named host.
PackedIn(host, parts, base) ==
  \A n \in 1 .. Len(parts) :
    Packed(host, parts, base)[n] \in Place /\ Packed(host, parts, base)[n][1] = host

\* Parts of one size lie behind each other.
LEMMA PackedPlaces ==
  ASSUME NEW host \in Buffers, NEW parts, Len(parts) \in Nat, NEW base \in Int,
         \E size \in Int : \A n \in 1 .. Len(parts) : parts[n][2] = size
  PROVE  PackedIn(host, parts, base)
<1>0. PICK size \in Int : \A n \in 1 .. Len(parts) : parts[n][2] = size
  OBVIOUS
<1> DEFINE L == Len(parts)
           Starts(f) == f = [n \in 1 .. L |-> IF n = 1 THEN base ELSE f[n - 1] + parts[n - 1][2]]
           at == CHOOSE f : Starts(f)
           g == [n \in 1 .. L |-> base + (n - 1) * size]
<1>1. Packed(host, parts, base) = [n \in 1 .. L |-> <<host, at[n], at[n] + parts[n][2]>>]
  BY DEF Packed
<1>2. L \in Nat /\ \A n \in 1 .. L : n # 1 => n - 1 \in 1 .. L /\ parts[n - 1][2] = size
  BY <1>0
<1> HIDE DEF L
<1>3. Starts(g)
  <2>1. ASSUME NEW n \in 1 .. L, n # 1 PROVE base + (n - 1) * size = g[n - 1] + parts[n - 1][2]
    <3>1. g[n - 1] = base + ((n - 1) - 1) * size
      BY <1>2, <2>1
    <3>2. n \in Int /\ parts[n - 1][2] = size
      BY <1>2, <2>1
    <3>3. (n - 1) * size = ((n - 1) - 1) * size + size
      BY <3>2
    <3> QED
      BY <3>1, <3>2, <3>3
  <2>2. ASSUME NEW n \in 1 .. L, n = 1 PROVE base + (n - 1) * size = base
    BY <2>2
  <2> QED
    BY <2>1, <2>2
<1>4. Starts(at)
  BY <1>3
<1> HIDE DEF at
<1>5. \A n \in 1 .. L : at[n] = IF n = 1 THEN base ELSE at[n - 1] + parts[n - 1][2]
  BY <1>4
<1>6. \A n \in 1 .. L : at[n] \in Int
  <2> DEFINE T == {n \in 0 .. L : n = 0 \/ at[n] \in Int}
  <2>1. 0 \in T
    BY <1>2
  <2>2. ASSUME NEW n \in 0 .. L, n \in T, n < L PROVE n + 1 \in T
    <3>1. n + 1 \in 1 .. L /\ n + 1 \in 0 .. L /\ (n + 1) - 1 = n
      BY <1>2, <2>2
    <3>2. CASE n = 0
      BY <1>5, <3>1, <3>2
    <3>3. CASE n # 0
      <4>1. at[n] \in Int /\ parts[n][2] = size
        <5>1. n \in 1 .. L
          BY <1>2, <2>2, <3>3
        <5>2. at[n] \in Int
          BY <2>2, <3>3
        <5> QED
          BY <1>0, <5>1, <5>2 DEF L
      <4>2. at[n + 1] = at[n] + parts[n][2]
        BY <1>5, <3>1, <3>3
      <4> QED
        BY <3>1, <4>1, <4>2
    <3> QED
      BY <3>2, <3>3
  <2> HIDE DEF T
  <2>3. 0 .. L \subseteq T
    BY <1>2, <2>1, <2>2, InductionUpTo
  <2> QED
    BY <1>2, <2>3 DEF T
<1>7. \A n \in 1 .. L : at[n] \in Int /\ at[n] + parts[n][2] \in Int
  BY <1>6 DEF L
<1> QED
  BY <1>1, <1>7 DEF L, Place, PackedIn

LEMMA CopyInIs ==
  ASSUME NEW parts, Len(parts) \in Nat, DOMAIN parts = 1 .. Len(parts),
         NEW base \in Int, NEW size \in Int,
         \A n \in 1 .. Len(parts) : parts[n][1] \in Buffers /\ parts[n][2] = size
  PROVE  CopyIn("trainingStaging", parts, base) \in Seq(Command)
<1> DEFINE p == Packed("trainingStaging", parts, base)
           L == Len(parts)
<1>1. "trainingStaging" \in Buffers /\ "trainingStaging" \notin LoraGradients
  BY DEF Buffers, Given, LoraGradients
<1>2. \A n \in 1 .. L : p[n] \in Place /\ p[n][1] = "trainingStaging"
  <2>1. \E s \in Int : \A n \in 1 .. Len(parts) : parts[n][2] = s
    OBVIOUS
  <2>2. PackedIn("trainingStaging", parts, base)
    BY <1>1, <2>1, PackedPlaces
  <2> QED
    BY <2>2 DEF PackedIn
<1>3. CopyIn("trainingStaging", parts, base) = [n \in 1 .. L |-> Copy(p[n], Whole(parts[n][1]))]
  BY DEF CopyIn
<1> HIDE DEF p
<1>4. \A n \in 1 .. L : Copy(p[n], Whole(parts[n][1])) \in Command
  BY <1>1, <1>2, WholePlace, CopyIs DEF Command
<1> QED
  BY <1>3, <1>4

LEMMA UpdatePrograms ==
  /\ update_qkv_adamw_moments \in Seq(Command)
  /\ update_lora_adamw_state(4) \in Seq(Command)
  /\ update_lora_adapters(4) \in Seq(Command)
<1>1. update_qkv_adamw_moments \in Seq(Command)
  <2> DEFINE parts == <<<<"qkvM", Floats(3 * H * H)>>, <<"qkvV", Floats(3 * H * H)>>>>
  <2>1. Floats(3 * H * H) \in Int /\ {"qkvM", "qkvV"} \subseteq Buffers
    BY DEF Floats, H, Buffers, Parameters, Moments
  <2>2. /\ Len(parts) \in Nat /\ DOMAIN parts = 1 .. Len(parts)
        /\ \A n \in 1 .. Len(parts) : parts[n][1] \in Buffers /\ parts[n][2] = Floats(3 * H * H)
    BY <2>1
  <2>3. update_qkv_adamw_moments = CopyIn("trainingStaging", parts, 0)
    BY DEF update_qkv_adamw_moments
  <2> HIDE DEF parts
  <2>4. 0 \in Int
    OBVIOUS
  <2>5. CopyIn("trainingStaging", parts, 0) \in Seq(Command)
    <3> DEFINE size == Floats(3 * H * H)
    <3>1. size \in Int /\ \A n \in 1 .. Len(parts) : parts[n][1] \in Buffers /\ parts[n][2] = size
      BY <2>1, <2>2
    <3>2. Len(parts) \in Nat /\ DOMAIN parts = 1 .. Len(parts)
      BY <2>2
    <3> HIDE DEF size
    <3> QED
      BY <2>4, <3>1, <3>2, CopyInIs
  <2> QED
    BY <2>3, <2>5
<1>2. update_lora_adamw_state(4) \in Seq(Command)
  <2> DEFINE parts == LoraParts(4)
             names == <<"loraA", "loraB", "loraMA", "loraVA", "loraMB", "loraVB">>
  <2>1. {"loraA", "loraB", "loraMA", "loraVA", "loraMB", "loraVB"} \subseteq Buffers
    BY DEF Buffers, Parameters, Weights, Moments, LoraAdapters, LoraMoments
  <2>2. parts = [n \in 1 .. 6 |-> <<names[n], lora_bytes(4)>>] /\ lora_bytes(4) \in Int
    BY DEF LoraParts, lora_bytes, Floats, H
  <2>3. \A n \in 1 .. 6 : names[n] \in Buffers
    BY <2>1
  <2> HIDE DEF names
  <2>4. /\ Len(parts) = 6 /\ DOMAIN parts = 1 .. 6
        /\ \A n \in 1 .. 6 : parts[n][1] \in Buffers /\ parts[n][2] = lora_bytes(4)
    BY <2>2, <2>3
  <2> HIDE DEF parts
  <2>5. CopyIn("trainingStaging", parts, adamw_staging_offset(4)) \in Seq(Command)
    <3> DEFINE size == lora_bytes(4)
               base == adamw_staging_offset(4)
    <3>1. size \in Int /\ base \in Int
      BY <2>2, OffsetIsInt
    <3>2. Len(parts) \in Nat /\ DOMAIN parts = 1 .. Len(parts)
      BY <2>4
    <3>3. \A n \in 1 .. Len(parts) : parts[n][1] \in Buffers /\ parts[n][2] = size
      BY <2>4
    <3> HIDE DEF size, base
    <3>4. CopyIn("trainingStaging", parts, base) \in Seq(Command)
      BY <3>1, <3>2, <3>3, CopyInIs
    <3> QED
      BY <3>4 DEF base
  <2>6. Names(parts) \in SUBSET Buffers
    BY <2>4 DEF Names
  <2>7. <<Barrier({"T"}, {"C"}, {"TW"}, {"CR"}, Names(parts))>> \in Seq(Command)
    <3>1. Barrier({"T"}, {"C"}, {"TW"}, {"CR"}, Names(parts)) \in Command
      BY <2>6, BarrierIs DEF AnyStage, AnyAccess, Command
    <3> QED
      BY <3>1
  <2> QED
    BY <2>5, <2>7, ConcatProperties DEF update_lora_adamw_state, parts
<1>3. update_lora_adapters(4) \in Seq(Command)
  <2> DEFINE bytes == H * Floats(4)
             device(b, t) == <<b, t * bytes, (t + 1) * bytes>>
             host(n)      == <<"hostStaging", n * bytes, (n + 1) * bytes>>
             copies == [n \in 1 .. 8 |->
                          Copy(host(n - 1), device(IF n % 2 = 1 THEN "loraA" ELSE "loraB", (n - 1) \div 2))]
  <2>1. update_lora_adapters(4) = copies \o <<Barrier({"T"}, {"C"}, {"TW"}, {"CR"}, LoraAdapters)>>
    BY DEF update_lora_adapters, AdapterCopies
  <2>2. bytes \in Int
    BY DEF H, Floats
  <2>3. {"loraA", "loraB", "hostStaging"} \subseteq Buffers /\ LoraAdapters \in SUBSET Buffers
        /\ "hostStaging" \notin LoraGradients
    BY DEF Buffers, Parameters, Weights, LoraAdapters, Given, LoraGradients
  <2> HIDE DEF bytes
  <2>4. \A t \in Int : t * bytes \in Int /\ (t + 1) * bytes \in Int
    BY <2>2
  <2>5. \A t \in Int, b \in {"loraA", "loraB"} : device(b, t) \in Place /\ host(t) \in Place /\ host(t)[1] = "hostStaging"
    BY <2>3, <2>4 DEF Place
  <2> HIDE DEF device, host
  <2>6. \A n \in 1 .. 8 : n - 1 \in Int /\ (n - 1) \div 2 \in Int
    OBVIOUS
  <2>7. \A n \in 1 .. 8 :
          Copy(host(n - 1), device(IF n % 2 = 1 THEN "loraA" ELSE "loraB", (n - 1) \div 2)) \in Command
    BY <2>3, <2>5, <2>6, CopyIs DEF Command
  <2>8. copies \in Seq(Command)
    BY <2>7
  <2>9. <<Barrier({"T"}, {"C"}, {"TW"}, {"CR"}, LoraAdapters)>> \in Seq(Command)
    <3>1. Barrier({"T"}, {"C"}, {"TW"}, {"CR"}, LoraAdapters) \in Command
      BY <2>3, BarrierIs DEF AnyStage, AnyAccess, Command
    <3> QED
      BY <3>1
  <2> HIDE DEF copies
  <2> QED
    BY <2>1, <2>8, <2>9, ConcatProperties
<1> QED
  BY <1>1, <1>2, <1>3

\* f is what after makes of a, number by number.
Iterates(f, N, S, a, after) ==
  /\ f \in [0 .. N -> S] /\ f[0] = a
  /\ \A i \in 1 .. N : f[i] = after[i][f[i - 1]]

\* Every recursion over 1 .. N is met by a function.
LEMMA Recursion ==
  ASSUME NEW N \in Nat, NEW S, NEW a \in S, NEW after \in [1 .. N -> [S -> S]]
  PROVE  \E f : Iterates(f, N, S, a, after)
<1> DEFINE T == {n \in 0 .. N : \E f : Iterates(f, n, S, a, after)}
<1>1. 0 \in T
  <2> DEFINE f == [n \in 0 .. 0 |-> a]
  <2>1. Iterates(f, 0, S, a, after)
    BY DEF Iterates
  <2> QED
    BY <2>1
<1>2. ASSUME NEW n \in 0 .. N, n \in T, n < N PROVE n + 1 \in T
  <2>1. PICK f : Iterates(f, n, S, a, after)
    BY <1>2
  <2> DEFINE g == [m \in 0 .. n + 1 |-> IF m = n + 1 THEN after[n + 1][f[n]] ELSE f[m]]
  <2>2. n + 1 \in 1 .. N /\ n \in 0 .. n /\ f[n] \in S
    BY <1>2, <2>1 DEF Iterates
  <2>3. after[n + 1] \in [S -> S]
    BY <2>2
  <2>4. after[n + 1][f[n]] \in S
    BY <2>2, <2>3
  <2>5. \A m \in 0 .. n + 1 : m # n + 1 => m \in 0 .. n
    OBVIOUS
  <2>6. g \in [0 .. n + 1 -> S]
    BY <2>1, <2>4, <2>5 DEF Iterates
  <2>7. g[0] = a
    BY <2>1 DEF Iterates
  <2>8. ASSUME NEW i \in 1 .. n + 1 PROVE g[i] = after[i][g[i - 1]]
    <3>1. i - 1 \in 0 .. n + 1 /\ i - 1 # n + 1 /\ g[i - 1] = f[i - 1]
      OBVIOUS
    <3>2. CASE i = n + 1
      <4>1. i - 1 = n
        BY <3>2
      <4> QED
        BY <3>1, <3>2, <4>1
    <3>3. CASE i # n + 1
      <4>1. i \in 1 .. n /\ g[i] = f[i]
        BY <3>3
      <4> QED
        BY <2>1, <3>1, <4>1 DEF Iterates
    <3> QED
      BY <3>2, <3>3
  <2>9. Iterates(g, n + 1, S, a, after)
    BY <2>6, <2>7, <2>8 DEF Iterates
  <2> QED
    BY <2>2, <2>9
<1> HIDE DEF T
<1>3. 0 .. N \subseteq T
  BY <1>1, <1>2, InductionUpTo
<1>4. N \in T
  BY <1>3
<1> QED
  BY <1>4 DEF T

-----------------------------------------------------------------------------
\* Flows

Tags == {"now"} \cup Scratch

Flows == UNION {[D -> SUBSET Tags] : D \in SUBSET (Buffers \ Given)}

\* The flow f after the command c.
FlowStep(f, c) ==
  IF c.stage = "barrier" THEN f
  ELSE [b \in NamesOf(c.writes) \ Given |-> UNION {Held(f, r) : r \in NamesOf(c.reads)}] ++ f

LEMMA FlowTyped ==
  /\ \A f \in Flows : /\ DOMAIN f \subseteq Buffers \ Given
                      /\ \A b \in DOMAIN f : f[b] \subseteq Tags
                      /\ f = [b \in DOMAIN f |-> f[b]]
  /\ \A D \in SUBSET (Buffers \ Given) : [D -> SUBSET Tags] \subseteq Flows
<1>1. \A D \in SUBSET (Buffers \ Given) : [D -> SUBSET Tags] \subseteq Flows
  BY DEF Flows
<1>2. ASSUME NEW f \in Flows
      PROVE  /\ DOMAIN f \subseteq Buffers \ Given
             /\ \A b \in DOMAIN f : f[b] \subseteq Tags
             /\ f = [b \in DOMAIN f |-> f[b]]
  <2>1. PICK D \in SUBSET (Buffers \ Given) : f \in [D -> SUBSET Tags]
    BY DEF Flows
  <2> QED
    BY <2>1
<1> QED
  BY <1>1, <1>2

LEMMA HeldTyped ==
  ASSUME NEW f \in Flows, NEW b \in Buffers
  PROVE  Held(f, b) \subseteq Tags
BY FlowTyped DEF Held, Tags, Buffers

LEMMA NamesTyped ==
  ASSUME NEW places \in SUBSET Place
  PROVE  NamesOf(places) \subseteq Buffers
BY DEF NamesOf, Place

\* A command that is no barrier gives what it writes what it reads.
LEMMA WorkStep ==
  ASSUME NEW f \in Flows, NEW c \in Works
  PROVE  LET g == FlowStep(f, c)
             w == NamesOf(c.writes) \ Given
             from == UNION {Held(f, r) : r \in NamesOf(c.reads)}
         IN  /\ DOMAIN g = w \cup DOMAIN f
             /\ \A b \in w : g[b] = from
             /\ \A b \in DOMAIN f \ w : g[b] = f[b]
             /\ from \subseteq Tags /\ w \subseteq Buffers \ Given
             /\ g \in Flows
<1> DEFINE g == FlowStep(f, c)
           w == NamesOf(c.writes) \ Given
           from == UNION {Held(f, r) : r \in NamesOf(c.reads)}
           new == [b \in w |-> from]
<1>1. g = new ++ f
  BY CommandStages DEF FlowStep
<1>2. c.reads \in SUBSET Place /\ c.writes \in SUBSET Place
  BY DEF Works
<1>3. from \subseteq Tags
  BY <1>2, NamesTyped, HeldTyped
<1>4. w \subseteq Buffers \ Given
  BY <1>2, NamesTyped
<1>5. DOMAIN new = w /\ \A b \in w : new[b] = from
  OBVIOUS
<1> HIDE DEF new, w, from
<1>6. /\ DOMAIN g = w \cup DOMAIN f
      /\ \A b \in w : g[b] = from
      /\ \A b \in DOMAIN f \ w : g[b] = f[b]
  BY <1>1, <1>5, Merged
<1>7. g = [b \in DOMAIN g |-> g[b]]
  BY <1>1 DEF ++
<1> HIDE DEF g
<1>8. DOMAIN f \subseteq Buffers \ Given /\ \A b \in DOMAIN f : f[b] \subseteq Tags
  BY FlowTyped
<1>9. g \in [DOMAIN g -> SUBSET Tags] /\ DOMAIN g \in SUBSET (Buffers \ Given)
  BY <1>3, <1>4, <1>6, <1>7, <1>8
<1>10. g \in Flows
  BY <1>9, FlowTyped
<1> QED
  BY <1>3, <1>4, <1>6, <1>10 DEF g, w, from

LEMMA BarrierStep ==
  ASSUME NEW f, NEW c \in Barriers
  PROVE  FlowStep(f, c) = f
BY CommandStages DEF FlowStep

LEMMA NoFlow == <<>> \in Flows /\ DOMAIN <<>> = {}
<1>1. <<>> \in Seq(SUBSET Tags) /\ Len(<<>>) = 0
  BY EmptySeq
<1>2. DOMAIN <<>> = {} /\ <<>> \in [1 .. 0 -> SUBSET Tags]
  BY <1>1, LenProperties
<1>3. 1 .. 0 = {}
  OBVIOUS
<1> QED
  BY <1>2, <1>3, FlowTyped

\* The flow of a program is met command by command.
FlowsThrough(f, p) ==
  /\ f \in [0 .. Len(p) -> Flows] /\ f[0] = <<>>
  /\ \A n \in 1 .. Len(p) : f[n] = FlowStep(f[n - 1], p[n])

\* The recursion in Flow.
FlowEquation(f, p) ==
  f = [n \in 0 .. Len(p) |->
         IF n = 0 THEN <<>>
         ELSE IF p[n].stage = "barrier" THEN f[n - 1]
              ELSE [b \in NamesOf(p[n].writes) \ Given |->
                      UNION {Held(f[n - 1], r) : r \in NamesOf(p[n].reads)}] ++ f[n - 1]]

LEMMA FlowStepwise ==
  ASSUME NEW p \in Seq(Command)
  PROVE  \E f : FlowsThrough(f, p) /\ Flow(p) = f[Len(p)]
<1> DEFINE N == Len(p)
           after == [n \in 1 .. N |-> [f \in Flows |-> FlowStep(f, p[n])]]
           G == CHOOSE f : FlowEquation(f, p)
<1>1. N \in Nat /\ \A n \in 1 .. N : p[n] \in Command
  BY LenProperties, ElementOfSeq
<1>2. \A n \in 1 .. N : \A f \in Flows : FlowStep(f, p[n]) \in Flows
  <2> SUFFICES ASSUME NEW n \in 1 .. N, NEW f \in Flows PROVE FlowStep(f, p[n]) \in Flows
    OBVIOUS
  <2> DEFINE c == p[n]
  <2>1. c \in Command
    BY <1>1
  <2> HIDE DEF c
  <2>2. CASE c \in Barriers
    <3>1. FlowStep(f, c) = f
      BY <2>2, BarrierStep
    <3> QED
      BY <3>1 DEF c
  <2>3. CASE c \in Works
    <3>1. FlowStep(f, c) \in Flows
      BY <2>3, WorkStep
    <3> QED
      BY <3>1 DEF c
  <2> QED
    BY <2>1, <2>2, <2>3 DEF Command
<1>3. after \in [1 .. N -> [Flows -> Flows]]
  BY <1>2
<1> HIDE DEF after
<1>4. PICK f : Iterates(f, N, Flows, <<>>, after)
  BY <1>1, <1>3, NoFlow, Recursion
<1>5. \A n \in 1 .. N : n - 1 \in 0 .. N /\ f[n - 1] \in Flows
  BY <1>1, <1>4 DEF Iterates
<1>6. \A n \in 1 .. N : f[n] = FlowStep(f[n - 1], p[n])
  BY <1>4, <1>5 DEF Iterates, after
<1>7. FlowEquation(f, p)
  <2>1. f = [n \in 0 .. N |-> f[n]] /\ f[0] = <<>>
    BY <1>4 DEF Iterates
  <2>2. ASSUME NEW n \in 0 .. N
        PROVE  f[n] = IF n = 0 THEN <<>>
                      ELSE IF p[n].stage = "barrier" THEN f[n - 1]
                           ELSE [b \in NamesOf(p[n].writes) \ Given |->
                                   UNION {Held(f[n - 1], r) : r \in NamesOf(p[n].reads)}] ++ f[n - 1]
    <3>1. CASE n = 0
      BY <2>1, <3>1
    <3>2. CASE n # 0
      <4>1. n \in 1 .. N
        BY <1>1, <3>2
      <4>2. f[n] = FlowStep(f[n - 1], p[n])
        BY <1>6, <4>1
      <4> QED
        BY <3>2, <4>2 DEF FlowStep
    <3> QED
      BY <3>1, <3>2
  <2> QED
    BY <2>1, <2>2 DEF FlowEquation
<1>8. FlowEquation(G, p)
  BY <1>7
<1>9. Flow(p) = G[N]
  BY DEF Flow, FlowEquation, NamesOf
<1> HIDE DEF G
<1>10. \A n \in 0 .. N :
          G[n] = IF n = 0 THEN <<>>
                 ELSE IF p[n].stage = "barrier" THEN G[n - 1]
                      ELSE [b \in NamesOf(p[n].writes) \ Given |->
                              UNION {Held(G[n - 1], r) : r \in NamesOf(p[n].reads)}] ++ G[n - 1]
  BY <1>8 DEF FlowEquation
<1>11. G = [n \in 0 .. N |-> G[n]]
  BY <1>8 DEF FlowEquation
<1>12. G[0] = <<>>
  <2>1. 0 \in 0 .. N
    BY <1>1
  <2> QED
    BY <1>10, <2>1, Zenon
<1>13. ASSUME NEW n \in 1 .. N PROVE G[n] = FlowStep(G[n - 1], p[n])
  <2>1. n \in 0 .. N /\ n # 0
    BY <1>1
  <2> QED
    BY <1>10, <2>1 DEF FlowStep
<1>14. \A n \in 0 .. N : G[n] \in Flows
  <2> DEFINE T == {n \in 0 .. N : G[n] \in Flows}
  <2>1. 0 \in T
    BY <1>1, <1>12, NoFlow
  <2>2. \A n \in 0 .. N : n \in T /\ n < N => n + 1 \in T
    <3> SUFFICES ASSUME NEW n \in 0 .. N, n \in T, n < N PROVE n + 1 \in T
      OBVIOUS
    <3>1. n + 1 \in 1 .. N /\ n + 1 \in 0 .. N /\ (n + 1) - 1 = n
      BY <1>1
    <3>2. G[n + 1] = FlowStep(G[n], p[n + 1])
      BY <1>13, <3>1
    <3>3. FlowStep(G[n], p[n + 1]) \in Flows
      BY <1>2, <3>1
    <3> QED
      BY <3>1, <3>2, <3>3
  <2> HIDE DEF T
  <2>3. 0 .. N \subseteq T
    BY <1>1, <2>1, <2>2, InductionUpTo
  <2> QED
    BY <2>3 DEF T
<1>15. FlowsThrough(G, p)
  BY <1>11, <1>12, <1>13, <1>14 DEF FlowsThrough
<1> QED
  BY <1>9, <1>15

\* What every command keeps, the program keeps.
LEMMA FlowKeeps ==
  ASSUME NEW C \in SUBSET Command, NEW p \in Seq(C), NEW S, <<>> \in S,
         \A f \in S \cap Flows, c \in C : FlowStep(f, c) \in S
  PROVE  Flow(p) \in S \cap Flows
<1> DEFINE N == Len(p)
<1>1. N \in Nat /\ p \in Seq(Command) /\ \A n \in 1 .. N : p[n] \in C
  <2>1. p \in Seq(C) /\ C \subseteq Command
    OBVIOUS
  <2>2. p \in Seq(Command)
    BY <2>1
  <2> QED
    BY <2>2, LenProperties, ElementOfSeq
<1>2. PICK f : FlowsThrough(f, p) /\ Flow(p) = f[N]
  BY <1>1, FlowStepwise
<1> DEFINE T == {n \in 0 .. N : f[n] \in S}
<1>3. 0 \in T
  BY <1>1, <1>2 DEF FlowsThrough
<1>4. \A n \in 0 .. N : n \in T /\ n < N => n + 1 \in T
  <2> SUFFICES ASSUME NEW n \in 0 .. N, n \in T, n < N PROVE n + 1 \in T
    OBVIOUS
  <2>1. n + 1 \in 1 .. N /\ n + 1 \in 0 .. N /\ (n + 1) - 1 = n
    BY <1>1
  <2>2. f[n + 1] = FlowStep(f[n], p[n + 1]) /\ f[n] \in Flows
    BY <1>2, <2>1 DEF FlowsThrough
  <2>3. f[n] \in S \cap Flows /\ p[n + 1] \in C
    BY <1>1, <2>1, <2>2
  <2> QED
    BY <2>1, <2>2, <2>3
<1> HIDE DEF T
<1>5. 0 .. N \subseteq T
  BY <1>1, <1>3, <1>4, InductionUpTo
<1>6. f[N] \in S /\ f[N] \in Flows
  BY <1>1, <1>2, <1>5 DEF T, FlowsThrough
<1> QED
  BY <1>2, <1>6

\* The tags of arguments are no buffers.
LEMMA TagsAreNoBuffers == {"now", "old", "adamwStep"} \cap Scratch = {}
<1> DEFINE Others == {"now", "old", "adamwStep"}
           Apart(t) == \A k \in DOMAIN t : (t[k].reads \cup t[k].writes) \cap Others = {}
<1> USE DEF Kernel, Optimizer
<1>1. Apart(ForwardKernels)
  BY KernelDomains DEF ForwardKernels, ForwardReads, ForwardWrites
<1>2. Apart(RmsBackwardKernels)
  BY KernelDomains DEF RmsBackwardKernels
<1>3. Apart(LossKernels)
  BY KernelDomains DEF LossKernels
<1>4. Apart(LmHeadKernels)
  BY KernelDomains DEF LmHeadKernels
<1>5. Apart(OutputKernels)
  BY KernelDomains DEF OutputKernels
<1>6. Apart(QkvKernels)
  BY KernelDomains DEF QkvKernels, QkvGradients
<1>7. Apart(TableKernels)
  BY KernelDomains DEF TableKernels
<1>8. Apart(FfnKernels)
  BY KernelDomains DEF FfnKernels, FfnGradients, FfnWeights
<1>9. Apart(AttentionKernels)
  BY KernelDomains DEF AttentionKernels
<1>10. Apart(ProjectionKernels)
  BY KernelDomains DEF ProjectionKernels
<1>11. Apart(LoraKernels)
  BY KernelDomains DEF LoraKernels, LoraGradients, LoraAdapters, LoraMoments
<1>12. \A t \in KernelTables : Apart(t)
  BY <1>1, <1>2, <1>3, <1>4, <1>5, <1>6, <1>7, <1>8, <1>9, <1>10, <1>11 DEF KernelTables
<1>13. \A k \in DOMAIN K : \E t \in KernelTables : k \in DOMAIN t /\ K[k] = t[k]
  BY KernelsFound DEF MergedFrom
<1>14. \A k \in DOMAIN K : (K[k].reads \cup K[k].writes) \cap Others = {}
  BY <1>12, <1>13
<1> QED
  BY <1>14 DEF Scratch

\* What LoRA accumulates reaches nothing but itself and the parameters.
CleanFlows ==
  {f \in Flows : \A b \in DOMAIN f \ (LoraGradients \cup Parameters) :
                   f[b] \cap LoraGradients = {}}

HarmlessFlows == {f \in CleanFlows : DOMAIN f \cap Parameters = {}}

LEMMA CleanFlowsAre ==
  ASSUME NEW f \in CleanFlows
  PROVE  /\ f \in Flows
         /\ \A b \in DOMAIN f \ (LoraGradients \cup Parameters) : f[b] \cap LoraGradients = {}
BY DEF CleanFlows

LEMMA HeldClean ==
  ASSUME NEW f \in CleanFlows, NEW b \in Buffers \ LoraGradients
  PROVE  Held(f, b) \cap LoraGradients = {}
<1>1. "now" \notin LoraGradients
  BY DEF LoraGradients
<1> QED
  BY <1>1, CleanFlowsAre DEF Held

LEMMA CleanStep ==
  ASSUME NEW f \in CleanFlows, NEW c \in Command
  PROVE  FlowStep(f, c) \in CleanFlows
<1>1. CASE c \in Barriers
  <2>1. FlowStep(f, c) = f
    BY <1>1, BarrierStep
  <2> QED
    BY <2>1
<1>2. CASE c \in Works
  <2> DEFINE g == FlowStep(f, c)
             w == NamesOf(c.writes) \ Given
             from == UNION {Held(f, r) : r \in NamesOf(c.reads)}
  <2>1. /\ DOMAIN g = w \cup DOMAIN f
        /\ \A b \in w : g[b] = from
        /\ \A b \in DOMAIN f \ w : g[b] = f[b]
        /\ g \in Flows
    BY <1>2, CleanFlowsAre, WorkStep
  <2>2. ASSUME NEW b \in w, b \notin LoraGradients \cup Parameters
        PROVE  from \cap LoraGradients = {}
    <3>1. NamesOf(c.reads) \cap LoraGradients = {} /\ NamesOf(c.reads) \subseteq Buffers
      <4>1. NamesOf(c.reads) \cap LoraGradients # {} => w \subseteq LoraGradients \cup Parameters
        BY <1>2 DEF Works
      <4>2. c.reads \in SUBSET Place
        BY <1>2 DEF Works
      <4> QED
        BY <2>2, <4>1, <4>2, NamesTyped
    <3> QED
      BY <3>1, HeldClean
  <2> HIDE DEF g, w, from
  <2>3. \A b \in DOMAIN g \ (LoraGradients \cup Parameters) : g[b] \cap LoraGradients = {}
    BY <2>1, <2>2, CleanFlowsAre
  <2> QED
    BY <2>1, <2>3 DEF CleanFlows, g
<1> QED
  BY <1>1, <1>2 DEF Command

LEMMA NoFlowIs == <<>> \in HarmlessFlows /\ <<>> \in CleanFlows
BY NoFlow DEF CleanFlows, HarmlessFlows

\* What a program writes, and from what.
LEMMA ProgramFlow ==
  ASSUME NEW p \in Seq(Command)
  PROVE  Flow(p) \in CleanFlows
<1>1. \A f \in CleanFlows \cap Flows, c \in Command : FlowStep(f, c) \in CleanFlows
  BY CleanStep
<1>2. Flow(p) \in CleanFlows \cap Flows
  BY <1>1, NoFlowIs, FlowKeeps
<1> QED
  BY <1>2

LEMMA HarmlessProgramFlow ==
  ASSUME NEW p \in Seq(HarmlessCommand)
  PROVE  Flow(p) \in HarmlessFlows
<1>1. ASSUME NEW f \in HarmlessFlows, NEW c \in HarmlessCommand
      PROVE  FlowStep(f, c) \in HarmlessFlows
  <2>1. f \in CleanFlows /\ f \in Flows /\ DOMAIN f \cap Parameters = {}
    BY DEF HarmlessFlows, CleanFlows
  <2>2. FlowStep(f, c) \in CleanFlows
    BY <2>1, CommandSets, CleanStep
  <2>3. CASE c \in Barriers
    <3>1. FlowStep(f, c) = f
      BY <2>3, BarrierStep
    <3> QED
      BY <3>1
  <2>4. CASE c \in Works /\ NamesOf(c.writes) \cap Parameters = {}
    <3>1. DOMAIN FlowStep(f, c) = (NamesOf(c.writes) \ Given) \cup DOMAIN f
      BY <2>1, <2>4, WorkStep
    <3> QED
      BY <2>1, <2>2, <2>4, <3>1 DEF HarmlessFlows
  <2> QED
    BY <2>3, <2>4 DEF HarmlessCommand
<1>2. HarmlessCommand \in SUBSET Command
  BY CommandSets
<1>3. Flow(p) \in HarmlessFlows \cap Flows
  BY <1>1, <1>2, NoFlowIs, FlowKeeps
<1> QED
  BY <1>3

-----------------------------------------------------------------------------
\* Effects

Effect ==
  [flow : CleanFlows, step : {"keep", "count", "set"}, accumulating : {"keep", "begin", "end"},
   reset : BOOLEAN, read : SUBSET (Buffers \cup {"adamwStep"}),
   fails : {"never", "returns", "throws"}]

\* Effects that leave the checkpoint and begin no accumulation, ...
Tame == {e \in Effect : ~ e.reset /\ e.accumulating # "begin"}

\* ... and of these the ones that do not count a step.
Modest == {e \in Tame : e.step # "count"}

\* Effects that change neither parameters, nor the step, nor the mode.
Quiet ==
  {e \in Effect : /\ DOMAIN e.flow \cap Parameters = {}
                  /\ e.step = "keep" /\ e.accumulating = "keep" /\ ~ e.reset}

LEMMA EffectSets ==
  /\ Quiet \subseteq Modest /\ Modest \subseteq Tame /\ Tame \subseteq Effect
  /\ Modest \subseteq Effect
BY DEF Quiet, Modest, Tame

LEMMA SimpleEffects ==
  /\ Nothing \in Quiet /\ MapMemory \in Quiet
  /\ CountStep \in Tame /\ SetStep \in Modest /\ EndSum \in Modest
  /\ BeginSum \in Effect /\ NewCheckpoint \in Effect /\ ReadsStep \in Quiet
<1>1. <<>> \in CleanFlows /\ DOMAIN <<>> \cap Parameters = {}
  BY NoFlowIs, NoFlow
<1> QED
  BY <1>1 DEF Nothing, MapMemory, CountStep, SetStep, EndSum, BeginSum, NewCheckpoint, ReadsStep,
              Quiet, Modest, Tame, Effect

LEMMA Submitting ==
  /\ \A p \in Seq(Command) : Submits(p) \in Modest /\ Submits(p).flow = Flow(p)
  /\ \A p \in Seq(HarmlessCommand) : Submits(p) \in Quiet
<1>1. ASSUME NEW p, Flow(p) \in CleanFlows
      PROVE  Submits(p) \in Modest /\ Submits(p).flow = Flow(p)
             /\ Submits(p).step = "keep" /\ Submits(p).accumulating = "keep"
  BY <1>1 DEF Submits, Nothing, Modest, Tame, Effect
<1>2. ASSUME NEW p \in Seq(HarmlessCommand)
      PROVE  Submits(p) \in Quiet
  <2>1. Flow(p) \in CleanFlows /\ DOMAIN Flow(p) \cap Parameters = {}
    BY HarmlessProgramFlow DEF HarmlessFlows
  <2>2. Submits(p) \in Modest /\ Submits(p).flow = Flow(p)
        /\ Submits(p).step = "keep" /\ Submits(p).accumulating = "keep"
    BY <1>1, <2>1
  <2> QED
    BY <2>1, <2>2 DEF Quiet, Modest, Tame
<1> QED
  BY <1>1, <1>2, ProgramFlow

LEMMA Uploading ==
  /\ \A b \in Scratch \cup Parameters : b \notin Given =>
       /\ Uploads(b) \in Modest /\ Uploads(b).step = "keep"
       /\ DOMAIN Uploads(b).flow = {b} /\ Uploads(b).flow[b] = {"now"}
       /\ Uploads(b).fails = "throws"
  /\ \A b \in Scratch \ Given : Uploads(b) \in Quiet
<1>1. Held(<<>>, "host") = {"now"}
  BY NoFlow DEF Held, Parameters, Weights, Moments, FfnWeights, LoraAdapters, LoraMoments, Given
<1>2. ASSUME NEW b \in (Scratch \cup Parameters) \ Given
      PROVE  /\ Uploads(b) \in Modest /\ Uploads(b).step = "keep"
             /\ Uploads(b).accumulating = "keep"
             /\ DOMAIN Uploads(b).flow = {b} /\ Uploads(b).flow[b] = {"now"}
             /\ Uploads(b).fails = "throws"
  <2> DEFINE f == [x \in {b} |-> Held(<<>>, "host")]
  <2>1. DOMAIN f = {b} /\ f[b] = {"now"} /\ f \in [{b} -> SUBSET Tags]
    BY <1>1 DEF Tags
  <2>2. {b} \in SUBSET (Buffers \ Given)
    BY DEF Buffers
  <2> HIDE DEF f
  <2>3. f \in Flows
    BY <2>1, <2>2, FlowTyped
  <2>4. f \in CleanFlows
    BY <2>1, <2>3 DEF CleanFlows, LoraGradients
  <2>5. Uploads(b) = [Nothing EXCEPT !.flow = f, !.fails = "throws"]
    BY DEF Uploads, f
  <2> QED
    BY <2>1, <2>4, <2>5 DEF Nothing, Modest, Tame, Effect
<1>3. ASSUME NEW b \in Scratch \ Given
      PROVE  Uploads(b) \in Quiet
  BY <1>2, BufferNames DEF Quiet, Modest, Tame
<1> QED
  BY <1>2, <1>3

LEMMA ThroughTyped ==
  ASSUME NEW f \in Flows, NEW tags \in SUBSET Tags
  PROVE  Through(f, tags) \subseteq Tags
BY FlowTyped DEF Through

LEMMA ThroughClean ==
  ASSUME NEW f \in CleanFlows, NEW tags \in SUBSET Tags, tags \cap LoraGradients = {}
  PROVE  Through(f, tags) \cap LoraGradients = {}
<1>1. tags \cap Parameters = {}
  BY BufferNames DEF Tags, Parameters, Weights, Moments, FfnWeights, LoraAdapters, LoraMoments
<1> QED
  BY <1>1, CleanFlowsAre DEF Through

LEMMA ThenIs ==
  ASSUME NEW f \in CleanFlows, NEW g \in CleanFlows
  PROVE  /\ Then(f, g) \in CleanFlows
         /\ DOMAIN Then(f, g) = DOMAIN f \cup DOMAIN g
         /\ \A b \in DOMAIN g : Then(f, g)[b] = Through(f, g[b])
         /\ \A b \in DOMAIN f \ DOMAIN g : Then(f, g)[b] = f[b]
<1> DEFINE new == [b \in DOMAIN g |-> Through(f, g[b])]
           h == Then(f, g)
<1>1. DOMAIN new = DOMAIN g /\ \A b \in DOMAIN g : new[b] = Through(f, g[b])
  OBVIOUS
<1>2. h = new ++ f
  BY DEF Then
<1> HIDE DEF new, h
<1>3. /\ DOMAIN h = DOMAIN f \cup DOMAIN g
      /\ \A b \in DOMAIN g : h[b] = Through(f, g[b])
      /\ \A b \in DOMAIN f \ DOMAIN g : h[b] = f[b]
  <2>1. /\ DOMAIN h = DOMAIN new \cup DOMAIN f
        /\ \A b \in DOMAIN new : h[b] = new[b]
        /\ \A b \in DOMAIN f : b \notin DOMAIN new => h[b] = f[b]
    <3>1. /\ DOMAIN (new ++ f) = DOMAIN new \cup DOMAIN f
          /\ \A b \in DOMAIN new : (new ++ f)[b] = new[b]
          /\ \A b \in DOMAIN f : b \notin DOMAIN new => (new ++ f)[b] = f[b]
      BY Merged
    <3> QED
      BY <1>2, <3>1
  <2> QED
    BY <1>1, <2>1
<1>4. h = [b \in DOMAIN h |-> h[b]]
  BY <1>2 DEF ++
<1>5. /\ f \in Flows /\ g \in Flows
      /\ DOMAIN f \subseteq Buffers \ Given /\ DOMAIN g \subseteq Buffers \ Given
      /\ \A b \in DOMAIN f : f[b] \subseteq Tags
      /\ \A b \in DOMAIN g : g[b] \subseteq Tags
  BY CleanFlowsAre, FlowTyped
<1>6. \A b \in DOMAIN h : h[b] \subseteq Tags
  BY <1>3, <1>5, ThroughTyped
<1>7. h \in [DOMAIN h -> SUBSET Tags] /\ DOMAIN h \in SUBSET (Buffers \ Given)
  BY <1>3, <1>4, <1>5, <1>6
<1>8. h \in Flows
  BY <1>7, FlowTyped
<1>9. ASSUME NEW b \in DOMAIN h, b \notin LoraGradients \cup Parameters
      PROVE  h[b] \cap LoraGradients = {}
  <2>1. CASE b \in DOMAIN g
    <3>1. g[b] \cap LoraGradients = {} /\ g[b] \subseteq Tags
      BY <1>5, <1>9, <2>1, CleanFlowsAre
    <3> QED
      BY <1>3, <2>1, <3>1, ThroughClean
  <2>2. CASE b \notin DOMAIN g
    BY <1>3, <1>9, <2>2, CleanFlowsAre
  <2> QED
    BY <2>1, <2>2
<1>10. h \in CleanFlows
  BY <1>8, <1>9 DEF CleanFlows
<1> QED
  BY <1>3, <1>10 DEF h

LEMMA FollowedIs ==
  ASSUME NEW e \in Effect, NEW n \in Effect
  PROVE  LET f == Followed(e, n)
         IN  /\ f \in Effect
             /\ f.flow = Then(e.flow, n.flow)
             /\ DOMAIN f.flow = DOMAIN e.flow \cup DOMAIN n.flow
             /\ n.step # "keep" => f.step = n.step
             /\ n.step = "keep" => f.step = e.step
             /\ n.accumulating # "keep" => f.accumulating = n.accumulating
             /\ n.accumulating = "keep" => f.accumulating = e.accumulating
             /\ f.reset = (e.reset \/ n.reset)
             /\ f.read = e.read \cup n.read
<1> DEFINE t == Then(e.flow, n.flow)
<1>1. e.flow \in CleanFlows /\ n.flow \in CleanFlows
  BY DEF Effect
<1>2. t \in CleanFlows /\ DOMAIN t = DOMAIN e.flow \cup DOMAIN n.flow
  BY <1>1, ThenIs
<1> HIDE DEF t
<1>3. Followed(e, n) =
        [flow  |-> t,
         step  |-> IF n.step = "keep" THEN e.step ELSE n.step,
         accumulating |-> IF n.accumulating = "keep" THEN e.accumulating ELSE n.accumulating,
         reset |-> e.reset \/ n.reset,
         read  |-> e.read \cup n.read,
         fails |-> "never"]
  BY DEF Followed, t
<1>4. /\ e.step \in {"keep", "count", "set"} /\ n.step \in {"keep", "count", "set"}
      /\ e.accumulating \in {"keep", "begin", "end"} /\ n.accumulating \in {"keep", "begin", "end"}
      /\ e.reset \in BOOLEAN /\ n.reset \in BOOLEAN
      /\ e.read \in SUBSET (Buffers \cup {"adamwStep"})
      /\ n.read \in SUBSET (Buffers \cup {"adamwStep"})
  BY DEF Effect
<1>5. Followed(e, n) \in Effect
  BY <1>2, <1>3, <1>4 DEF Effect
<1> QED
  BY <1>2, <1>3, <1>5 DEF t

LEMMA FollowedSets ==
  /\ \A e, n \in Tame : Followed(e, n) \in Tame
  /\ \A e, n \in Modest : Followed(e, n) \in Modest
  /\ \A e, n \in Quiet : Followed(e, n) \in Quiet
<1>1. ASSUME NEW e \in Tame, NEW n \in Tame PROVE Followed(e, n) \in Tame
  <2> DEFINE f == Followed(e, n)
  <2>1. e \in Effect /\ n \in Effect
    BY EffectSets
  <2>2. /\ f \in Effect
        /\ n.accumulating # "keep" => f.accumulating = n.accumulating
        /\ n.accumulating = "keep" => f.accumulating = e.accumulating
        /\ f.reset = (e.reset \/ n.reset)
    BY <2>1, FollowedIs
  <2> HIDE DEF f
  <2> QED
    BY <2>2 DEF Tame, f
<1>2. ASSUME NEW e \in Modest, NEW n \in Modest PROVE Followed(e, n) \in Modest
  <2> DEFINE f == Followed(e, n)
  <2>1. f \in Tame /\ e \in Effect /\ n \in Effect
    BY <1>1, EffectSets
  <2>2. /\ n.step # "keep" => f.step = n.step
        /\ n.step = "keep" => f.step = e.step
    BY <2>1, FollowedIs
  <2> HIDE DEF f
  <2> QED
    BY <2>1, <2>2 DEF Modest, f
<1>3. ASSUME NEW e \in Quiet, NEW n \in Quiet PROVE Followed(e, n) \in Quiet
  <2> DEFINE f == Followed(e, n)
  <2>1. e \in Effect /\ n \in Effect
    BY EffectSets
  <2>2. /\ f \in Effect
        /\ DOMAIN f.flow = DOMAIN e.flow \cup DOMAIN n.flow
        /\ n.step = "keep" => f.step = e.step
        /\ n.accumulating = "keep" => f.accumulating = e.accumulating
        /\ f.reset = (e.reset \/ n.reset)
    BY <2>1, FollowedIs
  <2> HIDE DEF f
  <2> QED
    BY <2>2 DEF Quiet, f
<1> QED
  BY <1>1, <1>2, <1>3

-----------------------------------------------------------------------------
\* Outcomes

\* u is what the first effects of an operation amount to, one by one.
AddUp(u, effects) ==
  /\ u \in [0 .. Len(effects) -> Effect] /\ u[0] = Nothing
  /\ \A n \in 1 .. Len(effects) : u[n] = Followed(u[n - 1], effects[n])

\* The recursion in Outcomes.
UpToEquation(u, effects) ==
  u = [n \in 0 .. Len(effects) |->
         IF n = 0 THEN Nothing ELSE Followed(u[n - 1], effects[n])]

MayFail(op, n) ==
  \/ op.effects[n].fails = "returns"
  \/ op.effects[n].fails = "throws" /\ ~ op.noexcept

LEMMA OutcomesStepwise ==
  ASSUME NEW op, op.effects \in Seq(Effect)
  PROVE  \E u : /\ AddUp(u, op.effects)
                /\ \A outcome \in Outcomes(op) :
                     \/ outcome = [ok |-> TRUE, effect |-> u[Len(op.effects)]]
                     \/ \E n \in 1 .. Len(op.effects) :
                          MayFail(op, n) /\ outcome = [ok |-> FALSE, effect |-> u[n - 1]]
<1> DEFINE effects == op.effects
           N == Len(effects)
           after == [n \in 1 .. N |-> [e \in Effect |-> Followed(e, effects[n])]]
           G == CHOOSE u : UpToEquation(u, effects)
<1>1. N \in Nat /\ DOMAIN effects = 1 .. N /\ \A n \in 1 .. N : effects[n] \in Effect
  BY LenProperties, ElementOfSeq
<1>2. Outcomes(op) =
        {[ok |-> TRUE, effect |-> G[N]]}
          \cup {[ok |-> FALSE, effect |-> G[n - 1]] : n \in {m \in DOMAIN effects : MayFail(op, m)}}
  BY DEF Outcomes, UpToEquation, MayFail
<1> HIDE DEF effects
<1>3. after \in [1 .. N -> [Effect -> Effect]]
  BY <1>1, FollowedIs
<1> HIDE DEF after
<1>4. Nothing \in Effect
  BY SimpleEffects, EffectSets
<1>5. PICK f : Iterates(f, N, Effect, Nothing, after)
  BY <1>1, <1>3, <1>4, Recursion
<1>6. \A n \in 1 .. N : n - 1 \in 0 .. N /\ f[n - 1] \in Effect
  BY <1>1, <1>5 DEF Iterates
<1>7. \A n \in 1 .. N : f[n] = Followed(f[n - 1], effects[n])
  BY <1>5, <1>6 DEF Iterates, after
<1>8. UpToEquation(f, effects)
  <2>1. f = [n \in 0 .. N |-> f[n]] /\ f[0] = Nothing
    BY <1>5 DEF Iterates
  <2>2. ASSUME NEW n \in 0 .. N
        PROVE  f[n] = IF n = 0 THEN Nothing ELSE Followed(f[n - 1], effects[n])
    <3>1. CASE n = 0
      BY <2>1, <3>1
    <3>2. CASE n # 0
      <4>1. n \in 1 .. N
        BY <1>1, <3>2
      <4> QED
        BY <1>7, <3>2, <4>1
    <3> QED
      BY <3>1, <3>2
  <2> QED
    BY <2>1, <2>2 DEF UpToEquation
<1>9. UpToEquation(G, effects)
  BY <1>8
<1> HIDE DEF G
<1>10. \A n \in 0 .. N : G[n] = IF n = 0 THEN Nothing ELSE Followed(G[n - 1], effects[n])
  BY <1>9 DEF UpToEquation
<1>11. G = [n \in 0 .. N |-> G[n]]
  BY <1>9 DEF UpToEquation
<1>12. G[0] = Nothing
  <2>1. 0 \in 0 .. N
    BY <1>1
  <2> QED
    BY <1>10, <2>1, Zenon
<1>13. ASSUME NEW n \in 1 .. N PROVE G[n] = Followed(G[n - 1], effects[n])
  <2>1. n \in 0 .. N /\ n # 0
    BY <1>1
  <2> QED
    BY <1>10, <2>1, Zenon
<1>14. \A n \in 0 .. N : G[n] \in Effect
  <2> DEFINE T == {n \in 0 .. N : G[n] \in Effect}
  <2>1. 0 \in T
    BY <1>1, <1>4, <1>12
  <2>2. \A n \in 0 .. N : n \in T /\ n < N => n + 1 \in T
    <3> SUFFICES ASSUME NEW n \in 0 .. N, n \in T, n < N PROVE n + 1 \in T
      OBVIOUS
    <3>1. n + 1 \in 1 .. N /\ n + 1 \in 0 .. N /\ (n + 1) - 1 = n
      BY <1>1
    <3>2. G[n + 1] = Followed(G[n], effects[n + 1])
      BY <1>13, <3>1
    <3>3. G[n] \in Effect /\ effects[n + 1] \in Effect
      BY <1>1, <3>1
    <3> QED
      BY <3>1, <3>2, <3>3, FollowedIs
  <2> HIDE DEF T
  <2>3. 0 .. N \subseteq T
    BY <1>1, <2>1, <2>2, InductionUpTo
  <2> QED
    BY <2>3 DEF T
<1>15. AddUp(G, effects)
  BY <1>11, <1>12, <1>13, <1>14 DEF AddUp
<1>16. ASSUME NEW outcome \in Outcomes(op)
       PROVE  \/ outcome = [ok |-> TRUE, effect |-> G[N]]
              \/ \E n \in 1 .. N : MayFail(op, n) /\ outcome = [ok |-> FALSE, effect |-> G[n - 1]]
  BY <1>1, <1>2
<1> QED
  BY <1>15, <1>16 DEF effects

\* What the effects up to n keep, their sum keeps.
LEMMA AddUpKeeps ==
  ASSUME NEW effects \in Seq(Effect), NEW u, AddUp(u, effects), NEW S, Nothing \in S,
         NEW n \in 0 .. Len(effects),
         \A m \in 1 .. n : effects[m] \in S,
         \A e \in S \cap Effect, x \in S \cap Effect : Followed(e, x) \in S
  PROVE  u[n] \in S \cap Effect
<1> DEFINE T == {m \in 0 .. n : u[m] \in S}
<1>1. /\ Len(effects) \in Nat /\ n \in Nat
      /\ \A m \in 1 .. Len(effects) : effects[m] \in Effect
      /\ \A m \in 0 .. Len(effects) : u[m] \in Effect
  BY LenProperties, ElementOfSeq DEF AddUp
<1>2. 0 \in T
  BY <1>1 DEF AddUp
<1>3. \A m \in 0 .. n : m \in T /\ m < n => m + 1 \in T
  <2> SUFFICES ASSUME NEW m \in 0 .. n, m \in T, m < n PROVE m + 1 \in T
    OBVIOUS
  <2>1. /\ m + 1 \in 1 .. n /\ m + 1 \in 0 .. n /\ (m + 1) - 1 = m
        /\ m + 1 \in 1 .. Len(effects) /\ m \in 0 .. Len(effects)
    BY <1>1
  <2>2. u[m + 1] = Followed(u[m], effects[m + 1])
    BY <2>1 DEF AddUp
  <2>3. u[m] \in S \cap Effect /\ effects[m + 1] \in S \cap Effect
    BY <1>1, <2>1
  <2> QED
    BY <2>1, <2>2, <2>3
<1> HIDE DEF T
<1>4. 0 .. n \subseteq T
  BY <1>1, <1>2, <1>3, InductionUpTo
<1>5. n \in 0 .. n
  BY <1>1
<1> QED
  BY <1>1, <1>4, <1>5 DEF T

\* An outcome is whole, or what came before an effect that may fail.
LEMMA OutcomeIs ==
  ASSUME NEW op, op.effects \in Seq(Effect), NEW outcome \in Outcomes(op)
  PROVE  \E u : /\ AddUp(u, op.effects)
                /\ \/ outcome.ok = TRUE /\ outcome.effect = u[Len(op.effects)]
                   \/ \E n \in 1 .. Len(op.effects) :
                        MayFail(op, n) /\ outcome.ok = FALSE /\ outcome.effect = u[n - 1]
<1>1. PICK u : /\ AddUp(u, op.effects)
               /\ \A x \in Outcomes(op) :
                    \/ x = [ok |-> TRUE, effect |-> u[Len(op.effects)]]
                    \/ \E n \in 1 .. Len(op.effects) :
                         MayFail(op, n) /\ x = [ok |-> FALSE, effect |-> u[n - 1]]
  BY OutcomesStepwise
<1>2. CASE outcome = [ok |-> TRUE, effect |-> u[Len(op.effects)]]
  BY <1>1, <1>2
<1>3. CASE \E n \in 1 .. Len(op.effects) :
             MayFail(op, n) /\ outcome = [ok |-> FALSE, effect |-> u[n - 1]]
  BY <1>1, <1>3
<1> QED
  BY <1>1, <1>2, <1>3

\* Whatever all effects keep, an outcome keeps.
LEMMA OutcomeKeeps ==
  ASSUME NEW op, op.effects \in Seq(Effect), NEW S, Nothing \in S,
         \A n \in 1 .. Len(op.effects) : op.effects[n] \in S,
         \A e \in S \cap Effect, x \in S \cap Effect : Followed(e, x) \in S,
         NEW outcome \in Outcomes(op)
  PROVE  outcome.ok \in BOOLEAN /\ outcome.effect \in S \cap Effect
<1> DEFINE N == Len(op.effects)
<1>1. PICK u : /\ AddUp(u, op.effects)
               /\ \/ outcome.ok = TRUE /\ outcome.effect = u[N]
                  \/ \E n \in 1 .. N :
                       MayFail(op, n) /\ outcome.ok = FALSE /\ outcome.effect = u[n - 1]
  BY OutcomeIs
<1>2. N \in Nat
  BY LenProperties
<1>3. ASSUME NEW n \in 0 .. N PROVE u[n] \in S \cap Effect
  <2>1. \A m \in 1 .. n : op.effects[m] \in S
    BY <1>2
  <2> QED
    BY <1>1, <2>1, AddUpKeeps
<1>4. N \in 0 .. N /\ \A n \in 1 .. N : n - 1 \in 0 .. N
  BY <1>2
<1> QED
  BY <1>1, <1>3, <1>4

\* A failure after quiet effects has changed nothing that counts.
LEMMA FailureIsQuiet ==
  ASSUME NEW op, op.effects \in Seq(Effect),
         \A n \in 1 .. Len(op.effects) :
           MayFail(op, n) => \A m \in 1 .. n - 1 : op.effects[m] \in Quiet,
         NEW outcome \in Outcomes(op), ~ outcome.ok
  PROVE  outcome.effect \in Quiet
<1> DEFINE N == Len(op.effects)
<1>1. N \in Nat
  BY LenProperties
<1>2. PICK u : /\ AddUp(u, op.effects)
               /\ \/ outcome.ok = TRUE /\ outcome.effect = u[N]
                  \/ \E n \in 1 .. N :
                       MayFail(op, n) /\ outcome.ok = FALSE /\ outcome.effect = u[n - 1]
  BY OutcomeIs
<1>3. PICK n \in 1 .. N : MayFail(op, n) /\ outcome.effect = u[n - 1]
  BY <1>2
<1>4. n - 1 \in 0 .. N
  BY <1>1
<1>5. \A m \in 1 .. n - 1 : op.effects[m] \in Quiet
  BY <1>3
<1>6. u[n - 1] \in Quiet \cap Effect
  BY <1>2, <1>4, <1>5, SimpleEffects, FollowedSets, AddUpKeeps
<1> QED
  BY <1>3, <1>6

\* A call that ends well has written and read what its effects do; a last
\* effect on the step counts.
LEMMA SuccessIsWhole ==
  ASSUME NEW op, op.effects \in Seq(Effect), Len(op.effects) > 0,
         NEW outcome \in Outcomes(op), outcome.ok
  PROVE  LET N == Len(op.effects)
         IN  /\ \A n \in 1 .. N : /\ DOMAIN op.effects[n].flow \subseteq DOMAIN outcome.effect.flow
                                  /\ op.effects[n].read \subseteq outcome.effect.read
             /\ op.effects[N].step # "keep" => outcome.effect.step = op.effects[N].step
             /\ \A u : AddUp(u, op.effects) => outcome.effect = u[N]
<1> DEFINE N == Len(op.effects)
           Has(e, x) == DOMAIN x.flow \subseteq DOMAIN e.flow /\ x.read \subseteq e.read
<1>1. N \in Nat /\ N > 0 /\ \A n \in 1 .. N : op.effects[n] \in Effect
  BY LenProperties, ElementOfSeq
<1>2. PICK u : /\ AddUp(u, op.effects)
               /\ \/ outcome.ok = TRUE /\ outcome.effect = u[N]
                  \/ \E n \in 1 .. N :
                       MayFail(op, n) /\ outcome.ok = FALSE /\ outcome.effect = u[n - 1]
  BY OutcomeIs
<1>3. outcome.effect = u[N]
  BY <1>2
<1>4. ASSUME NEW n \in 1 .. N
      PROVE  /\ u[n - 1] \in Effect /\ u[n] = Followed(u[n - 1], op.effects[n])
             /\ DOMAIN u[n].flow = DOMAIN u[n - 1].flow \cup DOMAIN op.effects[n].flow
             /\ u[n].read = u[n - 1].read \cup op.effects[n].read
             /\ op.effects[n].step # "keep" => u[n].step = op.effects[n].step
  <2>1. n - 1 \in 0 .. N
    BY <1>1
  <2>2. u[n - 1] \in Effect /\ u[n] = Followed(u[n - 1], op.effects[n])
    BY <1>2, <2>1 DEF AddUp
  <2> QED
    BY <1>1, <2>2, FollowedIs
<1>5. \A n \in 1 .. N : Has(u[N], op.effects[n])
  <2> DEFINE T == {m \in 0 .. N : \A n \in 1 .. m : Has(u[m], op.effects[n])}
  <2>1. 0 \in T
    BY <1>1
  <2>2. \A m \in 0 .. N : m \in T /\ m < N => m + 1 \in T
    <3> SUFFICES ASSUME NEW m \in 0 .. N, m \in T, m < N PROVE m + 1 \in T
      OBVIOUS
    <3>1. m + 1 \in 1 .. N /\ m + 1 \in 0 .. N /\ (m + 1) - 1 = m
      BY <1>1
    <3>2. Has(u[m + 1], u[m]) /\ Has(u[m + 1], op.effects[m + 1])
      BY <1>4, <3>1
    <3>3. \A n \in 1 .. m : Has(u[m], op.effects[n])
      OBVIOUS
    <3>4. \A n \in 1 .. m + 1 : n = m + 1 \/ n \in 1 .. m
      BY <3>1
    <3>5. \A n \in 1 .. m + 1 : Has(u[m + 1], op.effects[n])
      BY <3>2, <3>3, <3>4
    <3> QED
      BY <3>1, <3>5
  <2> HIDE DEF T
  <2>3. 0 .. N \subseteq T
    BY <1>1, <2>1, <2>2, InductionUpTo
  <2>4. N \in 0 .. N
    BY <1>1
  <2>5. N \in T
    BY <2>3, <2>4
  <2> QED
    BY <2>5 DEF T
<1>6. N \in 1 .. N
  BY <1>1
<1>7. op.effects[N].step # "keep" => outcome.effect.step = op.effects[N].step
  BY <1>3, <1>4, <1>6
<1>8. ASSUME NEW v, AddUp(v, op.effects) PROVE u[N] = v[N]
  <2> DEFINE T == {m \in 0 .. N : u[m] = v[m]}
  <2>1. 0 \in T
    BY <1>1, <1>2, <1>8 DEF AddUp
  <2>2. \A m \in 0 .. N : m \in T /\ m < N => m + 1 \in T
    <3> SUFFICES ASSUME NEW m \in 0 .. N, m \in T, m < N PROVE m + 1 \in T
      OBVIOUS
    <3>1. m + 1 \in 1 .. N /\ m + 1 \in 0 .. N /\ (m + 1) - 1 = m
      BY <1>1
    <3>2. /\ u[m + 1] = Followed(u[m], op.effects[m + 1])
          /\ v[m + 1] = Followed(v[m], op.effects[m + 1])
      BY <1>2, <1>8, <3>1 DEF AddUp
    <3> QED
      BY <3>1, <3>2
  <2> HIDE DEF T
  <2>3. 0 .. N \subseteq T
    BY <1>1, <2>1, <2>2, InductionUpTo
  <2>4. N \in 0 .. N
    BY <1>1
  <2>5. N \in T
    BY <2>3, <2>4
  <2> QED
    BY <2>5 DEF T
<1> QED
  BY <1>3, <1>5, <1>7, <1>8

-----------------------------------------------------------------------------
\* Operations

\* An operation that leaves the checkpoint, begins no accumulation, and has
\* changed nothing that counts where it fails.
Ordinary(op) ==
  \A outcome \in Outcomes(op) :
    /\ outcome.ok \in BOOLEAN /\ outcome.effect \in Modest
    /\ ~ outcome.ok => outcome.effect \in Quiet

\* The same of an operation that may count a step where it succeeds.
Stepping(op) ==
  \A outcome \in Outcomes(op) :
    /\ outcome.ok \in BOOLEAN /\ outcome.effect \in Tame
    /\ ~ outcome.ok => outcome.effect \in Quiet

\* An ordinary operation, wherever it may fail.
Moderate(op) ==
  \A outcome \in Outcomes(op) : outcome.ok \in BOOLEAN /\ outcome.effect \in Modest

LEMMA ModerateIs ==
  ASSUME NEW op, op.effects \in Seq(Modest)
  PROVE  Moderate(op) /\ op.effects \in Seq(Effect)
<1>1. op.effects \in Seq(Effect) /\ \A n \in 1 .. Len(op.effects) : op.effects[n] \in Modest
  BY EffectSets, LenProperties, ElementOfSeq
<1>2. Nothing \in Modest
  BY SimpleEffects, EffectSets
<1>3. ASSUME NEW outcome \in Outcomes(op)
      PROVE  outcome.ok \in BOOLEAN /\ outcome.effect \in Modest \cap Effect
  <2>1. \A e \in Modest \cap Effect, x \in Modest \cap Effect : Followed(e, x) \in Modest
    BY FollowedSets
  <2> QED
    BY <1>1, <1>2, <2>1, OutcomeKeeps
<1> QED
  BY <1>1, <1>3 DEF Moderate

LEMMA OrdinaryIs ==
  ASSUME NEW op, op.effects \in Seq(Modest),
         \A n \in 1 .. Len(op.effects) :
           MayFail(op, n) => \A m \in 1 .. n - 1 : op.effects[m] \in Quiet
  PROVE  Ordinary(op)
<1>1. Moderate(op) /\ op.effects \in Seq(Effect)
  BY ModerateIs
<1>2. \A outcome \in Outcomes(op) : ~ outcome.ok => outcome.effect \in Quiet
  BY <1>1, FailureIsQuiet
<1> QED
  BY <1>1, <1>2 DEF Ordinary, Moderate

LEMMA TameIs ==
  ASSUME NEW op, op.effects \in Seq(Tame)
  PROVE  /\ op.effects \in Seq(Effect)
         /\ \A outcome \in Outcomes(op) : outcome.ok \in BOOLEAN /\ outcome.effect \in Tame
<1>1. op.effects \in Seq(Effect) /\ \A n \in 1 .. Len(op.effects) : op.effects[n] \in Tame
  BY EffectSets, LenProperties, ElementOfSeq
<1>2. Nothing \in Tame
  BY SimpleEffects, EffectSets
<1>3. ASSUME NEW outcome \in Outcomes(op)
      PROVE  outcome.ok \in BOOLEAN /\ outcome.effect \in Tame \cap Effect
  <2>1. \A e \in Tame \cap Effect, x \in Tame \cap Effect : Followed(e, x) \in Tame
    BY FollowedSets
  <2> QED
    BY <1>1, <1>2, <2>1, OutcomeKeeps
<1> QED
  BY <1>1, <1>3

LEMMA SteppingIs ==
  ASSUME NEW op, op.effects \in Seq(Tame),
         \A n \in 1 .. Len(op.effects) :
           MayFail(op, n) => \A m \in 1 .. n - 1 : op.effects[m] \in Quiet
  PROVE  Stepping(op)
<1>1. op.effects \in Seq(Effect)
  BY TameIs
<1>2. \A outcome \in Outcomes(op) : ~ outcome.ok => outcome.effect \in Quiet
  BY <1>1, FailureIsQuiet
<1> QED
  BY <1>2, TameIs DEF Stepping

LEMMA QuietOperation ==
  ASSUME NEW op, op.effects \in Seq(Quiet)
  PROVE  Ordinary(op)
<1>1. op.effects \in Seq(Modest)
  BY EffectSets
<1>2. Len(op.effects) \in Nat /\ \A n \in 1 .. Len(op.effects) : op.effects[n] \in Quiet
  BY LenProperties, ElementOfSeq
<1>3. \A n \in 1 .. Len(op.effects) : \A m \in 1 .. n - 1 : op.effects[m] \in Quiet
  BY <1>2
<1> QED
  BY <1>1, <1>3, OrdinaryIs

LEMMA NoFailure ==
  ASSUME NEW effects \in Seq(Modest), \A n \in 1 .. Len(effects) : effects[n].fails # "returns"
  PROVE  Ordinary(Noexcept(effects))
<1> DEFINE op == Noexcept(effects)
<1>1. op.effects = effects /\ op.noexcept = TRUE
  BY DEF Noexcept, Operation
<1> HIDE DEF op
<1>2. \A n \in 1 .. Len(op.effects) : ~ MayFail(op, n)
  BY <1>1 DEF MayFail
<1>3. Ordinary(op)
  BY <1>1, <1>2, OrdinaryIs
<1> QED
  BY <1>3 DEF op

LEMMA FailsAre ==
  /\ MapMemory.fails = "returns"
  /\ \A p : Submits(p).fails = "throws"
  /\ \A e \in {CountStep, SetStep, BeginSum, EndSum, NewCheckpoint} : e.fails = "never"
  /\ CountStep.step = "count" /\ SetStep.step = "set"
  /\ \A p : Submits(p).step = "keep"
BY DEF MapMemory, Submits, CountStep, SetStep, BeginSum, EndSum, NewCheckpoint, Nothing

LEMMA TrainingShapes ==
  ASSUME NEW p \in Seq(Command)
  PROVE  /\ Ordinary(SgdStep(p)) /\ Stepping(AdamwStep(p)) /\ Stepping(AdamwStaged(p))
         /\ Ordinary(MayThrow(<<MapMemory, Submits(p)>>))
         /\ Ordinary(Noexcept(<<Submits(p)>>))
<1>1. /\ Submits(p) \in Modest /\ MapMemory \in Modest /\ MapMemory \in Quiet
      /\ Submits(p) \in Tame /\ MapMemory \in Tame /\ CountStep \in Tame
  BY Submitting, SimpleEffects, EffectSets
<1>2. ASSUME NEW op, op.effects = <<MapMemory, Submits(p)>> PROVE Ordinary(op)
  <2>1. op.effects \in Seq(Modest) /\ Len(op.effects) = 2 /\ op.effects[1] = MapMemory
    BY <1>1, <1>2
  <2>2. \A n \in 1 .. 2 : \A m \in 1 .. n - 1 : m = 1
    OBVIOUS
  <2> QED
    BY <1>1, <2>1, <2>2, OrdinaryIs
<1>3. Ordinary(SgdStep(p)) /\ Ordinary(MayThrow(<<MapMemory, Submits(p)>>))
  BY <1>2 DEF SgdStep, Noexcept, MayThrow, Operation
<1>4. Stepping(AdamwStep(p))
  <2> DEFINE op == AdamwStep(p)
  <2>1. op.effects = <<MapMemory, CountStep, Submits(p)>> /\ op.noexcept = TRUE
    BY DEF AdamwStep, Operation
  <2> HIDE DEF op
  <2>2. /\ op.effects \in Seq(Tame) /\ Len(op.effects) = 3 /\ op.effects[1] = MapMemory
        /\ op.effects[2] = CountStep /\ op.effects[3] = Submits(p)
    BY <1>1, <2>1
  <2>3. \A n \in 1 .. 3 : n = 1 \/ n = 2 \/ n = 3
    OBVIOUS
  <2>4. \A n \in 1 .. 3 : MayFail(op, n) => n = 1
    BY <2>1, <2>2, <2>3, FailsAre DEF MayFail
  <2>5. \A n \in 1 .. 3 : MayFail(op, n) => \A m \in 1 .. n - 1 : op.effects[m] \in Quiet
    BY <2>4
  <2>6. Stepping(op)
    BY <2>2, <2>5, SteppingIs
  <2> QED
    BY <2>6 DEF op
<1>5. Stepping(AdamwStaged(p))
  <2> DEFINE effects == <<CountStep, Submits(p)>>
  <2>1. effects \in Seq(Tame) /\ Len(effects) = 2 /\ effects[1] = CountStep /\ effects[2] = Submits(p)
    BY <1>1
  <2>2. AdamwStaged(p).effects = effects /\ AdamwStaged(p).noexcept = TRUE
    BY DEF AdamwStaged, Operation
  <2> HIDE DEF effects
  <2>3. \A n \in 1 .. 2 : n = 1 \/ n = 2
    OBVIOUS
  <2>4. \A n \in 1 .. 2 : ~ MayFail(AdamwStaged(p), n)
    BY <2>1, <2>2, <2>3, FailsAre DEF MayFail
  <2> QED
    BY <2>1, <2>2, <2>4, SteppingIs
<1>6. Ordinary(Noexcept(<<Submits(p)>>))
  <2> DEFINE effects == <<Submits(p)>>
  <2>1. effects \in Seq(Modest) /\ Len(effects) = 1 /\ effects[1] = Submits(p)
    BY <1>1
  <2> HIDE DEF effects
  <2>2. \A n \in 1 .. Len(effects) : effects[n].fails # "returns"
    <3>1. \A n \in 1 .. 1 : n = 1
      OBVIOUS
    <3> QED
      BY <2>1, <3>1, FailsAre
  <2>3. Ordinary(Noexcept(effects))
    BY <2>1, <2>2, NoFailure
  <2> QED
    BY <2>3 DEF effects
<1> QED
  BY <1>3, <1>4, <1>5, <1>6

LEMMA GroupTrainingNames ==
  DOMAIN GroupTraining =
    {"train_lm_head_sgd", "train_output_sgd", "train_qkv_sgd", "train_embeddings_sgd",
     "train_positions_sgd", "train_dataset_batch", "train_lm_head_adamw", "train_output_adamw",
     "train_positions_adamw", "train_qkv_adamw_from_gradients", "run_ffn_adamw_all",
     "run_ffn_w1_adamw", "run_rmsnorm_gamma_adamw_staged"}
BY DEF GroupTraining

\* The optimizers of the parameter groups, which check the step they count.
GroupOptimizers ==
  {"train_lm_head_adamw", "train_output_adamw", "train_positions_adamw",
   "train_qkv_adamw_from_gradients", "run_ffn_adamw_all", "run_ffn_w1_adamw",
   "run_rmsnorm_gamma_adamw_staged"}

LEMMA GroupTrainingIs ==
  /\ \A o \in DOMAIN GroupTraining \ GroupOptimizers : Ordinary(GroupTraining[o])
  /\ \A o \in GroupOptimizers :
       /\ o \in DOMAIN GroupTraining /\ GroupTraining[o].needs = {"step"}
       /\ Stepping(GroupTraining[o])
<1> DEFINE g == GroupTraining
<1>1. /\ g["train_lm_head_sgd"] = SgdStep(train_lm_head_sgd)
      /\ g["train_output_sgd"] = SgdStep(train_output_sgd)
      /\ g["train_qkv_sgd"] = SgdStep(train_qkv_sgd)
      /\ g["train_embeddings_sgd"] = SgdStep(train_embeddings_sgd)
      /\ g["train_positions_sgd"] = MayThrow(<<MapMemory, Submits(train_positions_sgd)>>)
      /\ g["train_dataset_batch"] = Noexcept(<<Submits(train_dataset_batch)>>)
  BY DEF GroupTraining
<1>2. /\ g["train_lm_head_adamw"] = AdamwStep(train_lm_head_adamw)
      /\ g["train_output_adamw"] = AdamwStep(train_output_adamw)
      /\ g["train_positions_adamw"] = AdamwStep(train_positions_adamw)
      /\ g["train_qkv_adamw_from_gradients"] = AdamwStaged(train_qkv_adamw_from_gradients)
      /\ g["run_ffn_adamw_all"] = AdamwStaged(run_ffn_adamw_all)
      /\ g["run_ffn_w1_adamw"] = AdamwStaged(run_ffn_w1_adamw)
      /\ g["run_rmsnorm_gamma_adamw_staged"] = AdamwStaged(run_rmsnorm_gamma_adamw_staged)
  BY DEF GroupTraining
<1> HIDE DEF g
<1>3. \A o \in {"train_lm_head_sgd", "train_output_sgd", "train_qkv_sgd", "train_embeddings_sgd",
                "train_positions_sgd", "train_dataset_batch"} : Ordinary(g[o])
  BY <1>1, SgdPrograms, TrainingShapes
<1>4. \A o \in GroupOptimizers : \E p \in Seq(Command) : g[o] \in {AdamwStep(p), AdamwStaged(p)}
  BY <1>2, AdamwPrograms DEF GroupOptimizers
<1>5. ASSUME NEW o \in GroupOptimizers
      PROVE  Stepping(g[o]) /\ g[o].needs = {"step"}
  <2>1. PICK p \in Seq(Command) : g[o] \in {AdamwStep(p), AdamwStaged(p)}
    BY <1>4
  <2>2. Stepping(g[o])
    BY <2>1, TrainingShapes
  <2>3. g[o].needs = {"step"}
    BY <2>1 DEF AdamwStep, AdamwStaged, Operation
  <2> QED
    BY <2>2, <2>3
<1>6. \A o \in DOMAIN GroupTraining :
        \/ o \in {"train_lm_head_sgd", "train_output_sgd", "train_qkv_sgd", "train_embeddings_sgd",
                  "train_positions_sgd", "train_dataset_batch"}
        \/ o \in GroupOptimizers
  BY GroupTrainingNames DEF GroupOptimizers
<1>7. GroupOptimizers \subseteq DOMAIN GroupTraining
  BY GroupTrainingNames DEF GroupOptimizers
<1> QED
  BY <1>3, <1>5, <1>6, <1>7 DEF g

-----------------------------------------------------------------------------
\* The LoRA path

LEMMA TokenEffects ==
  /\ TokenTraining \in Seq(Quiet) /\ TokenForward \in Seq(Quiet)
  /\ TokenBackward(TRUE) \in Seq(Quiet) /\ TokenBackward(FALSE) \in Seq(Modest)
<1>1. MapMemory \in Quiet /\ Quiet \subseteq Modest
  BY SimpleEffects, EffectSets
<1>2. Submits(token_step_training) \in Quiet /\ Submits(forward) \in Quiet
  BY TokenPrograms, ForwardPrograms, Submitting
<1>3. Submits(lora_backward(4, TRUE)) \in Quiet /\ Submits(lora_backward(4, FALSE)) \in Modest
  BY TokenPrograms, Submitting
<1>4. Uploads("tokens") \in Quiet /\ Uploads("doutput") \in Quiet
  <2>1. {"tokens", "doutput"} \subseteq Scratch \ Given
    BY BufferNames DEF Given
  <2> QED
    BY <2>1, Uploading
<1>5. TokenTraining \in Seq(Quiet)
  BY <1>1, <1>2 DEF TokenTraining
<1>6. TokenForward \in Seq(Quiet)
  BY <1>1, <1>2, <1>4 DEF TokenForward
<1> DEFINE middle(accumulating) ==
             <<Uploads("doutput"), Submits(lora_backward(4, accumulating)), MapMemory>>
<1>7. middle(TRUE) \in Seq(Quiet) /\ middle(FALSE) \in Seq(Modest)
  <2> DEFINE more == Submits(lora_backward(4, TRUE))
             once == Submits(lora_backward(4, FALSE))
  <2>1. more \in Quiet /\ once \in Modest
    BY <1>3
  <2> HIDE DEF more, once
  <2>2. <<Uploads("doutput"), more, MapMemory>> \in Seq(Quiet)
    BY <1>1, <1>4, <2>1
  <2>3. <<Uploads("doutput"), once, MapMemory>> \in Seq(Modest)
    BY <1>1, <1>4, <2>1
  <2> QED
    BY <2>2, <2>3 DEF more, once
<1>8. TokenBackward(TRUE) = ((TokenTraining \o TokenForward) \o middle(TRUE)) \o TokenTraining
      /\ TokenBackward(FALSE) = ((TokenTraining \o TokenForward) \o middle(FALSE)) \o TokenTraining
  BY DEF TokenBackward
<1> HIDE DEF middle
<1>9. TokenTraining \o TokenForward \in Seq(Quiet)
  BY <1>5, <1>6
<1>10. TokenTraining \o TokenForward \in Seq(Modest) /\ TokenTraining \in Seq(Modest)
  BY <1>1, <1>5, <1>9
<1>11. (TokenTraining \o TokenForward) \o middle(TRUE) \in Seq(Quiet)
  BY <1>7, <1>9, ConcatProperties
<1>12. (TokenTraining \o TokenForward) \o middle(FALSE) \in Seq(Modest)
  BY <1>7, <1>10, ConcatProperties
<1>13. TokenBackward(TRUE) \in Seq(Quiet)
  BY <1>5, <1>8, <1>11, ConcatProperties
<1>14. TokenBackward(FALSE) \in Seq(Modest)
  BY <1>8, <1>10, <1>12, ConcatProperties
<1> QED
  BY <1>5, <1>6, <1>13, <1>14

LEMMA LoraTrainingNames ==
  DOMAIN LoraTraining =
    {"token_step_training", "token_step_training_backward",
     "token_step_training_backward_accumulate", "token_windows_training_backward_accumulate",
     "begin_lora_accumulation", "finalize_lora_sgd", "finalize_lora_adamw"}
BY DEF LoraTraining

\* finalize_lora_adamw has counted its step where it fails.
Counting(op) ==
  \A outcome \in Outcomes(op) :
    /\ outcome.ok \in BOOLEAN /\ outcome.effect \in Tame
    /\ ~ outcome.ok => /\ DOMAIN outcome.effect.flow \cap Parameters = {}
                       /\ outcome.effect.accumulating = "keep"

\* begin_lora_accumulation clears what will be added to.
Beginning(op) ==
  \A outcome \in Outcomes(op) :
    /\ outcome.ok \in BOOLEAN /\ outcome.effect \in Effect /\ ~ outcome.effect.reset
    /\ outcome.effect.step = "keep"
    /\ outcome.ok => /\ outcome.effect.accumulating = "begin"
                     /\ LoraGradients \subseteq DOMAIN outcome.effect.flow
                     /\ \A b \in LoraGradients : outcome.effect.flow[b] = {}
    /\ ~ outcome.ok => outcome.effect \in Quiet

\* No kernel is in two tables.
LEMMA KernelIs == \A t \in KernelTables : \A k \in DOMAIN t : K[k] = t[k]
<1>1. ASSUME NEW t \in KernelTables, NEW k \in DOMAIN t
      PROVE  \E s \in KernelTables : k \in DOMAIN s /\ K[k] = s[k]
  BY <1>1, KernelsFound DEF MergedFrom
<1>2. \A k \in DOMAIN ForwardKernels : \A s \in KernelTables : k \in DOMAIN s => s = ForwardKernels
  BY KernelDomains, SMTT(60) DEF KernelTables
<1>3. \A k \in DOMAIN RmsBackwardKernels : \A s \in KernelTables : k \in DOMAIN s => s = RmsBackwardKernels
  BY KernelDomains, SMTT(60) DEF KernelTables
<1>4. \A k \in DOMAIN LossKernels : \A s \in KernelTables : k \in DOMAIN s => s = LossKernels
  BY KernelDomains, SMTT(60) DEF KernelTables
<1>5. \A k \in DOMAIN LmHeadKernels : \A s \in KernelTables : k \in DOMAIN s => s = LmHeadKernels
  BY KernelDomains, SMTT(60) DEF KernelTables
<1>6. \A k \in DOMAIN OutputKernels : \A s \in KernelTables : k \in DOMAIN s => s = OutputKernels
  BY KernelDomains, SMTT(60) DEF KernelTables
<1>7. \A k \in DOMAIN QkvKernels : \A s \in KernelTables : k \in DOMAIN s => s = QkvKernels
  BY KernelDomains, SMTT(60) DEF KernelTables
<1>8. \A k \in DOMAIN TableKernels : \A s \in KernelTables : k \in DOMAIN s => s = TableKernels
  BY KernelDomains, SMTT(60) DEF KernelTables
<1>9. \A k \in DOMAIN FfnKernels : \A s \in KernelTables : k \in DOMAIN s => s = FfnKernels
  BY KernelDomains, SMTT(60) DEF KernelTables
<1>10. \A k \in DOMAIN AttentionKernels : \A s \in KernelTables : k \in DOMAIN s => s = AttentionKernels
  BY KernelDomains, SMTT(60) DEF KernelTables
<1>11. \A k \in DOMAIN ProjectionKernels : \A s \in KernelTables : k \in DOMAIN s => s = ProjectionKernels
  BY KernelDomains, SMTT(60) DEF KernelTables
<1>12. \A k \in DOMAIN LoraKernels : \A s \in KernelTables : k \in DOMAIN s => s = LoraKernels
  BY KernelDomains, SMTT(60) DEF KernelTables
<1> QED
  BY <1>1, <1>2, <1>3, <1>4, <1>5, <1>6, <1>7, <1>8, <1>9, <1>10, <1>11, <1>12 DEF KernelTables

\* Commands that read nothing leave nothing.
LEMMA ClearingFlow ==
  LET f == Flow(begin_lora_accumulation)
  IN  LoraGradients \subseteq DOMAIN f /\ \A b \in LoraGradients : f[b] = {}
<1> DEFINE p == begin_lora_accumulation
           c == Dispatch(K["loraClear"])
<1>1. p \in Seq(Command)
  BY StagedPrograms
<1>2. PICK f : FlowsThrough(f, p) /\ Flow(p) = f[Len(p)]
  BY <1>1, FlowStepwise
<1>3. p = <<c>>
  BY DEF begin_lora_accumulation, Do
<1>4. K["loraClear"].reads = {} /\ K["loraClear"].writes = LoraGradients
  <2>1. "loraClear" \in DOMAIN LoraKernels /\ LoraKernels \in KernelTables
    BY KernelDomains DEF KernelTables
  <2>2. K["loraClear"] = LoraKernels["loraClear"]
    BY <2>1, KernelIs
  <2> QED
    BY <2>2 DEF LoraKernels, Kernel
<1>5. c \in Works /\ NamesOf(c.reads) = {} /\ NamesOf(c.writes) = LoraGradients
  <2>1. "loraClear" \in DOMAIN K
    BY KernelNames DEF Computing
  <2> QED
    BY <1>4, <2>1, DispatchIs
<1> HIDE DEF c
<1>6. Flow(p) = FlowStep(<<>>, c)
  <2>1. Len(p) = 1 /\ p[1] = c
    BY <1>3
  <2>2. f[1] = FlowStep(f[1 - 1], p[1]) /\ f[0] = <<>>
    BY <1>2, <2>1 DEF FlowsThrough
  <2> QED
    BY <1>2, <2>1, <2>2
<1>7. LoraGradients \cap Given = {}
  BY DEF LoraGradients, Given
<1>8. \A b \in LoraGradients : b \in DOMAIN FlowStep(<<>>, c) /\ FlowStep(<<>>, c)[b] = {}
  <2> DEFINE from == UNION {Held(<<>>, r) : r \in NamesOf(c.reads)}
             w == NamesOf(c.writes) \ Given
  <2>1. DOMAIN FlowStep(<<>>, c) = w \cup DOMAIN <<>> /\ \A b \in w : FlowStep(<<>>, c)[b] = from
    BY <1>5, NoFlow, WorkStep
  <2>2. from = {} /\ w = LoraGradients
    BY <1>5, <1>7
  <2> QED
    BY <2>1, <2>2
<1> QED
  BY <1>6, <1>8 DEF p

LEMMA LoraTrainingIs ==
  /\ \A o \in {"token_step_training", "token_step_training_backward_accumulate",
               "token_windows_training_backward_accumulate", "finalize_lora_sgd"} :
       Ordinary(LoraTraining[o])
  /\ Moderate(LoraTraining["token_step_training_backward"])
  /\ Counting(LoraTraining["finalize_lora_adamw"])
  /\ Beginning(LoraTraining["begin_lora_accumulation"])
  /\ \A o \in {"finalize_lora_sgd", "finalize_lora_adamw"} :
       LoraTraining[o].needs = {"accumulating"}
<1>1. /\ LoraTraining["token_step_training"].effects = TokenTraining
      /\ LoraTraining["token_step_training_backward"].effects = TokenBackward(FALSE)
      /\ LoraTraining["token_step_training_backward_accumulate"].effects = TokenBackward(TRUE)
      /\ LoraTraining["token_windows_training_backward_accumulate"].effects =
           TokenBackward(TRUE) \o TokenBackward(TRUE)
  BY DEF LoraTraining, MayThrow, Operation
<1>2. /\ LoraTraining["begin_lora_accumulation"].effects =
           <<Submits(begin_lora_accumulation), BeginSum>>
      /\ LoraTraining["finalize_lora_sgd"].effects = <<Submits(finalize_lora_sgd), EndSum>>
      /\ LoraTraining["finalize_lora_adamw"].effects =
           <<CountStep, Submits(finalize_lora_adamw), EndSum>>
      /\ LoraTraining["finalize_lora_sgd"].needs = {"accumulating"}
      /\ LoraTraining["finalize_lora_adamw"].needs = {"accumulating"}
  BY DEF LoraTraining, MayThrow, Operation, BeginAccumulation
<1>3. Ordinary(LoraTraining["token_step_training"])
  BY <1>1, TokenEffects, QuietOperation
<1>4. Ordinary(LoraTraining["token_step_training_backward_accumulate"])
  BY <1>1, TokenEffects, QuietOperation
<1>5. Ordinary(LoraTraining["token_windows_training_backward_accumulate"])
  <2>1. TokenBackward(TRUE) \o TokenBackward(TRUE) \in Seq(Quiet)
    BY TokenEffects, ConcatProperties
  <2> QED
    BY <1>1, <2>1, QuietOperation
<1>6. Moderate(LoraTraining["token_step_training_backward"])
  BY <1>1, TokenEffects, ModerateIs
<1>7. /\ {Submits(begin_lora_accumulation), Submits(finalize_lora_sgd),
          Submits(finalize_lora_adamw), EndSum} \subseteq Modest
      /\ CountStep \in Tame /\ Modest \subseteq Tame
      /\ BeginSum \in Effect /\ Modest \subseteq Effect
  BY StagedPrograms, Submitting, SimpleEffects, EffectSets
<1>8. Ordinary(LoraTraining["finalize_lora_sgd"])
  <2> DEFINE op == LoraTraining["finalize_lora_sgd"]
  <2>1. op.effects = <<Submits(finalize_lora_sgd), EndSum>>
    BY <1>2
  <2> HIDE DEF op
  <2>2. /\ op.effects \in Seq(Modest) /\ Len(op.effects) = 2
        /\ op.effects[2] = EndSum
    BY <1>7, <2>1
  <2>3. \A n \in 1 .. 2 : n = 1 \/ n = 2
    OBVIOUS
  <2>4. ~ MayFail(op, 2)
    BY <2>2, FailsAre DEF MayFail
  <2>5. \A n \in 1 .. 2 : MayFail(op, n) => \A m \in 1 .. n - 1 : op.effects[m] \in Quiet
    BY <2>3, <2>4
  <2>6. Ordinary(op)
    BY <2>2, <2>5, OrdinaryIs
  <2> QED
    BY <2>6 DEF op
<1>9. Counting(LoraTraining["finalize_lora_adamw"])
  <2> DEFINE op == LoraTraining["finalize_lora_adamw"]
  <2>1. op.effects = <<CountStep, Submits(finalize_lora_adamw), EndSum>>
    BY <1>2
  <2> HIDE DEF op
  <2>2. /\ op.effects \in Seq(Tame) /\ Len(op.effects) = 3
        /\ op.effects[1] = CountStep /\ op.effects[3] = EndSum
    BY <1>7, <2>1
  <2>3. \A n \in 1 .. 3 : n = 1 \/ n = 2 \/ n = 3
    OBVIOUS
  <2>4. /\ op.effects \in Seq(Effect)
        /\ \A outcome \in Outcomes(op) : outcome.ok \in BOOLEAN /\ outcome.effect \in Tame
    BY <2>2, TameIs
  <2>5. ASSUME NEW outcome \in Outcomes(op), ~ outcome.ok
        PROVE  /\ DOMAIN outcome.effect.flow \cap Parameters = {}
               /\ outcome.effect.accumulating = "keep"
    <3>1. PICK u : /\ AddUp(u, op.effects)
                   /\ \/ outcome.ok = TRUE /\ outcome.effect = u[Len(op.effects)]
                      \/ \E n \in 1 .. Len(op.effects) :
                           MayFail(op, n) /\ outcome.ok = FALSE /\ outcome.effect = u[n - 1]
      BY <2>4, OutcomeIs
    <3>2. PICK n \in 1 .. 3 : MayFail(op, n) /\ outcome.effect = u[n - 1]
      BY <2>2, <2>5, <3>1
    <3>3. n = 2
      BY <2>2, <2>3, <3>2, FailsAre DEF MayFail
    <3>4. outcome.effect = u[1]
      BY <3>2, <3>3
    <3>5. u[1] = Followed(Nothing, CountStep)
      <4>1. 1 \in 1 .. 3 /\ 1 - 1 = 0
        OBVIOUS
      <4> QED
        BY <2>2, <3>1, <4>1 DEF AddUp
    <3>6. Nothing \in Quiet /\ Nothing \in Effect /\ CountStep \in Effect
      BY SimpleEffects, EffectSets
    <3>7. CountStep.accumulating = "keep" /\ DOMAIN CountStep.flow = {}
      BY NoFlow DEF CountStep, Nothing
    <3> QED
      <4>1. /\ DOMAIN Followed(Nothing, CountStep).flow = DOMAIN Nothing.flow \cup DOMAIN CountStep.flow
            /\ CountStep.accumulating = "keep"
                 => Followed(Nothing, CountStep).accumulating = Nothing.accumulating
        BY <3>6, FollowedIs
      <4>2. DOMAIN Nothing.flow \cap Parameters = {} /\ Nothing.accumulating = "keep"
        BY <3>6 DEF Quiet
      <4> QED
        BY <3>4, <3>5, <3>7, <4>1, <4>2
  <2>6. Counting(op)
    BY <2>4, <2>5 DEF Counting
  <2> QED
    BY <2>6 DEF op
<1>10. Beginning(LoraTraining["begin_lora_accumulation"])
  <2> DEFINE op == LoraTraining["begin_lora_accumulation"]
             clear == Submits(begin_lora_accumulation)
  <2>1. op.effects = <<clear, BeginSum>>
    BY <1>2
  <2>2. clear \in Modest /\ clear \in Effect /\ clear.flow = Flow(begin_lora_accumulation)
    BY <1>7, StagedPrograms, Submitting
  <2>3. LoraGradients \subseteq DOMAIN clear.flow /\ \A b \in LoraGradients : clear.flow[b] = {}
    BY <2>2, ClearingFlow
  <2> HIDE DEF op, clear
  <2>4. /\ op.effects \in Seq(Effect) /\ Len(op.effects) = 2
        /\ op.effects[1] = clear /\ op.effects[2] = BeginSum
    BY <1>7, <2>1, <2>2
  <2>5. Nothing \in Quiet /\ Nothing \in Effect
    BY SimpleEffects, EffectSets
  <2>6. /\ BeginSum.accumulating = "begin" /\ DOMAIN BeginSum.flow = {} /\ BeginSum.reset = FALSE
        /\ BeginSum.step = "keep" /\ Nothing.step = "keep" /\ clear.step = "keep"
    BY NoFlow, FailsAre DEF BeginSum, Nothing, clear
  <2>7. ASSUME NEW outcome \in Outcomes(op)
        PROVE  /\ outcome.ok \in BOOLEAN /\ outcome.effect \in Effect /\ ~ outcome.effect.reset
               /\ outcome.effect.step = "keep"
               /\ outcome.ok => /\ outcome.effect.accumulating = "begin"
                                /\ LoraGradients \subseteq DOMAIN outcome.effect.flow
                                /\ \A b \in LoraGradients : outcome.effect.flow[b] = {}
               /\ ~ outcome.ok => outcome.effect \in Quiet
    <3>1. PICK u : /\ AddUp(u, op.effects)
                   /\ \/ outcome.ok = TRUE /\ outcome.effect = u[Len(op.effects)]
                      \/ \E n \in 1 .. Len(op.effects) :
                           MayFail(op, n) /\ outcome.ok = FALSE /\ outcome.effect = u[n - 1]
      BY <2>4, OutcomeIs
    <3>2. u[0] = Nothing /\ u[1] = Followed(Nothing, clear) /\ u[2] = Followed(u[1], BeginSum)
      <4>1. 1 \in 1 .. 2 /\ 1 - 1 = 0 /\ 2 \in 1 .. 2 /\ 2 - 1 = 1
        OBVIOUS
      <4> QED
        BY <2>4, <3>1, <4>1 DEF AddUp
    <3>3. /\ u[1] \in Effect /\ u[1].flow = Then(Nothing.flow, clear.flow)
          /\ DOMAIN u[1].flow = DOMAIN Nothing.flow \cup DOMAIN clear.flow
          /\ u[1].reset = (Nothing.reset \/ clear.reset)
          /\ u[1].step = "keep"
      <4>1. LET e == Followed(Nothing, clear)
            IN  /\ e \in Effect /\ e.flow = Then(Nothing.flow, clear.flow)
                /\ DOMAIN e.flow = DOMAIN Nothing.flow \cup DOMAIN clear.flow
                /\ e.reset = (Nothing.reset \/ clear.reset)
                /\ clear.step = "keep" => e.step = Nothing.step
        BY <2>2, <2>5, FollowedIs
      <4> QED
        BY <2>6, <3>2, <4>1
    <3>4. /\ u[2] \in Effect /\ u[2].flow = Then(u[1].flow, BeginSum.flow)
          /\ DOMAIN u[2].flow = DOMAIN u[1].flow \cup DOMAIN BeginSum.flow
          /\ u[2].accumulating = "begin" /\ u[2].step = "keep"
          /\ u[2].reset = (u[1].reset \/ BeginSum.reset)
      <4>1. LET f == Followed(u[1], BeginSum)
            IN  /\ f \in Effect /\ f.flow = Then(u[1].flow, BeginSum.flow)
                /\ DOMAIN f.flow = DOMAIN u[1].flow \cup DOMAIN BeginSum.flow
                /\ BeginSum.accumulating # "keep" => f.accumulating = BeginSum.accumulating
                /\ f.reset = (u[1].reset \/ BeginSum.reset)
                /\ BeginSum.step = "keep" => f.step = u[1].step
        BY <1>7, <3>3, FollowedIs
      <4> QED
        BY <2>6, <3>2, <3>3, <4>1
    <3>5. ~ u[2].reset
      BY <2>2, <2>5, <2>6, <3>3, <3>4 DEF Modest, Tame, Quiet
    <3>6. Nothing.flow \in CleanFlows /\ clear.flow \in CleanFlows /\ u[1].flow \in CleanFlows
          /\ BeginSum.flow \in CleanFlows
      BY <1>7, <2>2, <2>5, <3>3 DEF Effect
    <3>7. \A b \in LoraGradients : u[1].flow[b] = {}
      <4>1. \A b \in LoraGradients : u[1].flow[b] = Through(Nothing.flow, clear.flow[b])
        <5>1. \A b \in DOMAIN clear.flow :
                Then(Nothing.flow, clear.flow)[b] = Through(Nothing.flow, clear.flow[b])
          BY <3>6, ThenIs
        <5> QED
          BY <2>3, <3>3, <5>1
      <4>2. Through(Nothing.flow, {}) = {}
        BY DEF Through
      <4> QED
        BY <2>3, <4>1, <4>2
    <3>8. \A b \in LoraGradients : u[2].flow[b] = {}
      <4>1. \A b \in DOMAIN u[1].flow \ DOMAIN BeginSum.flow :
              Then(u[1].flow, BeginSum.flow)[b] = u[1].flow[b]
        BY <3>6, ThenIs
      <4> QED
        BY <2>3, <2>6, <3>3, <3>4, <3>7, <4>1
    <3>9. CASE outcome.ok
      <4>1. outcome.effect = u[2] /\ outcome.ok = TRUE
        BY <2>4, <3>1, <3>9
      <4> QED
        BY <2>3, <3>3, <3>4, <3>5, <3>8, <4>1
    <3>10. CASE ~ outcome.ok
      <4>1. PICK n \in 1 .. 2 : MayFail(op, n) /\ outcome.effect = u[n - 1] /\ outcome.ok = FALSE
        BY <2>4, <3>1, <3>10
      <4>2. ~ MayFail(op, 2)
        BY <2>4, FailsAre DEF MayFail
      <4>3. n = 1
        <5>1. n = 1 \/ n = 2
          OBVIOUS
        <5> QED
          BY <4>1, <4>2, <5>1
      <4>4. outcome.effect = Nothing
        BY <3>2, <4>1, <4>3
      <4> QED
        BY <2>5, <4>1, <4>4 DEF Quiet
    <3> QED
      BY <3>1, <3>9, <3>10
  <2>8. Beginning(op)
    BY <2>7 DEF Beginning
  <2> QED
    BY <2>8 DEF op
<1> QED
  BY <1>2, <1>3, <1>4, <1>5, <1>6, <1>8, <1>9, <1>10

-----------------------------------------------------------------------------
\* Forward passes and staged operations

LEMMA InferringIs ==
  /\ DOMAIN Inferring = {"forward", "token_step", "forward_fixed_retained",
                         "forward_loss_fixed_retained", "forward_loss_fixed_metrics",
                         "readback_graph_dstate", "evaluate_dataset_batch"}
  /\ \A o \in DOMAIN Inferring : Ordinary(Inferring[o])
<1>1. DOMAIN Inferring = {"forward", "token_step", "forward_fixed_retained",
                          "forward_loss_fixed_retained", "forward_loss_fixed_metrics",
                          "readback_graph_dstate", "evaluate_dataset_batch"}
  BY DEF Inferring
<1>2. /\ Inferring["forward"].effects = TokenForward
      /\ Inferring["token_step"].effects = TokenForward
      /\ Inferring["forward_fixed_retained"].effects =
           <<MapMemory, Submits(forward_fixed_retained), MapMemory>>
      /\ Inferring["forward_loss_fixed_retained"].effects =
           <<MapMemory, Submits(forward_loss_fixed_retained), MapMemory>>
      /\ Inferring["forward_loss_fixed_metrics"].effects =
           <<MapMemory, Submits(forward_loss_fixed_metrics), MapMemory>>
      /\ Inferring["readback_graph_dstate"].effects =
           <<MapMemory, Submits(readback_graph_dstate), MapMemory>>
      /\ Inferring["evaluate_dataset_batch"].effects =
           <<Submits(evaluate_dataset_batch), MapMemory>>
  BY DEF Inferring, MayThrow, Operation
<1>3. /\ {Submits(forward_fixed_retained), Submits(forward_loss_fixed_retained),
          Submits(forward_loss_fixed_metrics), Submits(readback_graph_dstate),
          Submits(evaluate_dataset_batch), MapMemory} \subseteq Quiet
  BY ForwardPrograms, GradientPrograms, Submitting, SimpleEffects
<1>4. \A e \in Quiet : <<MapMemory, e, MapMemory>> \in Seq(Quiet) /\ <<e, MapMemory>> \in Seq(Quiet)
  BY <1>3
<1>5. \A o \in DOMAIN Inferring : Inferring[o].effects \in Seq(Quiet)
  BY <1>1, <1>2, <1>3, <1>4, TokenEffects
<1> QED
  BY <1>1, <1>5, QuietOperation

\* Effects of a noexcept operation without an error path.
Writing == {e \in Modest : e.fails # "returns"}

LEMMA WritingEffects ==
  /\ \A p \in Seq(Command) : Submits(p) \in Writing
  /\ \A b \in (Scratch \cup Parameters) \ Given : Uploads(b) \in Writing
  /\ SetStep \in Writing
BY Submitting, Uploading, SimpleEffects, FailsAre DEF Writing

LEMMA WritingOperation ==
  ASSUME NEW effects \in Seq(Writing)
  PROVE  Ordinary(Noexcept(effects))
<1>1. effects \in Seq(Modest)
  BY DEF Writing
<1>2. \A n \in 1 .. Len(effects) : effects[n].fails # "returns"
  BY LenProperties, ElementOfSeq DEF Writing
<1> QED
  BY <1>1, <1>2, NoFailure

LEMMA StagedIs == \A o \in DOMAIN Staged : Ordinary(Staged[o])
<1>1. DOMAIN Staged =
        {"train_ffn_forward_loss", "run_rmsnorm_forward_staged", "run_rmsnorm_state_only_staged",
         "run_rmsnorm_backward_staged", "run_rmsnorm_dgamma_staged",
         "run_rmsnorm_staged_state_chain", "run_rmsnorm_gamma_gradient", "run_ffn_forward",
         "run_ffn_backward", "run_ffn_parameter_gradients", "seed_rmsnorm_staged_dy",
         "seed_ffn_output_gradient_staged", "seed_rmsnorm_staged_gamma",
         "seed_rmsnorm_staged_mask", "seed_ffn_input_staged"}
  BY DEF Staged
<1>2. Staged["train_ffn_forward_loss"] = SgdStep(train_ffn_forward_loss)
  BY DEF Staged
<1>3. /\ Staged["run_rmsnorm_forward_staged"] = Noexcept(<<Submits(run_rmsnorm_forward_staged)>>)
      /\ Staged["run_rmsnorm_state_only_staged"] =
           Noexcept(<<Submits(run_rmsnorm_state_only_staged)>>)
      /\ Staged["run_rmsnorm_backward_staged"] = Noexcept(<<Submits(run_rmsnorm_backward_staged)>>)
      /\ Staged["run_rmsnorm_dgamma_staged"] = Noexcept(<<Submits(run_rmsnorm_dgamma_staged)>>)
      /\ Staged["run_rmsnorm_gamma_gradient"] = Noexcept(<<Submits(run_rmsnorm_gamma_gradient)>>)
      /\ Staged["run_ffn_forward"] = Noexcept(<<Submits(run_ffn_forward)>>)
      /\ Staged["run_ffn_backward"] = Noexcept(<<Submits(run_ffn_backward)>>)
      /\ Staged["run_ffn_parameter_gradients"] = Noexcept(<<Submits(run_ffn_parameter_gradients)>>)
  BY DEF Staged
<1>4. /\ Staged["run_rmsnorm_staged_state_chain"] =
           Noexcept(<<Submits(run_rmsnorm_forward_staged), Submits(run_rmsnorm_backward_staged),
                      Submits(run_rmsnorm_dgamma_staged)>>)
      /\ Staged["seed_rmsnorm_staged_dy"] = Noexcept(<<Uploads("dprojected")>>)
      /\ Staged["seed_ffn_output_gradient_staged"] = Noexcept(<<Uploads("dprojected")>>)
      /\ Staged["seed_rmsnorm_staged_gamma"] = Noexcept(<<Uploads("gamma")>>)
      /\ Staged["seed_rmsnorm_staged_mask"] = Noexcept(<<Uploads("mask")>>)
      /\ Staged["seed_ffn_input_staged"] = Noexcept(<<Uploads("activations")>>)
  BY DEF Staged
<1>5. Ordinary(Staged["train_ffn_forward_loss"])
  BY <1>2, SgdPrograms, TrainingShapes
<1>6. \A o \in {"run_rmsnorm_forward_staged", "run_rmsnorm_state_only_staged",
                "run_rmsnorm_backward_staged", "run_rmsnorm_dgamma_staged",
                "run_rmsnorm_gamma_gradient", "run_ffn_forward", "run_ffn_backward",
                "run_ffn_parameter_gradients"} : Ordinary(Staged[o])
  BY <1>3, StagedPrograms, TrainingShapes
<1>7. Ordinary(Staged["run_rmsnorm_staged_state_chain"])
  <2> DEFINE effects == <<Submits(run_rmsnorm_forward_staged), Submits(run_rmsnorm_backward_staged),
                          Submits(run_rmsnorm_dgamma_staged)>>
  <2>1. effects \in Seq(Writing)
    BY StagedPrograms, WritingEffects
  <2> HIDE DEF effects
  <2>2. Ordinary(Noexcept(effects))
    BY <2>1, WritingOperation
  <2> QED
    BY <1>4, <2>2 DEF effects
<1>8. ASSUME NEW b \in {"dprojected", "gamma", "mask", "activations"}
      PROVE  Ordinary(Noexcept(<<Uploads(b)>>))
  <2>1. b \in (Scratch \cup Parameters) \ Given
    BY BufferNames DEF Given, Parameters, Weights
  <2>2. <<Uploads(b)>> \in Seq(Writing)
    BY <2>1, WritingEffects
  <2> QED
    BY <2>2, WritingOperation
<1> QED
  BY <1>1, <1>4, <1>5, <1>6, <1>7, <1>8

-----------------------------------------------------------------------------
\* Restoring

LEMMA UploadAllIs ==
  ASSUME NEW names \in Seq((Scratch \cup Parameters) \ Given)
  PROVE  /\ UploadAll(names) \in Seq(Writing) /\ Len(UploadAll(names)) = Len(names)
         /\ \A n \in 1 .. Len(names) : DOMAIN UploadAll(names)[n].flow = {names[n]}
<1>1. /\ Len(names) \in Nat /\ DOMAIN names = 1 .. Len(names)
      /\ \A n \in 1 .. Len(names) : names[n] \in (Scratch \cup Parameters) \ Given
  BY LenProperties, ElementOfSeq
<1>2. UploadAll(names) = [n \in 1 .. Len(names) |-> Uploads(names[n])]
  BY <1>1 DEF UploadAll
<1>3. \A n \in 1 .. Len(names) : Uploads(names[n]) \in Writing
  BY <1>1, WritingEffects
<1>4. \A n \in 1 .. Len(names) : DOMAIN Uploads(names[n]).flow = {names[n]}
  BY <1>1, Uploading
<1>5. UploadAll(names) \in Seq(Writing) /\ Len(UploadAll(names)) = Len(names)
  BY <1>1, <1>2, <1>3
<1> QED
  BY <1>2, <1>4, <1>5

\* The effects write the buffers B.
Covers(effects, B) ==
  \A b \in B : \E n \in 1 .. Len(effects) : b \in DOMAIN effects[n].flow

LEMMA CoversMore ==
  ASSUME NEW s \in Seq(Modest), NEW t \in Seq(Modest), NEW A, NEW B, Covers(s, A), Covers(t, B)
  PROVE  s \o t \in Seq(Modest) /\ Covers(s \o t, A \cup B)
<1> DEFINE st == s \o t
<1>1. /\ Len(s) \in Nat /\ Len(t) \in Nat
      /\ st \in Seq(Modest) /\ Len(st) = Len(s) + Len(t)
      /\ \A n \in 1 .. Len(s) : st[n] = s[n]
      /\ \A n \in 1 .. Len(t) : st[Len(s) + n] = t[n]
  <2>1. Len(s) \in Nat /\ Len(t) \in Nat
    BY LenProperties
  <2>2. st \in Seq(Modest) /\ Len(st) = Len(s) + Len(t)
        /\ \A i \in 1 .. Len(s) + Len(t) : st[i] = IF i <= Len(s) THEN s[i] ELSE t[i - Len(s)]
    BY ConcatProperties
  <2> HIDE DEF st
  <2>3. \A n \in 1 .. Len(s) : n \in 1 .. Len(s) + Len(t) /\ n <= Len(s)
    BY <2>1
  <2>4. \A n \in 1 .. Len(t) : /\ Len(s) + n \in 1 .. Len(s) + Len(t) /\ ~ (Len(s) + n <= Len(s))
                               /\ (Len(s) + n) - Len(s) = n
    BY <2>1
  <2> QED
    BY <2>1, <2>2, <2>3, <2>4
<1> HIDE DEF st
<1>2. ASSUME NEW b \in A \cup B
      PROVE  \E n \in 1 .. Len(st) : b \in DOMAIN st[n].flow
  <2>1. CASE b \in A
    <3>1. PICK n \in 1 .. Len(s) : b \in DOMAIN s[n].flow
      BY <2>1 DEF Covers
    <3>2. n \in 1 .. Len(st) /\ st[n] = s[n]
      BY <1>1
    <3> QED
      BY <3>1, <3>2
  <2>2. CASE b \in B
    <3>1. PICK n \in 1 .. Len(t) : b \in DOMAIN t[n].flow
      BY <2>2 DEF Covers
    <3>2. Len(s) + n \in 1 .. Len(st) /\ st[Len(s) + n] = t[n]
      BY <1>1
    <3> QED
      BY <3>1, <3>2
  <2> QED
    BY <2>1, <2>2
<1>3. Covers(st, A \cup B)
  BY <1>2 DEF Covers
<1> QED
  BY <1>1, <1>3 DEF st

LEMMA UploadAllCovers ==
  ASSUME NEW names \in Seq((Scratch \cup Parameters) \ Given), NEW B,
         \A b \in B : \E n \in 1 .. Len(names) : names[n] = b
  PROVE  UploadAll(names) \in Seq(Modest) /\ Covers(UploadAll(names), B)
<1>1. UploadAll(names) \in Seq(Modest)
  <2>1. UploadAll(names) \in Seq(Writing)
    BY UploadAllIs
  <2>2. Writing \subseteq Modest
    BY DEF Writing
  <2> QED
    BY <2>1, <2>2
<1>2. \A b \in B : \E n \in 1 .. Len(names) : b \in DOMAIN UploadAll(names)[n].flow
  BY UploadAllIs
<1>3. Len(UploadAll(names)) = Len(names)
  BY UploadAllIs
<1> QED
  BY <1>1, <1>2, <1>3 DEF Covers

LEMMA RestoredNames ==
  /\ {"embeddings", "positions", "positionM", "positionV", "lmHead", "lmHeadM", "lmHeadV",
      "output", "outputM", "outputV", "query", "key", "value", "qkvM", "qkvV", "gamma", "gammaM",
      "gammaV", "ffnW1", "ffnB1", "ffnW2", "ffnB2", "ffnW1M", "ffnB1M", "ffnW2M", "ffnB2M",
      "ffnW1V", "ffnB1V", "ffnW2V", "ffnB2V"} = Groups
  /\ Groups \subseteq (Scratch \cup Parameters) \ Given
BY DEF Groups, Parameters, Weights, Moments, FfnWeights, LoraAdapters, LoraMoments, Given

\* What the updates of a group are made of.
LEMMA GroupUpdates ==
  /\ UploadAll(<<"positions", "positionM", "positionV">>) \in Seq(Writing)
  /\ UploadAll(<<"lmHead", "lmHeadM", "lmHeadV">>) \in Seq(Writing)
  /\ UploadAll(<<"output", "outputM", "outputV">>) \in Seq(Writing)
  /\ import_base_train_qkv \in Seq(Writing)
  /\ update_gamma \in Seq(Writing) /\ update_ffn \in Seq(Writing)
  /\ update_positions \in Seq(Writing) /\ update_lm_head \in Seq(Writing)
  /\ update_output \in Seq(Writing) /\ update_qkv \in Seq(Modest)
<1> DEFINE Any == (Scratch \cup Parameters) \ Given
<1>1. \A b \in Groups : b \in Any
  BY RestoredNames
<1> HIDE DEF Any
<1>2. /\ <<"positions", "positionM", "positionV">> \in Seq(Any)
      /\ <<"lmHead", "lmHeadM", "lmHeadV">> \in Seq(Any)
      /\ <<"output", "outputM", "outputV">> \in Seq(Any)
      /\ <<"query", "key", "value">> \in Seq(Any)
      /\ <<"gamma", "gammaM", "gammaV">> \in Seq(Any)
      /\ <<"ffnW1", "ffnB1", "ffnW2", "ffnB2", "ffnW1M", "ffnB1M", "ffnW2M",
           "ffnB2M", "ffnW1V", "ffnB1V", "ffnW2V", "ffnB2V">> \in Seq(Any)
  BY <1>1, RestoredNames
<1>3. \A names \in Seq(Any) : UploadAll(names) \in Seq(Writing)
  BY UploadAllIs DEF Any
<1>4. \A s \in Seq(Writing) : s \o <<SetStep>> \in Seq(Writing)
  BY WritingEffects, ConcatProperties
<1>5. import_base_train_qkv \in Seq(Writing)
  BY <1>2, <1>3 DEF import_base_train_qkv
<1>6. update_qkv \in Seq(Modest)
  <2>1. import_base_train_qkv \in Seq(Modest)
    BY <1>5 DEF Writing
  <2>2. <<MapMemory, Submits(update_qkv_adamw_moments), SetStep>> \in Seq(Modest)
    BY UpdatePrograms, Submitting, SimpleEffects, EffectSets
  <2> QED
    BY <2>1, <2>2, ConcatProperties DEF update_qkv
<1> QED
  BY <1>2, <1>3, <1>4, <1>5, <1>6
  DEF update_gamma, update_ffn, update_positions, update_lm_head, update_output

\* The flow of update_qkv_adamw_moments writes the moments.
LEMMA MomentsFlow == {"qkvM", "qkvV"} \subseteq DOMAIN Flow(update_qkv_adamw_moments)
<1> DEFINE p == update_qkv_adamw_moments
           parts == <<<<"qkvM", Floats(3 * H * H)>>, <<"qkvV", Floats(3 * H * H)>>>>
           at(n) == Packed("trainingStaging", parts, 0)[n]
<1>1. p \in Seq(Command)
  BY UpdatePrograms
<1>2. PICK f : FlowsThrough(f, p) /\ Flow(p) = f[Len(p)]
  BY <1>1, FlowStepwise
<1>3. /\ DOMAIN parts = 1 .. 2
      /\ parts[1][1] = "qkvM" /\ parts[2][1] = "qkvV"
  OBVIOUS
<1>4. p = CopyIn("trainingStaging", parts, 0)
  BY DEF update_qkv_adamw_moments
<1> HIDE DEF parts
<1>5. p = [n \in DOMAIN parts |-> Copy(at(n), Whole(parts[n][1]))]
  BY <1>4 DEF CopyIn
<1> HIDE DEF p, at
<1>6. /\ Len(p) = 2 /\ p[1] = Copy(at(1), Whole("qkvM")) /\ p[2] = Copy(at(2), Whole("qkvV"))
  BY <1>3, <1>5
<1>7. /\ p[1].stage = "T" /\ NamesOf(p[1].writes) = {"qkvM"}
      /\ p[2].stage = "T" /\ NamesOf(p[2].writes) = {"qkvV"}
  BY <1>6 DEF Copy, Whole, NamesOf
<1>8. p[1] \in Works /\ p[2] \in Works
  <2>1. 1 \in 1 .. Len(p) /\ 2 \in 1 .. Len(p)
    BY <1>6
  <2>2. p[1] \in Command /\ p[2] \in Command
    BY <1>1, <2>1, ElementOfSeq
  <2> QED
    BY <1>7, <2>2, CommandStages DEF Command
<1>9. f[1] = FlowStep(f[0], p[1]) /\ f[2] = FlowStep(f[1], p[2]) /\ f[0] \in Flows /\ f[1] \in Flows
  <2>1. 1 \in 1 .. 2 /\ 1 - 1 = 0 /\ 2 \in 1 .. 2 /\ 2 - 1 = 1 /\ 0 \in 0 .. 2 /\ 1 \in 0 .. 2
    OBVIOUS
  <2>2. FlowsThrough(f, p)
    BY <1>2
  <2> QED
    BY <1>6, <2>1, <2>2 DEF FlowsThrough
<1>10. "qkvM" \notin Given /\ "qkvV" \notin Given
  BY DEF Given
<1>11. DOMAIN f[1] = (NamesOf(p[1].writes) \ Given) \cup DOMAIN f[0]
       /\ DOMAIN f[2] = (NamesOf(p[2].writes) \ Given) \cup DOMAIN f[1]
  BY <1>8, <1>9, WorkStep
<1>12. Flow(p) = f[2]
  BY <1>2, <1>6
<1>13. {"qkvM", "qkvV"} \subseteq DOMAIN f[2]
  BY <1>7, <1>10, <1>11
<1> QED
  BY <1>12, <1>13 DEF p

LEMMA CertainIs ==
  ASSUME NEW s \in Seq(Modest)
  PROVE  /\ Certain(s) \in Seq(Modest) /\ Len(Certain(s)) = Len(s)
         /\ \A n \in 1 .. Len(s) : /\ Certain(s)[n].flow = s[n].flow
                                   /\ Certain(s)[n].step = s[n].step
<1>1. /\ Len(s) \in Nat /\ DOMAIN s = 1 .. Len(s)
      /\ \A n \in 1 .. Len(s) : s[n] \in Modest
  BY LenProperties, ElementOfSeq
<1>2. Certain(s) = [n \in 1 .. Len(s) |-> [s[n] EXCEPT !.fails = "never"]]
  BY <1>1 DEF Certain
<1>3. ASSUME NEW e \in Modest
      PROVE  /\ [e EXCEPT !.fails = "never"] \in Modest
             /\ [e EXCEPT !.fails = "never"].flow = e.flow
             /\ [e EXCEPT !.fails = "never"].step = e.step
  BY DEF Modest, Tame, Effect
<1>4. Certain(s) \in Seq(Modest) /\ Len(Certain(s)) = Len(s)
  BY <1>1, <1>2, <1>3
<1>5. \A n \in 1 .. Len(s) : /\ Certain(s)[n].flow = s[n].flow
                             /\ Certain(s)[n].step = s[n].step
  BY <1>1, <1>2, <1>3
<1> QED
  BY <1>4, <1>5

\* What an update of a group covers, its last effect included.
LEMMA UpdatesCover ==
  /\ Covers(update_positions, {"positions"})
  /\ Covers(import_base_train_qkv, {"query", "key", "value"})
  /\ Covers(update_lm_head, {"lmHeadM", "lmHeadV"})
  /\ Covers(update_output, {"outputM", "outputV"})
  /\ Covers(update_gamma, {"gamma", "gammaM", "gammaV"})
  /\ Covers(update_ffn, {"ffnW1", "ffnB1", "ffnW2", "ffnB2", "ffnW1M", "ffnB1M", "ffnW2M",
                         "ffnB2M", "ffnW1V", "ffnB1V", "ffnW2V", "ffnB2V"})
  /\ Covers(update_qkv, {"qkvM", "qkvV"})
<1> DEFINE Any == (Scratch \cup Parameters) \ Given
<1>1. \A b \in Groups : b \in Any
  BY RestoredNames
<1> HIDE DEF Any
<1>2. ASSUME NEW names \in Seq(Any)
      PROVE  /\ UploadAll(names) \in Seq(Modest)
             /\ Covers(UploadAll(names), {names[n] : n \in 1 .. Len(names)})
  <2>1. \A b \in {names[n] : n \in 1 .. Len(names)} : \E n \in 1 .. Len(names) : names[n] = b
    OBVIOUS
  <2> QED
    BY <2>1, UploadAllCovers DEF Any
<1>3. <<SetStep>> \in Seq(Modest) /\ Covers(<<SetStep>>, {})
  BY SimpleEffects DEF Covers
<1>4. ASSUME NEW names \in Seq(Any), NEW B, B \subseteq {names[n] : n \in 1 .. Len(names)}
      PROVE  Covers(UploadAll(names), B) /\ Covers(UploadAll(names) \o <<SetStep>>, B)
  <2> DEFINE R == {names[n] : n \in 1 .. Len(names)}
  <2>1. UploadAll(names) \in Seq(Modest) /\ Covers(UploadAll(names), R)
    BY <1>2
  <2>2. Covers(UploadAll(names) \o <<SetStep>>, R \cup {})
    BY <1>3, <2>1, CoversMore
  <2> HIDE DEF R
  <2>3. B \subseteq R
    BY <1>4 DEF R
  <2> QED
    BY <2>1, <2>2, <2>3 DEF Covers
<1>5. Covers(update_positions, {"positions"})
  <2> DEFINE names == <<"positions", "positionM", "positionV">>
  <2>1. names \in Seq(Any)
    BY <1>1, RestoredNames
  <2>2. {"positions"} \subseteq {names[n] : n \in 1 .. Len(names)}
    <3>1. 1 \in 1 .. Len(names) /\ names[1] = "positions"
      OBVIOUS
    <3> QED
      BY <3>1
  <2>3. update_positions = UploadAll(names) \o <<SetStep>>
    BY DEF update_positions
  <2> HIDE DEF names
  <2> QED
    BY <1>4, <2>1, <2>2, <2>3
<1>6. Covers(import_base_train_qkv, {"query", "key", "value"})
      /\ import_base_train_qkv \in Seq(Modest)
  <2> DEFINE names == <<"query", "key", "value">>
  <2>1. names \in Seq(Any)
    BY <1>1, RestoredNames
  <2>2. {"query", "key", "value"} \subseteq {names[n] : n \in 1 .. Len(names)}
    <3>1. /\ {1, 2, 3} \subseteq 1 .. Len(names)
          /\ names[1] = "query" /\ names[2] = "key" /\ names[3] = "value"
      OBVIOUS
    <3> QED
      BY <3>1
  <2>3. import_base_train_qkv = UploadAll(names)
    BY DEF import_base_train_qkv
  <2> HIDE DEF names
  <2> QED
    BY <1>2, <1>4, <2>1, <2>2, <2>3
<1>7. Covers(update_lm_head, {"lmHeadM", "lmHeadV"})
  <2> DEFINE names == <<"lmHead", "lmHeadM", "lmHeadV">>
  <2>1. names \in Seq(Any)
    BY <1>1, RestoredNames
  <2>2. {"lmHeadM", "lmHeadV"} \subseteq {names[n] : n \in 1 .. Len(names)}
    <3>1. {2, 3} \subseteq 1 .. Len(names) /\ names[2] = "lmHeadM" /\ names[3] = "lmHeadV"
      OBVIOUS
    <3> QED
      BY <3>1
  <2>3. update_lm_head = UploadAll(names) \o <<SetStep>>
    BY DEF update_lm_head
  <2> HIDE DEF names
  <2> QED
    BY <1>4, <2>1, <2>2, <2>3
<1>8. Covers(update_output, {"outputM", "outputV"})
  <2> DEFINE names == <<"output", "outputM", "outputV">>
  <2>1. names \in Seq(Any)
    BY <1>1, RestoredNames
  <2>2. {"outputM", "outputV"} \subseteq {names[n] : n \in 1 .. Len(names)}
    <3>1. {2, 3} \subseteq 1 .. Len(names) /\ names[2] = "outputM" /\ names[3] = "outputV"
      OBVIOUS
    <3> QED
      BY <3>1
  <2>3. update_output = UploadAll(names) \o <<SetStep>>
    BY DEF update_output
  <2> HIDE DEF names
  <2> QED
    BY <1>4, <2>1, <2>2, <2>3
<1>9. Covers(update_gamma, {"gamma", "gammaM", "gammaV"})
  <2> DEFINE names == <<"gamma", "gammaM", "gammaV">>
  <2>1. names \in Seq(Any)
    BY <1>1, RestoredNames
  <2>2. {"gamma", "gammaM", "gammaV"} \subseteq {names[n] : n \in 1 .. Len(names)}
    <3>1. /\ {1, 2, 3} \subseteq 1 .. Len(names)
          /\ names[1] = "gamma" /\ names[2] = "gammaM" /\ names[3] = "gammaV"
      OBVIOUS
    <3> QED
      BY <3>1
  <2>3. update_gamma = UploadAll(names) \o <<SetStep>>
    BY DEF update_gamma
  <2> HIDE DEF names
  <2> QED
    BY <1>4, <2>1, <2>2, <2>3
<1>10. Covers(update_ffn, {"ffnW1", "ffnB1", "ffnW2", "ffnB2", "ffnW1M", "ffnB1M", "ffnW2M",
                           "ffnB2M", "ffnW1V", "ffnB1V", "ffnW2V", "ffnB2V"})
  <2> DEFINE names == <<"ffnW1", "ffnB1", "ffnW2", "ffnB2", "ffnW1M", "ffnB1M", "ffnW2M",
                        "ffnB2M", "ffnW1V", "ffnB1V", "ffnW2V", "ffnB2V">>
             B == {"ffnW1", "ffnB1", "ffnW2", "ffnB2", "ffnW1M", "ffnB1M", "ffnW2M",
                   "ffnB2M", "ffnW1V", "ffnB1V", "ffnW2V", "ffnB2V"}
  <2>1. names \in Seq(Any)
    BY <1>1, RestoredNames
  <2>2. B \subseteq {names[n] : n \in 1 .. Len(names)}
    <3>1. /\ {1, 2, 3, 4, 5, 6, 7, 8, 9, 10, 11, 12} \subseteq 1 .. Len(names)
          /\ names[1] = "ffnW1" /\ names[2] = "ffnB1" /\ names[3] = "ffnW2" /\ names[4] = "ffnB2"
          /\ names[5] = "ffnW1M" /\ names[6] = "ffnB1M" /\ names[7] = "ffnW2M"
          /\ names[8] = "ffnB2M" /\ names[9] = "ffnW1V" /\ names[10] = "ffnB1V"
          /\ names[11] = "ffnW2V" /\ names[12] = "ffnB2V"
      OBVIOUS
    <3> HIDE DEF names
    <3>2. \A x \in B : \E n \in {1, 2, 3, 4, 5, 6, 7, 8, 9, 10, 11, 12} : x = names[n]
      BY <3>1
    <3> HIDE DEF B
    <3>3. ASSUME NEW x \in B PROVE x \in {names[n] : n \in 1 .. Len(names)}
      <4>1. PICK n \in {1, 2, 3, 4, 5, 6, 7, 8, 9, 10, 11, 12} : x = names[n]
        BY <3>2
      <4>2. n \in 1 .. Len(names)
        BY <3>1
      <4> QED
        BY <4>1, <4>2
    <3> QED
      BY <3>3
  <2>3. update_ffn = UploadAll(names) \o <<SetStep>>
    BY DEF update_ffn
  <2> HIDE DEF names, B
  <2>4. Covers(update_ffn, B)
    BY <1>4, <2>1, <2>2, <2>3
  <2> QED
    BY <2>4 DEF B
<1>11. Covers(update_qkv, {"qkvM", "qkvV"})
  <2> DEFINE t == <<MapMemory, Submits(update_qkv_adamw_moments), SetStep>>
  <2>1. t \in Seq(Modest) /\ Len(t) = 3 /\ t[2] = Submits(update_qkv_adamw_moments)
    BY UpdatePrograms, Submitting, SimpleEffects, EffectSets
  <2>2. t[2].flow = Flow(update_qkv_adamw_moments)
    BY <2>1, UpdatePrograms, Submitting
  <2>3. update_qkv = import_base_train_qkv \o t
    BY DEF update_qkv
  <2> HIDE DEF t
  <2>4. Covers(t, {"qkvM", "qkvV"})
    <3>1. 2 \in 1 .. Len(t)
      BY <2>1
    <3> QED
      BY <2>2, <3>1, MomentsFlow DEF Covers
  <2>5. Covers(import_base_train_qkv \o t, {"query", "key", "value"} \cup {"qkvM", "qkvV"})
    BY <1>6, <2>1, <2>4, CoversMore
  <2> QED
    BY <2>3, <2>5 DEF Covers
<1> QED
  BY <1>5, <1>6, <1>7, <1>8, <1>9, <1>10, <1>11

\* The restore of a checkpoint writes all groups, those it does not read
\* included, and ends with the step.
LEMMA RestoreIs ==
  /\ update_base_checkpoint \in Seq(Modest) /\ Len(update_base_checkpoint) > 0
  /\ Covers(update_base_checkpoint, Groups \ Unread)
  /\ update_base_checkpoint[Len(update_base_checkpoint)].step = "set"
<1> DEFINE one == <<Uploads("embeddings")>>
           two == <<Uploads("lmHead"), Uploads("output")>>
           gf == update_gamma \o update_ffn
           a2 == one \o update_positions
           a3 == a2 \o two
           a4 == a3 \o import_base_train_qkv
           a5 == a4 \o update_lm_head
           a6 == a5 \o update_qkv
           a7 == a6 \o update_output
           c == Certain(gf)
           Gammas == {"gamma", "gammaM", "gammaV"}
           Ffns == {"ffnW1", "ffnB1", "ffnW2", "ffnB2", "ffnW1M", "ffnB1M", "ffnW2M",
                    "ffnB2M", "ffnW1V", "ffnB1V", "ffnW2V", "ffnB2V"}
           B1s == {"embeddings"}
           B2s == B1s \cup {"positions"}
           B3s == B2s \cup {"lmHead", "output"}
           B4s == B3s \cup {"query", "key", "value"}
           B5s == B4s \cup {"lmHeadM", "lmHeadV"}
           B6s == B5s \cup {"qkvM", "qkvV"}
           B7s == B6s \cup {"outputM", "outputV"}
           B8s == B7s \cup (Gammas \cup Ffns)
<1>1. update_base_checkpoint = a7 \o c
  BY DEF update_base_checkpoint
<1>2. Writing \subseteq Modest
  BY DEF Writing
<1>3. /\ update_positions \in Seq(Modest) /\ import_base_train_qkv \in Seq(Modest)
      /\ update_lm_head \in Seq(Modest) /\ update_qkv \in Seq(Modest)
      /\ update_output \in Seq(Modest) /\ update_gamma \in Seq(Modest)
      /\ update_ffn \in Seq(Modest)
  BY <1>2, GroupUpdates
<1>4. one \in Seq(Modest) /\ Covers(one, B1s) /\ two \in Seq(Modest) /\ Covers(two, {"lmHead", "output"})
  <2>1. {"embeddings", "lmHead", "output"} \subseteq (Scratch \cup Parameters) \ Given
    BY RestoredNames
  <2>2. \A b \in {"embeddings", "lmHead", "output"} :
          Uploads(b) \in Modest /\ DOMAIN Uploads(b).flow = {b}
    BY <2>1, Uploading
  <2>3. /\ one \in Seq(Modest) /\ Len(one) = 1 /\ one[1] = Uploads("embeddings")
        /\ two \in Seq(Modest) /\ Len(two) = 2 /\ two[1] = Uploads("lmHead")
        /\ two[2] = Uploads("output")
    BY <2>2
  <2> HIDE DEF one, two
  <2>4. 1 \in 1 .. 1 /\ 1 \in 1 .. 2 /\ 2 \in 1 .. 2
    OBVIOUS
  <2> QED
    BY <2>2, <2>3, <2>4 DEF Covers
<1> HIDE DEF one, two
<1>5. a2 \in Seq(Modest) /\ Covers(a2, B2s)
  BY <1>3, <1>4, UpdatesCover, CoversMore
<1> HIDE DEF a2, B1s, B2s
<1>6. a3 \in Seq(Modest) /\ Covers(a3, B3s)
  BY <1>4, <1>5, CoversMore
<1> HIDE DEF a3, B3s
<1>7. a4 \in Seq(Modest) /\ Covers(a4, B4s)
  BY <1>3, <1>6, UpdatesCover, CoversMore
<1> HIDE DEF a4, B4s
<1>8. a5 \in Seq(Modest) /\ Covers(a5, B5s)
  BY <1>3, <1>7, UpdatesCover, CoversMore
<1> HIDE DEF a5, B5s
<1>9. a6 \in Seq(Modest) /\ Covers(a6, B6s)
  BY <1>3, <1>8, UpdatesCover, CoversMore
<1> HIDE DEF a6, B6s
<1>10. a7 \in Seq(Modest) /\ Covers(a7, B7s)
  BY <1>3, <1>9, UpdatesCover, CoversMore
<1> HIDE DEF a7, B7s
<1>11. gf \in Seq(Modest) /\ Covers(gf, Gammas \cup Ffns)
  BY <1>3, UpdatesCover, CoversMore
<1>12. Len(gf) \in Nat /\ Len(gf) > 0 /\ gf[Len(gf)].step = "set"
  <2> DEFINE ups == UploadAll(<<"ffnW1", "ffnB1", "ffnW2", "ffnB2", "ffnW1M", "ffnB1M", "ffnW2M",
                            "ffnB2M", "ffnW1V", "ffnB1V", "ffnW2V", "ffnB2V">>)
             final == <<SetStep>>
  <2>1. update_ffn = ups \o final /\ ups \in Seq(Modest) /\ final \in Seq(Modest)
    <3> DEFINE names == <<"ffnW1", "ffnB1", "ffnW2", "ffnB2", "ffnW1M", "ffnB1M", "ffnW2M",
                            "ffnB2M", "ffnW1V", "ffnB1V", "ffnW2V", "ffnB2V">>
               Any == (Scratch \cup Parameters) \ Given
    <3>1. \A b \in Groups : b \in Any
      BY RestoredNames
    <3> HIDE DEF Any
    <3>2. names \in Seq(Any)
      BY <3>1, RestoredNames
    <3> HIDE DEF names
    <3>3. UploadAll(names) \in Seq(Writing)
      BY <3>2, UploadAllIs DEF Any
    <3>4. ups \in Seq(Modest)
      BY <1>2, <3>3 DEF names
    <3> QED
      BY <3>4, SimpleEffects DEF update_ffn
  <2>2. Len(final) = 1 /\ final[1] = SetStep
    OBVIOUS
  <2> HIDE DEF ups, final
  <2> DEFINE L == Len(update_gamma)
             M == Len(ups)
  <2>3. L \in Nat /\ M \in Nat
    BY <1>3, <2>1, LenProperties
  <2>4. /\ update_ffn \in Seq(Modest) /\ Len(update_ffn) = M + 1
        /\ update_ffn[M + 1] = SetStep
    <3>1. /\ Len(ups \o final) = Len(ups) + Len(final)
          /\ \A i \in 1 .. Len(ups) + Len(final) :
               (ups \o final)[i] = IF i <= Len(ups) THEN ups[i] ELSE final[i - Len(ups)]
      BY <2>1, ConcatProperties
    <3>2. M + 1 \in 1 .. M + 1 /\ ~ (M + 1 <= M) /\ (M + 1) - M = 1
      BY <2>3
    <3> QED
      BY <1>3, <2>1, <2>2, <3>1, <3>2
  <2>5. Len(gf) = L + (M + 1) /\ gf[L + (M + 1)] = SetStep
    <3>1. /\ Len(gf) = Len(update_gamma) + Len(update_ffn)
          /\ \A i \in 1 .. Len(update_gamma) + Len(update_ffn) :
               gf[i] = IF i <= Len(update_gamma) THEN update_gamma[i]
                       ELSE update_ffn[i - Len(update_gamma)]
      BY <1>3, ConcatProperties
    <3>2. /\ L + (M + 1) \in 1 .. L + (M + 1) /\ ~ (L + (M + 1) <= L)
          /\ (L + (M + 1)) - L = M + 1
      BY <2>3
    <3> QED
      BY <2>4, <3>1, <3>2
  <2>6. L + (M + 1) \in Nat /\ L + (M + 1) > 0
    BY <2>3
  <2> QED
    BY <2>5, <2>6, FailsAre
<1> HIDE DEF gf
<1>13. /\ c \in Seq(Modest) /\ Len(c) = Len(gf)
       /\ \A n \in 1 .. Len(gf) : c[n].flow = gf[n].flow /\ c[n].step = gf[n].step
  BY <1>11, CertainIs
<1> HIDE DEF c
<1>14. Covers(c, Gammas \cup Ffns)
  BY <1>11, <1>13 DEF Covers
<1> HIDE DEF Gammas, Ffns
<1>15. a7 \o c \in Seq(Modest) /\ Covers(a7 \o c, B8s)
  BY <1>10, <1>13, <1>14, CoversMore
<1>16. B8s = Groups \ Unread
  BY RestoredNames DEF B7s, B6s, B5s, B4s, B3s, B2s, B1s, Gammas, Ffns, Unread
<1>17. Len(a7 \o c) > 0 /\ (a7 \o c)[Len(a7 \o c)].step = "set"
  <2> DEFINE L == Len(a7)
             M == Len(c)
  <2>1. L \in Nat /\ M \in Nat /\ M > 0 /\ c[M].step = "set"
    <3>1. Len(gf) \in 1 .. Len(gf)
      BY <1>12
    <3> QED
      BY <1>10, <1>12, <1>13, <3>1, LenProperties
  <2>2. /\ Len(a7 \o c) = L + M
        /\ \A i \in 1 .. L + M : (a7 \o c)[i] = IF i <= L THEN a7[i] ELSE c[i - L]
    BY <1>10, <1>13, ConcatProperties
  <2> HIDE DEF L, M
  <2>3. L + M \in 1 .. L + M /\ ~ (L + M <= L) /\ (L + M) - L = M /\ L + M > 0
    BY <2>1
  <2> QED
    BY <2>1, <2>2, <2>3
<1> QED
  BY <1>1, <1>15, <1>16, <1>17

-----------------------------------------------------------------------------
\* Reading a checkpoint

\* What a program of one barrier and copies out of parts reads.
LEMMA ReadsOfParts ==
  ASSUME NEW b, b.stage = "barrier", NEW parts, Len(parts) \in Nat, DOMAIN parts = 1 .. Len(parts),
         NEW base
  PROVE  Reads(<<b>> \o StagedParts(parts, base)).read = Names(parts)
<1> DEFINE L == Len(parts)
           at(n) == Packed("trainingStaging", parts, base)[n]
           copies == StagedParts(parts, base)
           p == <<b>> \o copies
<1>1. copies = [n \in 1 .. L |-> Copy(Whole(parts[n][1]), at(n))]
  BY DEF StagedParts, CopyOut
<1> HIDE DEF copies, at
<1>2. \A n \in 1 .. L : copies[n].stage = "T" /\ copies[n].reads = {Whole(parts[n][1])}
  BY <1>1 DEF Copy
<1> DEFINE Any == {copies[n] : n \in 1 .. L} \cup {b}
<1>3. copies \in Seq(Any) /\ Len(copies) = L /\ <<b>> \in Seq(Any)
  BY <1>1
<1> HIDE DEF Any
<1>4. /\ Len(p) = L + 1 /\ DOMAIN p = 1 .. L + 1 /\ p[1] = b
      /\ \A n \in 1 .. L : p[n + 1] = copies[n]
  <2>1. /\ p \in Seq(Any) /\ Len(p) = Len(<<b>>) + L
        /\ \A i \in 1 .. Len(<<b>>) + L : p[i] = IF i <= Len(<<b>>) THEN <<b>>[i] ELSE copies[i - Len(<<b>>)]
    BY <1>3, ConcatProperties
  <2>2. Len(<<b>>) = 1 /\ <<b>>[1] = b
    OBVIOUS
  <2> HIDE DEF p
  <2>3. Len(p) = L + 1 /\ DOMAIN p = 1 .. L + 1
    <3>1. Len(p) = 1 + L /\ DOMAIN p = 1 .. Len(p)
      BY <2>1, <2>2, LenProperties
    <3>2. 1 + L = L + 1
      OBVIOUS
    <3> QED
      BY <3>1, <3>2
  <2>4. /\ 1 \in 1 .. 1 + L /\ 1 <= 1
        /\ \A n \in 1 .. L : n + 1 \in 1 .. 1 + L /\ ~ (n + 1 <= 1) /\ (n + 1) - 1 = n
    OBVIOUS
  <2> QED
    BY <2>1, <2>2, <2>3, <2>4
<1> HIDE DEF p
<1>5. \A i \in 1 .. L + 1 : i = 1 \/ \E n \in 1 .. L : i = n + 1
  <2> SUFFICES ASSUME NEW i \in 1 .. L + 1, i # 1 PROVE \E n \in 1 .. L : i = n + 1
    OBVIOUS
  <2>1. i - 1 \in 1 .. L /\ i = (i - 1) + 1
    OBVIOUS
  <2> QED
    BY <2>1
<1>6. Commands(p) = {n + 1 : n \in 1 .. L}
  BY <1>2, <1>4, <1>5 DEF Commands
<1>7. UNION {p[k].reads : k \in Commands(p)} = {Whole(parts[n][1]) : n \in 1 .. L}
  <2>1. \A n \in 1 .. L : p[n + 1].reads = {Whole(parts[n][1])}
    BY <1>2, <1>4
  <2>2. \A k \in Commands(p) : \E n \in 1 .. L : k = n + 1
    BY <1>6
  <2>3. \A n \in 1 .. L : n + 1 \in Commands(p)
    BY <1>6
  <2> QED
    BY <2>1, <2>2, <2>3
<1>8. Reads(p).read = {q[1] : q \in {Whole(parts[n][1]) : n \in 1 .. L}}
  BY <1>7 DEF Reads, Nothing
<1>9. {q[1] : q \in {Whole(parts[n][1]) : n \in 1 .. L}} = {parts[n][1] : n \in 1 .. L}
  <2>1. \A n \in 1 .. L : Whole(parts[n][1])[1] = parts[n][1]
    BY DEF Whole
  <2> QED
    BY <2>1
<1> QED
  BY <1>8, <1>9 DEF p, copies, Names

LEMMA ReadsOfOne ==
  ASSUME NEW b, b.stage = "barrier", NEW buffer, NEW to
  PROVE  Reads(<<b, Copy(Whole(buffer), to)>>).read = {buffer}
<1> DEFINE p == <<b, Copy(Whole(buffer), to)>>
<1>1. /\ DOMAIN p = {1, 2} /\ p[1] = b /\ p[2] = Copy(Whole(buffer), to)
  OBVIOUS
<1> HIDE DEF p
<1>2. p[2].stage = "T" /\ p[2].reads = {Whole(buffer)}
  BY <1>1 DEF Copy
<1>3. Commands(p) = {2}
  BY <1>1, <1>2 DEF Commands
<1>4. UNION {p[k].reads : k \in Commands(p)} = {Whole(buffer)}
  BY <1>2, <1>3
<1>5. Reads(p).read = {q[1] : q \in {Whole(buffer)}}
  BY <1>4 DEF Reads, Nothing
<1> QED
  BY <1>5 DEF p, Whole

\* What each readback of a checkpoint reads.
LEMMA CheckpointReads ==
  /\ Reads(readback_base_train_embeddings).read = {"embeddings"}
  /\ Reads(readback_positions).read = {"positions"}
  /\ \A b \in {"query", "key", "value"} : Reads(readback_base_train_qkv(b)).read = {b}
  /\ Reads(readback_base_train_lm_head).read = {"lmHead"}
  /\ Reads(readback_base_train_output).read = {"output"}
  /\ Reads(qkv_adamw_moments).read = {"qkvM", "qkvV"}
  /\ Reads(lm_head_adamw_moments(4)).read = {"lmHeadM", "lmHeadV"}
  /\ Reads(output_adamw_moments(4)).read = {"outputM", "outputV"}
  /\ Reads(readback_gamma_state(4)).read = {"gamma", "gammaM", "gammaV"}
  /\ Reads(readback_ffn_state).read =
       {"ffnW1", "ffnB1", "ffnW2", "ffnB2", "ffnW1M", "ffnB1M", "ffnW2M", "ffnB2M",
        "ffnW1V", "ffnB1V", "ffnW2V", "ffnB2V"}
<1>1. \A f, t, m, s, on : Barrier(f, t, m, s, on).stage = "barrier"
  BY DEF Barrier
<1>2. ASSUME NEW buffer, NEW bytes PROVE Reads(ReadOut(buffer, bytes)).read = {buffer}
  <2> DEFINE b == Barrier({"C"}, {"T"}, {"CW"}, {"TR"}, {buffer})
             to == Readback(bytes)
  <2>1. b.stage = "barrier"
    BY <1>1
  <2>2. ReadOut(buffer, bytes) = <<b, Copy(Whole(buffer), to)>>
    BY DEF ReadOut
  <2> HIDE DEF b, to
  <2>3. Reads(<<b, Copy(Whole(buffer), to)>>).read = {buffer}
    BY <2>1, ReadsOfOne
  <2> QED
    BY <2>2, <2>3
<1>3. ASSUME NEW parts, Len(parts) \in Nat, DOMAIN parts = 1 .. Len(parts), NEW base
      PROVE  /\ Reads(StateOut(parts, base)).read = Names(parts)
             /\ Reads(AllOut(parts, base)).read = Names(parts)
  BY <1>1, <1>3, ReadsOfParts DEF StateOut, AllOut
<1>4. ASSUME NEW x, NEW y, NEW m, NEW n, NEW base
      PROVE  Reads(StateOut(<<<<x, m>>, <<y, n>>>>, base)).read = {x, y}
  <2> DEFINE parts == <<<<x, m>>, <<y, n>>>>
  <2>1. Len(parts) = 2 /\ DOMAIN parts = 1 .. 2 /\ parts[1][1] = x /\ parts[2][1] = y
    OBVIOUS
  <2> HIDE DEF parts
  <2>2. \A i \in 1 .. 2 : i = 1 \/ i = 2
    OBVIOUS
  <2>3. Names(parts) = {x, y}
    BY <2>1, <2>2 DEF Names
  <2>4. Reads(StateOut(parts, base)).read = Names(parts)
    BY <1>3, <2>1
  <2> QED
    BY <2>3, <2>4 DEF parts
<1>5. Reads(readback_gamma_state(4)).read = {"gamma", "gammaM", "gammaV"}
  <2> DEFINE parts == <<<<"gamma", Floats(H)>>, <<"gammaM", Floats(H)>>, <<"gammaV", Floats(H)>>>>
             base == adamw_staging_offset(4) + 3 * Floats(FfnSize)
  <2>1. /\ Len(parts) = 3 /\ DOMAIN parts = 1 .. 3 /\ parts[1][1] = "gamma"
        /\ parts[2][1] = "gammaM" /\ parts[3][1] = "gammaV"
    OBVIOUS
  <2>2. readback_gamma_state(4) = AllOut(parts, base)
    BY DEF readback_gamma_state
  <2> HIDE DEF parts, base
  <2>3. \A i \in 1 .. 3 : i = 1 \/ i = 2 \/ i = 3
    OBVIOUS
  <2>4. Names(parts) = {"gamma", "gammaM", "gammaV"}
    BY <2>1, <2>3 DEF Names
  <2>5. Reads(AllOut(parts, base)).read = Names(parts)
    BY <1>3, <2>1
  <2> QED
    BY <2>2, <2>4, <2>5
<1>6. Reads(readback_ffn_state).read =
        {"ffnW1", "ffnB1", "ffnW2", "ffnB2", "ffnW1M", "ffnB1M", "ffnW2M", "ffnB2M",
         "ffnW1V", "ffnB1V", "ffnW2V", "ffnB2V"}
  <2> DEFINE parts == <<<<"ffnW1", W1>>, <<"ffnB1", B1>>, <<"ffnW2", W2>>, <<"ffnB2", B2>>,
                        <<"ffnW1M", W1>>, <<"ffnB1M", B1>>, <<"ffnW2M", W2>>, <<"ffnB2M", B2>>,
                        <<"ffnW1V", W1>>, <<"ffnB1V", B1>>, <<"ffnW2V", W2>>, <<"ffnB2V", B2>>>>
             base == adamw_staging_offset(4)
  <2>1. Len(parts) = 12 /\ DOMAIN parts = 1 .. 12
    OBVIOUS
  <2>2. /\ parts[1][1] = "ffnW1" /\ parts[2][1] = "ffnB1" /\ parts[3][1] = "ffnW2"
        /\ parts[4][1] = "ffnB2" /\ parts[5][1] = "ffnW1M" /\ parts[6][1] = "ffnB1M"
        /\ parts[7][1] = "ffnW2M" /\ parts[8][1] = "ffnB2M" /\ parts[9][1] = "ffnW1V"
        /\ parts[10][1] = "ffnB1V" /\ parts[11][1] = "ffnW2V" /\ parts[12][1] = "ffnB2V"
    OBVIOUS
  <2>3. readback_ffn_state = AllOut(parts, base)
    BY DEF readback_ffn_state
  <2> HIDE DEF parts, base
  <2>4. \A i \in 1 .. 12 : i \in {1, 2, 3, 4, 5, 6, 7, 8, 9, 10, 11, 12}
    OBVIOUS
  <2>5. Names(parts) = {"ffnW1", "ffnB1", "ffnW2", "ffnB2", "ffnW1M", "ffnB1M", "ffnW2M", "ffnB2M",
                        "ffnW1V", "ffnB1V", "ffnW2V", "ffnB2V"}
    BY <2>1, <2>2, <2>4 DEF Names
  <2>6. Reads(AllOut(parts, base)).read = Names(parts)
    BY <1>3, <2>1
  <2> QED
    BY <2>3, <2>5, <2>6
<1>7. Reads(readback_base_train_lm_head).read = {"lmHead"}
  <2> DEFINE b == Barrier({"C"}, {"T"}, {"CR"}, {"TR"}, {"lmHead"})
             to == Readback(Floats(H * Vp))
  <2>1. b.stage = "barrier"
    BY <1>1
  <2>2. readback_base_train_lm_head = <<b, Copy(Whole("lmHead"), to)>>
    BY DEF readback_base_train_lm_head
  <2> HIDE DEF b, to
  <2> QED
    BY <2>1, <2>2, ReadsOfOne
<1>8. /\ Reads(readback_base_train_embeddings).read = {"embeddings"}
      /\ Reads(readback_positions).read = {"positions"}
      /\ \A b \in {"query", "key", "value"} : Reads(readback_base_train_qkv(b)).read = {b}
      /\ Reads(readback_base_train_output).read = {"output"}
  BY <1>2 DEF readback_base_train_embeddings, readback_positions, readback_base_train_qkv,
              readback_base_train_output
<1>9. /\ Reads(qkv_adamw_moments).read = {"qkvM", "qkvV"}
      /\ Reads(lm_head_adamw_moments(4)).read = {"lmHeadM", "lmHeadV"}
      /\ Reads(output_adamw_moments(4)).read = {"outputM", "outputV"}
  BY <1>4 DEF qkv_adamw_moments, lm_head_adamw_moments, output_adamw_moments
<1> QED
  BY <1>5, <1>6, <1>7, <1>8, <1>9

\* Effects that only read.
Reading ==
  {e \in Effect : /\ DOMAIN e.flow = {} /\ e.step = "keep" /\ e.accumulating = "keep"
                  /\ e.read \subseteq Groups \cup {"adamwStep"}}

LEMMA ReadsIs ==
  ASSUME NEW p, Reads(p).read \subseteq Groups
  PROVE  Reads(p) \in Reading
<1>1. Groups \subseteq Buffers
  BY DEF Groups, Buffers
<1>2. <<>> \in CleanFlows /\ DOMAIN <<>> = {}
  BY NoFlowIs, NoFlow
<1> DEFINE r == Reads(p).read
<1>3. Reads(p) = [Nothing EXCEPT !.read = r, !.fails = "returns"]
  BY DEF Reads, Nothing
<1> HIDE DEF r
<1>4. r \subseteq Groups
  BY DEF r
<1> QED
  BY <1>1, <1>2, <1>3, <1>4 DEF Nothing, Reading, Effect

\* A readback writes nothing; one that succeeds has read all groups but the
\* moments of the positions.
Saving(op) ==
  \A outcome \in Outcomes(op) :
    /\ outcome.ok \in BOOLEAN /\ outcome.effect \in Reading
    /\ outcome.ok => Groups \ Unread \subseteq outcome.effect.read

LEMMA SavingIs == Saving(Noexcept(readback_base_checkpoint))
<1> DEFINE op == Noexcept(readback_base_checkpoint)
           e == readback_base_checkpoint
<1>1. op.effects = e
  BY DEF Noexcept, Operation
<1> HIDE DEF op
<1>2. NewCheckpoint \in Reading /\ ReadsStep \in Reading /\ Nothing \in Reading
  <2>1. <<>> \in CleanFlows /\ DOMAIN <<>> = {}
    BY NoFlowIs, NoFlow
  <2> QED
    BY <2>1 DEF NewCheckpoint, ReadsStep, Nothing, Reading, Effect
<1> DEFINE r2 == Reads(readback_base_train_embeddings)
           r3 == Reads(readback_positions)
           r4 == Reads(readback_base_train_qkv("query"))
           r5 == Reads(readback_base_train_qkv("key"))
           r6 == Reads(readback_base_train_qkv("value"))
           r7 == Reads(qkv_adamw_moments)
           r9 == Reads(readback_base_train_lm_head)
           r10 == Reads(lm_head_adamw_moments(4))
           r11 == Reads(readback_base_train_output)
           r12 == Reads(output_adamw_moments(4))
           r13 == Reads(readback_gamma_state(4))
           r14 == Reads(readback_ffn_state)
<1>3. /\ r2.read = {"embeddings"} /\ r3.read = {"positions"} /\ r4.read = {"query"}
      /\ r5.read = {"key"} /\ r6.read = {"value"} /\ r7.read = {"qkvM", "qkvV"}
      /\ r9.read = {"lmHead"} /\ r10.read = {"lmHeadM", "lmHeadV"} /\ r11.read = {"output"}
      /\ r12.read = {"outputM", "outputV"} /\ r13.read = {"gamma", "gammaM", "gammaV"}
      /\ r14.read = {"ffnW1", "ffnB1", "ffnW2", "ffnB2", "ffnW1M", "ffnB1M", "ffnW2M", "ffnB2M",
                     "ffnW1V", "ffnB1V", "ffnW2V", "ffnB2V"}
  BY CheckpointReads
<1>4. \A p : Reads(p).read \subseteq Groups => Reads(p) \in Reading
  BY ReadsIs
<1>5. {r2, r3, r4, r5, r6, r7, r9, r10, r11, r12, r13, r14} \subseteq Reading
  <2>1. \A r \in {r2, r3, r4, r5, r6, r7, r9, r10, r11, r12, r13, r14} : r.read \subseteq Groups
    <3> HIDE DEF r2, r3, r4, r5, r6, r7, r9, r10, r11, r12, r13, r14
    <3> QED
      BY <1>3, RestoredNames
  <2> QED
    BY <1>4, <2>1
<1>6. e = <<NewCheckpoint, r2, r3, r4, r5, r6, r7, ReadsStep, r9, r10, r11, r12, r13, r14>>
  BY DEF readback_base_checkpoint
<1> HIDE DEF e, r2, r3, r4, r5, r6, r7, r9, r10, r11, r12, r13, r14
<1>7. e \in Seq(Reading) /\ Len(e) = 14
  BY <1>2, <1>5, <1>6
<1>8. /\ e[2] = r2 /\ e[3] = r3 /\ e[4] = r4 /\ e[5] = r5 /\ e[6] = r6 /\ e[7] = r7
      /\ e[9] = r9 /\ e[10] = r10 /\ e[11] = r11 /\ e[12] = r12 /\ e[13] = r13 /\ e[14] = r14
  BY <1>6
<1>9. op.effects \in Seq(Effect) /\ Len(op.effects) = 14 /\ \A n \in 1 .. 14 : e[n] \in Reading
  <2>1. Reading \subseteq Effect
    BY DEF Reading
  <2> QED
    <3>1. e \in Seq(Effect)
      BY <1>7, <2>1
    <3>2. \A n \in 1 .. 14 : e[n] \in Reading
      BY <1>7, ElementOfSeq
    <3> QED
      BY <1>1, <1>7, <3>1, <3>2
<1>10. ASSUME NEW a \in Reading \cap Effect, NEW b \in Reading \cap Effect
       PROVE  Followed(a, b) \in Reading
  <2> DEFINE f == Followed(a, b)
  <2>1. /\ f \in Effect
        /\ DOMAIN f.flow = DOMAIN a.flow \cup DOMAIN b.flow
        /\ b.step = "keep" => f.step = a.step
        /\ b.accumulating = "keep" => f.accumulating = a.accumulating
        /\ f.read = a.read \cup b.read
    BY FollowedIs
  <2> HIDE DEF f
  <2>2. f \in Reading
    BY <2>1 DEF Reading
  <2> QED
    BY <2>2 DEF f
<1>11. ASSUME NEW outcome \in Outcomes(op)
       PROVE  outcome.ok \in BOOLEAN /\ outcome.effect \in Reading \cap Effect
  BY <1>1, <1>2, <1>9, <1>10, OutcomeKeeps
<1>12. ASSUME NEW outcome \in Outcomes(op), outcome.ok
       PROVE  Groups \ Unread \subseteq outcome.effect.read
  <2>1. \A n \in 1 .. 14 : e[n].read \subseteq outcome.effect.read
    <3>1. Len(op.effects) > 0
      BY <1>9
    <3>2. \A n \in 1 .. Len(op.effects) : op.effects[n].read \subseteq outcome.effect.read
      BY <1>9, <1>12, <3>1, SuccessIsWhole
    <3> QED
      BY <1>1, <1>9, <3>2
  <2>2. {2, 3, 4, 5, 6, 7, 9, 10, 11, 12, 13, 14} \subseteq 1 .. 14
    OBVIOUS
  <2>3. /\ r2.read \cup r3.read \cup r4.read \cup r5.read \cup r6.read \cup r7.read
             \subseteq outcome.effect.read
        /\ r9.read \cup r10.read \cup r11.read \cup r12.read \cup r13.read \cup r14.read
             \subseteq outcome.effect.read
    BY <1>8, <2>1, <2>2
  <2> QED
    BY <1>3, <2>3, RestoredNames DEF Unread
<1> QED
  BY <1>11, <1>12 DEF Saving, op

LEMMA RestoringNames ==
  DOMAIN Restoring =
    {"import_base_train_embeddings", "import_base_train_positions", "import_base_train_lm_head",
     "import_base_train_output", "import_base_train_qkv",
     "update_base_train_positions_adamw_state", "update_base_train_lm_head_adamw_state",
     "update_base_train_output_adamw_state", "update_base_train_qkv_adamw_state",
     "update_trainable_gamma", "update_gamma_state", "update_ffn_state", "update_lora_adapters",
     "update_lora_adamw_state", "readback_base_checkpoint", "update_base_checkpoint"}
BY DEF Restoring

\* Operations that may leave a group, or several, half restored.
Partial == {"import_base_train_qkv", "update_base_train_positions_adamw_state",
            "update_base_train_lm_head_adamw_state", "update_base_train_output_adamw_state",
            "update_base_train_qkv_adamw_state"}

LEMMA RestoringIs ==
  /\ \A o \in {"import_base_train_embeddings", "import_base_train_positions",
               "import_base_train_lm_head", "import_base_train_output", "update_trainable_gamma",
               "update_gamma_state", "update_ffn_state", "update_lora_adapters",
               "update_lora_adamw_state"} : Ordinary(Restoring[o])
  /\ \A o \in Partial : Moderate(Restoring[o])
  /\ Saving(Restoring["readback_base_checkpoint"])
  /\ Moderate(Restoring["update_base_checkpoint"])
  /\ Restoring["update_base_checkpoint"].needs = {"checkpoint"}
  /\ \A outcome \in Outcomes(Restoring["update_base_checkpoint"]) :
       outcome.ok => outcome.effect.step = "set" /\ Groups \ Unread \subseteq DOMAIN outcome.effect.flow
<1>1. /\ Restoring["import_base_train_embeddings"].effects = <<Uploads("embeddings")>>
      /\ Restoring["import_base_train_positions"].effects = <<Uploads("positions")>>
      /\ Restoring["import_base_train_lm_head"].effects = <<Uploads("lmHead")>>
      /\ Restoring["import_base_train_output"].effects = <<Uploads("output")>>
  BY DEF Restoring, MayThrow, Operation
<1>2. /\ Restoring["import_base_train_qkv"].effects = import_base_train_qkv
      /\ Restoring["update_base_train_positions_adamw_state"].effects = update_positions
      /\ Restoring["update_base_train_lm_head_adamw_state"].effects = update_lm_head
      /\ Restoring["update_base_train_output_adamw_state"].effects = update_output
      /\ Restoring["update_base_train_qkv_adamw_state"].effects = update_qkv
      /\ Restoring["update_base_checkpoint"].effects = update_base_checkpoint
  BY DEF Restoring, MayThrow, Operation
<1>3. /\ Restoring["update_trainable_gamma"] = Noexcept(<<Uploads("gamma")>>)
      /\ Restoring["update_gamma_state"] = Noexcept(update_gamma)
      /\ Restoring["update_ffn_state"] = Noexcept(update_ffn)
      /\ Restoring["readback_base_checkpoint"] = Noexcept(readback_base_checkpoint)
      /\ Restoring["update_lora_adapters"] = MayThrow(<<MapMemory, Submits(update_lora_adapters(4))>>)
      /\ Restoring["update_lora_adamw_state"].effects =
           <<MapMemory, Submits(update_lora_adamw_state(4)), SetStep>>
  BY DEF Restoring, MayThrow, Operation
<1>4. Writing \subseteq Modest
  BY DEF Writing
<1>5. ASSUME NEW b \in {"embeddings", "positions", "lmHead", "output", "gamma"}
      PROVE  <<Uploads(b)>> \in Seq(Writing)
  <2>1. b \in (Scratch \cup Parameters) \ Given
    BY RestoredNames
  <2> QED
    BY <2>1, WritingEffects
<1>6. ASSUME NEW op, NEW b \in {"embeddings", "positions", "lmHead", "output"},
             op.effects = <<Uploads(b)>>
      PROVE  Ordinary(op)
  <2>1. op.effects \in Seq(Modest)
    BY <1>4, <1>5, <1>6
  <2>2. Len(op.effects) = 1
    BY <1>6
  <2>3. \A n \in 1 .. 1 : \A m \in 1 .. n - 1 : op.effects[m] \in Quiet
    OBVIOUS
  <2> QED
    BY <2>1, <2>2, <2>3, OrdinaryIs
<1>7. /\ Ordinary(Restoring["import_base_train_embeddings"])
      /\ Ordinary(Restoring["import_base_train_positions"])
      /\ Ordinary(Restoring["import_base_train_lm_head"])
      /\ Ordinary(Restoring["import_base_train_output"])
  BY <1>1, <1>6
<1>8. /\ Ordinary(Restoring["update_trainable_gamma"]) /\ Ordinary(Restoring["update_gamma_state"])
      /\ Ordinary(Restoring["update_ffn_state"])
  <2>1. <<Uploads("gamma")>> \in Seq(Writing)
    BY <1>5
  <2> QED
    BY <1>3, <2>1, GroupUpdates, WritingOperation
<1>9. Ordinary(Restoring["update_lora_adapters"])
  BY <1>3, UpdatePrograms, TrainingShapes
<1>10. Ordinary(Restoring["update_lora_adamw_state"])
  <2> DEFINE op == Restoring["update_lora_adamw_state"]
             e == Submits(update_lora_adamw_state(4))
  <2>1. op.effects = <<MapMemory, e, SetStep>>
    BY <1>3
  <2>2. MapMemory \in Quiet /\ MapMemory \in Modest /\ e \in Modest /\ SetStep \in Modest
    BY UpdatePrograms, Submitting, SimpleEffects, EffectSets
  <2> HIDE DEF op, e
  <2>3. op.effects \in Seq(Modest) /\ Len(op.effects) = 3
        /\ op.effects[1] = MapMemory /\ op.effects[3] = SetStep
    BY <2>1, <2>2
  <2>4. \A n \in 1 .. 3 : n = 1 \/ n = 2 \/ n = 3
    OBVIOUS
  <2>5. ~ MayFail(op, 3)
    BY <2>3, FailsAre DEF MayFail
  <2>6. \A n \in 1 .. 3 : MayFail(op, n) => \A m \in 1 .. n - 1 : m = 1
    BY <2>4, <2>5
  <2>7. \A n \in 1 .. 3 : MayFail(op, n) => \A m \in 1 .. n - 1 : op.effects[m] \in Quiet
    BY <2>2, <2>3, <2>6
  <2>8. Ordinary(op)
    BY <2>3, <2>7, OrdinaryIs
  <2> QED
    BY <2>8 DEF op
<1>11. \A o \in Partial : Moderate(Restoring[o])
  <2>1. \A o \in Partial : Restoring[o].effects \in Seq(Modest)
    <3>1. \A s \in Seq(Writing) : s \in Seq(Modest)
      BY <1>4
    <3> QED
      BY <1>2, <3>1, GroupUpdates DEF Partial
  <2> QED
    BY <2>1, ModerateIs
<1>12. Saving(Restoring["readback_base_checkpoint"])
  BY <1>3, SavingIs
<1>13. /\ Moderate(Restoring["update_base_checkpoint"])
       /\ \A outcome \in Outcomes(Restoring["update_base_checkpoint"]) :
            outcome.ok => /\ outcome.effect.step = "set"
                          /\ Groups \ Unread \subseteq DOMAIN outcome.effect.flow
  <2> DEFINE op == Restoring["update_base_checkpoint"]
             N == Len(op.effects)
  <2>1. op.effects \in Seq(Modest)
    BY <1>2, RestoreIs
  <2>2. N > 0 /\ op.effects[N].step = "set" /\ Covers(op.effects, Groups \ Unread)
    BY <1>2, RestoreIs
  <2>3. Moderate(op) /\ op.effects \in Seq(Effect)
    BY <2>1, ModerateIs
  <2> HIDE DEF op
  <2>4. ASSUME NEW outcome \in Outcomes(op), outcome.ok
        PROVE  outcome.effect.step = "set" /\ Groups \ Unread \subseteq DOMAIN outcome.effect.flow
    <3>1. /\ \A n \in 1 .. N : DOMAIN op.effects[n].flow \subseteq DOMAIN outcome.effect.flow
          /\ op.effects[N].step # "keep" => outcome.effect.step = op.effects[N].step
      BY <2>2, <2>3, <2>4, SuccessIsWhole
    <3>2. \A b \in Groups \ Unread : \E n \in 1 .. N : b \in DOMAIN op.effects[n].flow
      BY <2>2 DEF Covers
    <3> QED
      BY <2>2, <3>1, <3>2
  <2> QED
    BY <2>3, <2>4 DEF op
<1>14. Restoring["update_base_checkpoint"].needs = {"checkpoint"}
  BY DEF Restoring, Operation
<1> QED
  BY <1>7, <1>8, <1>9, <1>10, <1>11, <1>12, <1>13, <1>14

-----------------------------------------------------------------------------
\* Programs that read what they have written

\* Buffers whose values are at hand before a program starts.
Ready == Given \cup Parameters

\* What a command reads and writes; a barrier neither.
Ins(c)  == IF c.stage = "barrier" THEN {} ELSE NamesOf(c.reads)
Outs(c) == IF c.stage = "barrier" THEN {} ELSE NamesOf(c.writes)

Before(p, n) == UNION {Outs(p[m]) : m \in 1 .. n}

\* The program p reads A, what is ready and what it has written; after it
\* there is B.
SelfFed(p, A, B) ==
  /\ p \in Seq(Command)
  /\ \A n \in 1 .. Len(p) : Ins(p[n]) \subseteq A \cup Ready \cup Before(p, n - 1)
  /\ B \subseteq A \cup Ready \cup Before(p, Len(p))

LEMMA InsAndOuts ==
  /\ \A c \in Barriers : Ins(c) = {} /\ Outs(c) = {}
  /\ \A c \in Works : Ins(c) = NamesOf(c.reads) /\ Outs(c) = NamesOf(c.writes)
BY CommandStages DEF Ins, Outs

LEMMA BeforeGrows ==
  /\ \A p, n : \A m \in 1 .. n : Outs(p[m]) \subseteq Before(p, n)
  /\ \A p : \A n \in Nat : \A m \in 0 .. n : Before(p, m) \subseteq Before(p, n)
<1>1. \A p, n : \A m \in 1 .. n : Outs(p[m]) \subseteq Before(p, n)
  BY DEF Before
<1>2. ASSUME NEW p, NEW n \in Nat, NEW m \in 0 .. n PROVE Before(p, m) \subseteq Before(p, n)
  <2>1. \A i \in 1 .. m : i \in 1 .. n
    OBVIOUS
  <2> QED
    BY <2>1 DEF Before
<1> QED
  BY <1>1, <1>2

LEMMA SelfFedThen ==
  ASSUME NEW p, NEW A, NEW B, SelfFed(p, A, B), NEW q, NEW C, NEW D, SelfFed(q, C, D),
         C \subseteq A \cup B
  PROVE  SelfFed(p \o q, A, B \cup D)
<1> DEFINE r == p \o q
           M == Len(p)
           N == Len(q)
<1>1. p \in Seq(Command) /\ q \in Seq(Command)
  BY DEF SelfFed
<1>2. /\ r \in Seq(Command) /\ M \in Nat /\ N \in Nat /\ Len(r) = M + N
      /\ \A n \in 1 .. M : r[n] = p[n]
      /\ \A n \in 1 .. N : r[M + n] = q[n]
  <2>1. /\ r \in Seq(Command) /\ M \in Nat /\ N \in Nat /\ Len(r) = M + N
        /\ \A n \in 1 .. M + N : r[n] = IF n <= M THEN p[n] ELSE q[n - M]
    BY <1>1, ConcatProperties, LenProperties
  <2> HIDE DEF r, M, N
  <2>2. ASSUME NEW n \in 1 .. M PROVE r[n] = p[n]
    BY <2>1
  <2>3. ASSUME NEW n \in 1 .. N PROVE r[M + n] = q[n]
    <3>1. M + n \in 1 .. M + N /\ ~ (M + n <= M) /\ (M + n) - M = n
      BY <2>1
    <3> QED
      BY <2>1, <3>1
  <2> QED
    BY <2>1, <2>2, <2>3
<1> HIDE DEF r
<1>3. ASSUME NEW n \in 0 .. M PROVE Before(r, n) = Before(p, n)
  <2>1. \A m \in 1 .. n : m \in 1 .. M
    BY <1>2
  <2> QED
    BY <1>2, <2>1 DEF Before
<1>4. ASSUME NEW n \in 0 .. N PROVE Before(p, M) \cup Before(q, n) \subseteq Before(r, M + n)
  <2>1. \A m \in 1 .. M : m \in 1 .. M + n /\ r[m] = p[m]
    BY <1>2
  <2>2. \A m \in 1 .. n : M + m \in 1 .. M + n /\ m \in 1 .. N /\ r[M + m] = q[m]
    BY <1>2
  <2> QED
    BY <2>1, <2>2 DEF Before
<1>5. C \subseteq A \cup Ready \cup Before(p, M)
  BY DEF SelfFed
<1>6. ASSUME NEW n \in 1 .. M PROVE Ins(r[n]) \subseteq A \cup Ready \cup Before(r, n - 1)
  <2>1. n - 1 \in 0 .. M
    BY <1>2
  <2> QED
    BY <1>2, <1>3, <2>1 DEF SelfFed
<1>7. ASSUME NEW n \in 1 .. N
      PROVE  Ins(r[M + n]) \subseteq A \cup Ready \cup Before(r, (M + n) - 1)
  <2>1. n - 1 \in 0 .. N /\ M + (n - 1) = (M + n) - 1
    BY <1>2
  <2>2. Ins(q[n]) \subseteq C \cup Ready \cup Before(q, n - 1)
    BY DEF SelfFed
  <2>3. Before(p, M) \cup Before(q, n - 1) \subseteq Before(r, (M + n) - 1)
    BY <1>4, <2>1
  <2> QED
    BY <1>2, <1>5, <2>2, <2>3
<1>8. ASSUME NEW n \in 1 .. Len(r) PROVE Ins(r[n]) \subseteq A \cup Ready \cup Before(r, n - 1)
  <2>1. n \in 1 .. M \/ \E m \in 1 .. N : n = M + m
    <3>1. n > M => n - M \in 1 .. N /\ n = M + (n - M)
      BY <1>2
    <3>2. ~ (n > M) => n \in 1 .. M
      BY <1>2
    <3> QED
      BY <3>1, <3>2
  <2> QED
    BY <1>6, <1>7, <2>1
<1>9. B \cup D \subseteq A \cup Ready \cup Before(r, Len(r))
  <2>1. N \in 0 .. N
    BY <1>2
  <2>2. Before(p, M) \cup Before(q, N) \subseteq Before(r, Len(r))
    BY <1>2, <1>4, <2>1
  <2>3. B \subseteq A \cup Ready \cup Before(p, M) /\ D \subseteq C \cup Ready \cup Before(q, N)
    BY DEF SelfFed
  <2> QED
    BY <1>5, <2>2, <2>3
<1> QED
  BY <1>2, <1>8, <1>9 DEF SelfFed, r

LEMMA OneFed ==
  ASSUME NEW c \in Command
  PROVE  SelfFed(<<c>>, Ins(c), Outs(c))
<1> DEFINE p == <<c>>
<1>1. p \in Seq(Command) /\ Len(p) = 1 /\ p[1] = c
  OBVIOUS
<1> HIDE DEF p
<1>2. \A n \in 1 .. 1 : n = 1
  OBVIOUS
<1>3. Outs(c) \subseteq Before(p, 1)
  <2>1. 1 \in 1 .. 1
    OBVIOUS
  <2> QED
    BY <1>1, <2>1 DEF Before
<1>4. SelfFed(p, Ins(c), Outs(c))
  BY <1>1, <1>2, <1>3 DEF SelfFed
<1> QED
  BY <1>4 DEF p

LEMMA SelfFedWeaker ==
  ASSUME NEW p, NEW A, NEW B, SelfFed(p, A, B), NEW C, A \subseteq C \cup Ready, NEW D,
         D \subseteq C \cup B \cup Ready
  PROVE  SelfFed(p, C, D)
BY DEF SelfFed

\* A flow whose values all come from the arguments.
OnlyNow(f) == \A b \in DOMAIN f : f[b] \subseteq {"now"}

\* A program that reads nothing but what it has written and what is ready
\* computes from the arguments.
LEMMA SelfFedFlow ==
  ASSUME NEW p, NEW B, SelfFed(p, {}, B)
  PROVE  OnlyNow(Flow(p))
<1> DEFINE N == Len(p)
<1>1. p \in Seq(Command) /\ N \in Nat /\ \A n \in 1 .. N : p[n] \in Command
  BY LenProperties, ElementOfSeq DEF SelfFed
<1>2. PICK f : FlowsThrough(f, p) /\ Flow(p) = f[N]
  BY <1>1, FlowStepwise
<1> DEFINE T == {n \in 0 .. N : OnlyNow(f[n]) /\ Before(p, n) \ Given \subseteq DOMAIN f[n]}
<1>3. 0 \in T
  <2>1. 1 .. 0 = {} /\ 0 \in 0 .. N
    BY <1>1
  <2>2. Before(p, 0) = {}
    BY <2>1 DEF Before
  <2>3. f[0] = <<>> /\ DOMAIN <<>> = {}
    BY <1>2, NoFlow DEF FlowsThrough
  <2> QED
    BY <2>1, <2>2, <2>3 DEF OnlyNow
<1>4. ASSUME NEW n \in 0 .. N, n \in T, n < N PROVE n + 1 \in T
  <2> DEFINE c == p[n + 1]
             g == f[n]
             h == f[n + 1]
  <2>1. n + 1 \in 1 .. N /\ n + 1 \in 0 .. N /\ (n + 1) - 1 = n /\ n \in Nat
    BY <1>1, <1>4
  <2>2. h = FlowStep(g, c) /\ g \in Flows
    BY <1>2, <2>1 DEF FlowsThrough
  <2>3. OnlyNow(g) /\ Before(p, n) \ Given \subseteq DOMAIN g
    BY <1>4
  <2>4. c \in Command /\ Ins(c) \subseteq Ready \cup Before(p, n)
    BY <1>1, <2>1 DEF SelfFed
  <2>5. Before(p, n + 1) = Before(p, n) \cup Outs(c)
    <3>1. \A m : m \in 1 .. n + 1 <=> m \in 1 .. n \/ m = n + 1
      BY <2>1
    <3> QED
      BY <3>1 DEF Before
  <2> HIDE DEF c, g, h
  <2>6. OnlyNow(h) /\ Before(p, n + 1) \ Given \subseteq DOMAIN h
    <3>1. CASE c \in Barriers
      <4>1. h = g /\ Outs(c) = {}
        BY <2>2, <3>1, BarrierStep, InsAndOuts
      <4> QED
        BY <2>3, <2>5, <4>1
    <3>2. CASE c \in Works
      <4> DEFINE w == NamesOf(c.writes) \ Given
                 from == UNION {Held(g, b) : b \in NamesOf(c.reads)}
      <4>1. /\ DOMAIN h = w \cup DOMAIN g
            /\ \A b \in w : h[b] = from
            /\ \A b \in DOMAIN g \ w : h[b] = g[b]
        BY <2>2, <3>2, WorkStep
      <4>2. Ins(c) = NamesOf(c.reads) /\ w = Outs(c) \ Given
        BY <3>2, InsAndOuts
      <4>3. ASSUME NEW b \in Ins(c) PROVE Held(g, b) \subseteq {"now"}
        <5>1. b \in Parameters \/ b \in Given \/ b \in DOMAIN g
          BY <2>3, <2>4 DEF Ready
        <5> QED
          BY <2>3, <5>1 DEF Held, OnlyNow
      <4>4. from \subseteq {"now"}
        BY <4>2, <4>3
      <4> HIDE DEF w, from
      <4>5. OnlyNow(h)
        BY <2>3, <4>1, <4>4 DEF OnlyNow
      <4> QED
        BY <2>3, <2>5, <4>1, <4>2, <4>5
    <3> QED
      BY <2>4, <3>1, <3>2 DEF Command
  <2> QED
    BY <2>1, <2>6 DEF h
<1> HIDE DEF T
<1>5. 0 .. N \subseteq T
  BY <1>1, <1>3, <1>4, InductionUpTo
<1>6. N \in 0 .. N
  BY <1>1
<1>7. N \in T
  BY <1>5, <1>6
<1> QED
  BY <1>2, <1>7 DEF T

-----------------------------------------------------------------------------
\* Runs of kernels

\* Kernel k reads A and what is ready, and writes B.
Fed(k, A, B) == /\ k \in DOMAIN K /\ K[k].reads \subseteq A \cup Ready
                /\ B \subseteq K[k].writes

\* What the first n kernels write.
Made(ks, n) == UNION {K[ks[m]].writes : m \in 1 .. n}

KernelsFed(ks, A, B) ==
  /\ ks \in Seq(DOMAIN K) /\ Len(ks) > 0
  /\ \A n \in 1 .. Len(ks) : K[ks[n]].reads \subseteq A \cup Ready \cup Made(ks, n - 1)
  /\ B \subseteq A \cup Ready \cup Made(ks, Len(ks))

LEMMA KernelsFedThen ==
  ASSUME NEW p, NEW A, NEW B, KernelsFed(p, A, B), NEW q, NEW C, NEW D, KernelsFed(q, C, D),
         C \subseteq A \cup B
  PROVE  KernelsFed(p \o q, A, B \cup D)
<1> DEFINE r == p \o q
           M == Len(p)
           N == Len(q)
<1>1. p \in Seq(DOMAIN K) /\ q \in Seq(DOMAIN K) /\ M > 0
  BY DEF KernelsFed
<1>2. /\ r \in Seq(DOMAIN K) /\ M \in Nat /\ N \in Nat /\ Len(r) = M + N
      /\ \A n \in 1 .. M : r[n] = p[n]
      /\ \A n \in 1 .. N : r[M + n] = q[n]
  <2>1. /\ r \in Seq(DOMAIN K) /\ M \in Nat /\ N \in Nat /\ Len(r) = M + N
        /\ \A n \in 1 .. M + N : r[n] = IF n <= M THEN p[n] ELSE q[n - M]
    BY <1>1, ConcatProperties, LenProperties
  <2> HIDE DEF r, M, N
  <2>2. ASSUME NEW n \in 1 .. M PROVE r[n] = p[n]
    BY <2>1
  <2>3. ASSUME NEW n \in 1 .. N PROVE r[M + n] = q[n]
    <3>1. M + n \in 1 .. M + N /\ ~ (M + n <= M) /\ (M + n) - M = n
      BY <2>1
    <3> QED
      BY <2>1, <3>1
  <2> QED
    BY <2>1, <2>2, <2>3
<1> HIDE DEF r
<1>3. ASSUME NEW n \in 0 .. M PROVE Made(r, n) = Made(p, n)
  <2>1. \A m \in 1 .. n : m \in 1 .. M
    BY <1>2
  <2> QED
    BY <1>2, <2>1 DEF Made
<1>4. ASSUME NEW n \in 0 .. N PROVE Made(p, M) \cup Made(q, n) \subseteq Made(r, M + n)
  <2>1. \A m \in 1 .. M : m \in 1 .. M + n /\ r[m] = p[m]
    BY <1>2
  <2>2. \A m \in 1 .. n : M + m \in 1 .. M + n /\ m \in 1 .. N /\ r[M + m] = q[m]
    BY <1>2
  <2>3. Made(p, M) \subseteq Made(r, M + n)
    BY <2>1 DEF Made
  <2>4. Made(q, n) \subseteq Made(r, M + n)
    BY <2>2 DEF Made
  <2> QED
    BY <2>3, <2>4
<1>5. C \subseteq A \cup Ready \cup Made(p, M)
  BY DEF KernelsFed
<1>6. ASSUME NEW n \in 1 .. M PROVE K[r[n]].reads \subseteq A \cup Ready \cup Made(r, n - 1)
  <2>1. n - 1 \in 0 .. M
    BY <1>2
  <2> QED
    BY <1>2, <1>3, <2>1 DEF KernelsFed
<1>7. ASSUME NEW n \in 1 .. N
      PROVE  K[r[M + n]].reads \subseteq A \cup Ready \cup Made(r, (M + n) - 1)
  <2>1. n - 1 \in 0 .. N /\ M + (n - 1) = (M + n) - 1
    BY <1>2
  <2>2. K[q[n]].reads \subseteq C \cup Ready \cup Made(q, n - 1)
    BY DEF KernelsFed
  <2>3. Made(p, M) \cup Made(q, n - 1) \subseteq Made(r, (M + n) - 1)
    BY <1>4, <2>1
  <2> QED
    BY <1>2, <1>5, <2>2, <2>3
<1>8. ASSUME NEW n \in 1 .. Len(r) PROVE K[r[n]].reads \subseteq A \cup Ready \cup Made(r, n - 1)
  <2>1. n \in 1 .. M \/ \E m \in 1 .. N : n = M + m
    <3>1. n > M => n - M \in 1 .. N /\ n = M + (n - M)
      BY <1>2
    <3>2. ~ (n > M) => n \in 1 .. M
      BY <1>2
    <3> QED
      BY <3>1, <3>2
  <2> QED
    BY <1>6, <1>7, <2>1
<1>9. B \cup D \subseteq A \cup Ready \cup Made(r, Len(r))
  <2>1. N \in 0 .. N
    BY <1>2
  <2>2. Made(p, M) \cup Made(q, N) \subseteq Made(r, Len(r))
    BY <1>2, <1>4, <2>1
  <2>3. B \subseteq A \cup Ready \cup Made(p, M) /\ D \subseteq C \cup Ready \cup Made(q, N)
    BY DEF KernelsFed
  <2> QED
    BY <1>5, <2>2, <2>3
<1> QED
  BY <1>1, <1>2, <1>8, <1>9 DEF KernelsFed, r

LEMMA OneKernelFed ==
  ASSUME NEW k, NEW A, NEW B, Fed(k, A, B)
  PROVE  KernelsFed(<<k>>, A, B)
<1> DEFINE p == <<k>>
<1>1. p \in Seq(DOMAIN K) /\ Len(p) = 1 /\ p[1] = k
  BY DEF Fed
<1> HIDE DEF p
<1>2. \A n \in 1 .. 1 : n = 1
  OBVIOUS
<1>3. K[k].writes \subseteq Made(p, 1)
  <2>1. 1 \in 1 .. 1
    OBVIOUS
  <2> QED
    BY <1>1, <2>1 DEF Made
<1>4. KernelsFed(p, A, B)
  BY <1>1, <1>2, <1>3 DEF KernelsFed, Fed
<1> QED
  BY <1>4 DEF p

\* One kernel more at the end.
LEMMA NextKernelFed ==
  ASSUME NEW ks, NEW A, NEW B, KernelsFed(ks, A, B), NEW k, NEW C, NEW D, Fed(k, C, D),
         C \subseteq A \cup B
  PROVE  KernelsFed(Append(ks, k), A, B \cup D)
<1>1. KernelsFed(<<k>>, C, D)
  BY OneKernelFed
<1>2. KernelsFed(ks \o <<k>>, A, B \cup D)
  BY <1>1, KernelsFedThen
<1>3. ks \in Seq(DOMAIN K) /\ k \in DOMAIN K
  BY DEF KernelsFed, Fed
<1>4. Append(ks, k) = ks \o <<k>>
  BY <1>3, AppendIsConcat
<1> QED
  BY <1>2, <1>4

LEMMA RunFed ==
  ASSUME NEW ks, NEW A, NEW B, KernelsFed(ks, A, B)
  PROVE  SelfFed(Run(ks), A, B)
<1> DEFINE kernels == [n \in DOMAIN ks |-> K[ks[n]]]
           L == Len(ks)
           c == Run(ks)
<1>1. /\ ks \in Seq(DOMAIN K) /\ L \in Nat /\ L > 0 /\ DOMAIN ks = 1 .. L
      /\ \A n \in 1 .. L : ks[n] \in DOMAIN K
  BY LenProperties DEF KernelsFed
<1>2. c \in Seq(Command)
  BY <1>1, RunIs
<1>3. Len(kernels) = L /\ \A n \in 1 .. L : kernels[n] = K[ks[n]]
  BY <1>1
<1>4. c = Chain(kernels, KernelDone)
  BY DEF Run
<1> HIDE DEF kernels
<1>5. c = [n \in 1 .. 2 * L - 1 |->
             IF n % 2 = 1 THEN Dispatch(kernels[(n + 1) \div 2]) ELSE KernelDone]
  BY <1>3, <1>4 DEF Chain
<1>6. Len(c) = 2 * L - 1
  BY <1>1, <1>5
<1> HIDE DEF c, L
<1>7. ASSUME NEW m \in 1 .. L
      PROVE  /\ 2 * m - 1 \in 1 .. 2 * L - 1
             /\ c[2 * m - 1] = Dispatch(K[ks[m]])
             /\ Ins(c[2 * m - 1]) = K[ks[m]].reads /\ Outs(c[2 * m - 1]) = K[ks[m]].writes
  <2>1. 2 * m - 1 \in 1 .. 2 * L - 1 /\ (2 * m - 1) % 2 = 1 /\ ((2 * m - 1) + 1) \div 2 = m
    BY <1>1
  <2>2. c[2 * m - 1] = Dispatch(K[ks[m]])
    BY <1>3, <1>5, <2>1
  <2> QED
    BY <1>1, <2>1, <2>2, DispatchIs, InsAndOuts
<1>8. ASSUME NEW n \in 1 .. L, NEW i \in Nat, 2 * n - 1 <= i
      PROVE  Made(ks, n) \subseteq Before(c, i)
  <2>1. \A m \in 1 .. n : m \in 1 .. L /\ 2 * m - 1 \in 1 .. i
    BY <1>1, <1>8
  <2>2. ASSUME NEW m \in 1 .. n PROVE K[ks[m]].writes \subseteq Before(c, i)
    <3>1. Outs(c[2 * m - 1]) \subseteq Before(c, i)
      BY <2>1, BeforeGrows
    <3> QED
      BY <1>7, <2>1, <3>1
  <2> QED
    BY <2>2 DEF Made
<1>9. ASSUME NEW i \in 1 .. Len(c) PROVE Ins(c[i]) \subseteq A \cup Ready \cup Before(c, i - 1)
  <2>1. CASE i % 2 = 0
    <3>1. c[i] = KernelDone
      BY <1>1, <1>5, <1>6, <2>1
    <3> QED
      BY <3>1, CommonBarriers, InsAndOuts
  <2>2. CASE i % 2 = 1
    <3> DEFINE n == (i + 1) \div 2
    <3>1. n \in 1 .. L /\ i = 2 * n - 1
      BY <1>1, <1>6, <2>2
    <3> HIDE DEF n
    <3>2. Ins(c[i]) = K[ks[n]].reads
      BY <1>7, <3>1
    <3>3. K[ks[n]].reads \subseteq A \cup Ready \cup Made(ks, n - 1)
      BY <3>1 DEF KernelsFed, L
    <3>4. Made(ks, n - 1) \subseteq Before(c, i - 1)
      <4>1. CASE n = 1
        <5>1. 1 .. n - 1 = {}
          BY <4>1
        <5> QED
          BY <5>1 DEF Made
      <4>2. CASE n # 1
        <5>1. n \in Nat /\ n >= 2 /\ n <= L
          BY <1>1, <3>1, <4>2
        <5>2. n - 1 \in 1 .. L
          BY <1>1, <5>1
        <5>3. i - 1 \in Nat /\ 2 * (n - 1) - 1 <= i - 1
          BY <3>1, <5>1
        <5> QED
          BY <1>8, <5>2, <5>3
      <4> QED
        BY <4>1, <4>2
    <3> QED
      BY <3>2, <3>3, <3>4
  <2>3. i % 2 = 0 \/ i % 2 = 1
    BY <1>1, <1>6
  <2> QED
    BY <2>1, <2>2, <2>3
<1>10. B \subseteq A \cup Ready \cup Before(c, Len(c))
  <2>1. L \in 1 .. L /\ Len(c) \in Nat /\ 2 * L - 1 <= Len(c)
    BY <1>1, <1>6
  <2>2. Made(ks, L) \subseteq Before(c, Len(c))
    BY <1>8, <2>1
  <2> QED
    BY <2>2 DEF KernelsFed, L
<1> QED
  BY <1>2, <1>9, <1>10 DEF SelfFed, c

-----------------------------------------------------------------------------
\* The training programs that read what they have written

Window == {"tokens", "targets", "mask"}

Rows == {"qRows", "kRows", "vRows"}

LEMMA FedFrom ==
  ASSUME NEW t \in KernelTables, NEW k \in DOMAIN t, NEW A, NEW B,
         t[k].reads \subseteq A \cup Ready, B \subseteq t[k].writes
  PROVE  Fed(k, A, B)
<1>1. k \in DOMAIN K
  BY KernelsFound DEF MergedFrom
<1> QED
  BY <1>1, KernelIs DEF Fed

LEMMA ForwardFed ==
  /\ Fed("forward", Window, {"states", "activations", "projected", "logits"} \cup Rows)
  /\ Fed("rmsFixed", {"projected"} \cup Window, {"activations", "rmsRaw", "rmsInv"})
  /\ Fed("rmsBackwardState", {"rmsRaw", "dprojected", "rmsInv"} \cup Window, {"rmsDx"})
  /\ Fed("rmsDgamma", {"rmsRaw", "dprojected", "rmsInv"} \cup Window, {"gammaGradient"})
  /\ Fed("loss", {"logits"} \cup Window, {"dlogits"})
  /\ Fed("lmBackward", {"dlogits"}, {"dprojected"})
  /\ Fed("lmHeadGradient", {"projected", "dlogits"}, {"lmHeadGradient"})
<1> DEFINE Forward == {"embeddings", "positions", "gamma", "query", "key", "value", "output", "lmHead"}
<1>1. Forward \subseteq Ready
  BY DEF Ready, Parameters, Weights
<1>2. /\ ForwardKernels \in KernelTables /\ {"forward", "rmsFixed"} \subseteq DOMAIN ForwardKernels
      /\ RmsBackwardKernels \in KernelTables
      /\ {"rmsBackwardState", "rmsDgamma"} \subseteq DOMAIN RmsBackwardKernels
      /\ LossKernels \in KernelTables
      /\ {"loss", "lmBackward", "lmHeadGradient"} \subseteq DOMAIN LossKernels
  BY KernelDomains DEF KernelTables
<1> USE DEF Kernel
<1>3. Fed("forward", Window, {"states", "activations", "projected", "logits"} \cup Rows)
  <2>1. ForwardKernels["forward"].reads \subseteq Window \cup Ready
    BY <1>1 DEF ForwardKernels, ForwardReads, Window
  <2>2. {"states", "activations", "projected", "logits"} \cup Rows \subseteq ForwardKernels["forward"].writes
    BY DEF ForwardKernels, ForwardWrites, Rows
  <2> QED
    BY <1>2, <2>1, <2>2, FedFrom
<1>4. Fed("rmsFixed", {"projected"} \cup Window, {"activations", "rmsRaw", "rmsInv"})
  <2>1. ForwardKernels["rmsFixed"].reads \subseteq ({"projected"} \cup Window) \cup Ready
    BY <1>1 DEF ForwardKernels, Window
  <2>2. {"activations", "rmsRaw", "rmsInv"} \subseteq ForwardKernels["rmsFixed"].writes
    BY DEF ForwardKernels
  <2> QED
    BY <1>2, <2>1, <2>2, FedFrom
<1>5. Fed("rmsBackwardState", {"rmsRaw", "dprojected", "rmsInv"} \cup Window, {"rmsDx"})
  <2>1. RmsBackwardKernels["rmsBackwardState"].reads
          \subseteq ({"rmsRaw", "dprojected", "rmsInv"} \cup Window) \cup Ready
    BY <1>1 DEF RmsBackwardKernels, Window
  <2>2. {"rmsDx"} \subseteq RmsBackwardKernels["rmsBackwardState"].writes
    BY DEF RmsBackwardKernels
  <2> QED
    BY <1>2, <2>1, <2>2, FedFrom
<1>6. Fed("rmsDgamma", {"rmsRaw", "dprojected", "rmsInv"} \cup Window, {"gammaGradient"})
  <2>1. RmsBackwardKernels["rmsDgamma"].reads
          \subseteq ({"rmsRaw", "dprojected", "rmsInv"} \cup Window) \cup Ready
    BY <1>1 DEF RmsBackwardKernels, Window
  <2>2. {"gammaGradient"} \subseteq RmsBackwardKernels["rmsDgamma"].writes
    BY DEF RmsBackwardKernels
  <2> QED
    BY <1>2, <2>1, <2>2, FedFrom
<1>7. Fed("loss", {"logits"} \cup Window, {"dlogits"})
  <2>1. LossKernels["loss"].reads \subseteq ({"logits"} \cup Window) \cup Ready
    BY DEF LossKernels, Window
  <2>2. {"dlogits"} \subseteq LossKernels["loss"].writes
    BY DEF LossKernels
  <2> QED
    BY <1>2, <2>1, <2>2, FedFrom
<1>8. Fed("lmBackward", {"dlogits"}, {"dprojected"})
  <2>1. LossKernels["lmBackward"].reads \subseteq {"dlogits"} \cup Ready
    BY <1>1 DEF LossKernels
  <2>2. {"dprojected"} \subseteq LossKernels["lmBackward"].writes
    BY DEF LossKernels
  <2> QED
    BY <1>2, <2>1, <2>2, FedFrom
<1>9. Fed("lmHeadGradient", {"projected", "dlogits"}, {"lmHeadGradient"})
  <2>1. LossKernels["lmHeadGradient"].reads \subseteq {"projected", "dlogits"} \cup Ready
    BY DEF LossKernels
  <2>2. {"lmHeadGradient"} \subseteq LossKernels["lmHeadGradient"].writes
    BY DEF LossKernels
  <2> QED
    BY <1>2, <2>1, <2>2, FedFrom
<1> QED
  BY <1>3, <1>4, <1>5, <1>6, <1>7, <1>8, <1>9

LEMMA BackwardFed ==
  /\ Fed("projBackward", {"dprojected"}, {"dcontext"})
  /\ Fed("attentionQ", {"doutput"} \cup Rows, {"dquery"})
  /\ Fed("attentionK", {"doutput"} \cup Rows, {"dkey"})
  /\ Fed("attentionV", {"doutput"} \cup Rows, {"dvalue"})
  /\ Fed("projQ", {"dquery"}, {"dstates"})
  /\ Fed("projKV", {"dkey", "dstates"}, {"dstates"})
  /\ Fed("projVV", {"dvalue", "dstates"}, {"dstates"})
  /\ Fed("positionGradient", {"dstates"} \cup Window, {"positionGradient"})
  /\ Fed("outputGradient", {"activations", "dprojected"}, {"outputGradient"})
<1>1. {"gamma", "query", "key", "value", "output"} \subseteq Ready
  BY DEF Ready, Parameters, Weights
<1>2. /\ ProjectionKernels \in KernelTables
      /\ {"projBackward", "projQ", "projKV", "projVV"} \subseteq DOMAIN ProjectionKernels
      /\ AttentionKernels \in KernelTables
      /\ {"attentionQ", "attentionK", "attentionV"} \subseteq DOMAIN AttentionKernels
      /\ TableKernels \in KernelTables /\ "positionGradient" \in DOMAIN TableKernels
      /\ OutputKernels \in KernelTables /\ "outputGradient" \in DOMAIN OutputKernels
  BY KernelDomains DEF KernelTables
<1> USE DEF Kernel
<1>3. /\ ProjectionKernels["projBackward"].reads \subseteq {"dprojected"} \cup Ready
      /\ ProjectionKernels["projQ"].reads \subseteq {"dquery"} \cup Ready
      /\ ProjectionKernels["projKV"].reads \subseteq {"dkey", "dstates"} \cup Ready
      /\ ProjectionKernels["projVV"].reads \subseteq {"dvalue", "dstates"} \cup Ready
  BY <1>1 DEF ProjectionKernels
<1>4. /\ {"dcontext"} \subseteq ProjectionKernels["projBackward"].writes
      /\ {"dstates"} \subseteq ProjectionKernels["projQ"].writes
      /\ {"dstates"} \subseteq ProjectionKernels["projKV"].writes
      /\ {"dstates"} \subseteq ProjectionKernels["projVV"].writes
  BY DEF ProjectionKernels
<1>5. /\ AttentionKernels["attentionQ"].reads \subseteq ({"doutput"} \cup Rows) \cup Ready
      /\ AttentionKernels["attentionK"].reads \subseteq ({"doutput"} \cup Rows) \cup Ready
      /\ AttentionKernels["attentionV"].reads \subseteq ({"doutput"} \cup Rows) \cup Ready
  BY DEF AttentionKernels, Rows
<1>6. /\ {"dquery"} \subseteq AttentionKernels["attentionQ"].writes
      /\ {"dkey"} \subseteq AttentionKernels["attentionK"].writes
      /\ {"dvalue"} \subseteq AttentionKernels["attentionV"].writes
  BY DEF AttentionKernels
<1>7. /\ TableKernels["positionGradient"].reads \subseteq ({"dstates"} \cup Window) \cup Ready
      /\ {"positionGradient"} \subseteq TableKernels["positionGradient"].writes
  BY <1>1 DEF TableKernels, Window
<1>8. /\ OutputKernels["outputGradient"].reads \subseteq {"activations", "dprojected"} \cup Ready
      /\ {"outputGradient"} \subseteq OutputKernels["outputGradient"].writes
  BY DEF OutputKernels
<1>9. /\ Fed("projBackward", {"dprojected"}, {"dcontext"})
      /\ Fed("projQ", {"dquery"}, {"dstates"})
      /\ Fed("projKV", {"dkey", "dstates"}, {"dstates"})
      /\ Fed("projVV", {"dvalue", "dstates"}, {"dstates"})
  BY <1>2, <1>3, <1>4, FedFrom
<1>10. /\ Fed("attentionQ", {"doutput"} \cup Rows, {"dquery"})
       /\ Fed("attentionK", {"doutput"} \cup Rows, {"dkey"})
       /\ Fed("attentionV", {"doutput"} \cup Rows, {"dvalue"})
  BY <1>2, <1>5, <1>6, FedFrom
<1>11. /\ Fed("positionGradient", {"dstates"} \cup Window, {"positionGradient"})
       /\ Fed("outputGradient", {"activations", "dprojected"}, {"outputGradient"})
  BY <1>2, <1>7, <1>8, FedFrom
<1> QED
  BY <1>9, <1>10, <1>11

LEMMA FfnFed ==
  /\ Fed("ffnForward", {"activations"} \cup Window, {"ffnOutput"})
  /\ Fed("ffnBackward", {"activations", "dprojected"} \cup Window, {"ffnDx"})
  /\ Fed("ffnGradient", {"activations", "dprojected"} \cup Window, FfnGradients)
  /\ Fed("lmHeadForward", {"projected"}, {"logits"})
  /\ Fed("gammaAdamw", {"gammaGradient"}, {})
  /\ \A k \in {"ffnW1Adamw", "ffnB1Adamw", "ffnW2Adamw", "ffnB2Adamw"} : Fed(k, FfnGradients, {})
<1>1. /\ {"lmHead", "gamma", "gammaM", "gammaV"} \subseteq Ready /\ FfnWeights \subseteq Ready
      /\ {"ffnW1M", "ffnB1M", "ffnW2M", "ffnB2M", "ffnW1V", "ffnB1V", "ffnW2V", "ffnB2V"}
           \subseteq Ready
  BY DEF Ready, Parameters, Weights, Moments
<1>2. /\ FfnKernels \in KernelTables
      /\ {"ffnForward", "ffnBackward", "ffnGradient", "lmHeadForward", "gammaAdamw", "ffnW1Adamw",
          "ffnB1Adamw", "ffnW2Adamw", "ffnB2Adamw"} \subseteq DOMAIN FfnKernels
  BY KernelDomains DEF KernelTables
<1> USE DEF Kernel, Optimizer
<1>3. /\ FfnKernels["ffnForward"].reads \subseteq ({"activations"} \cup Window) \cup Ready
      /\ {"ffnOutput"} \subseteq FfnKernels["ffnForward"].writes
  BY <1>1 DEF FfnKernels, Window
<1>4. /\ FfnKernels["ffnBackward"].reads \subseteq ({"activations", "dprojected"} \cup Window) \cup Ready
      /\ {"ffnDx"} \subseteq FfnKernels["ffnBackward"].writes
  BY <1>1 DEF FfnKernels, Window
<1>5. /\ FfnKernels["ffnGradient"].reads \subseteq ({"activations", "dprojected"} \cup Window) \cup Ready
      /\ FfnGradients \subseteq FfnKernels["ffnGradient"].writes
  BY <1>1 DEF FfnKernels, Window
<1>6. /\ FfnKernels["lmHeadForward"].reads \subseteq {"projected"} \cup Ready
      /\ {"logits"} \subseteq FfnKernels["lmHeadForward"].writes
      /\ FfnKernels["gammaAdamw"].reads \subseteq {"gammaGradient"} \cup Ready
  BY <1>1 DEF FfnKernels
<1>7. /\ FfnKernels["ffnW1Adamw"].reads \subseteq FfnGradients \cup Ready
      /\ FfnKernels["ffnB1Adamw"].reads \subseteq FfnGradients \cup Ready
      /\ FfnKernels["ffnW2Adamw"].reads \subseteq FfnGradients \cup Ready
      /\ FfnKernels["ffnB2Adamw"].reads \subseteq FfnGradients \cup Ready
  BY <1>1 DEF FfnKernels, FfnWeights, FfnGradients
<1>8. /\ Fed("ffnForward", {"activations"} \cup Window, {"ffnOutput"})
      /\ Fed("ffnBackward", {"activations", "dprojected"} \cup Window, {"ffnDx"})
      /\ Fed("ffnGradient", {"activations", "dprojected"} \cup Window, FfnGradients)
  BY <1>2, <1>3, <1>4, <1>5, FedFrom
<1>9. /\ Fed("lmHeadForward", {"projected"}, {"logits"}) /\ Fed("gammaAdamw", {"gammaGradient"}, {})
      /\ Fed("ffnW1Adamw", FfnGradients, {}) /\ Fed("ffnB1Adamw", FfnGradients, {})
      /\ Fed("ffnW2Adamw", FfnGradients, {}) /\ Fed("ffnB2Adamw", FfnGradients, {})
  <2>1. \A k \in DOMAIN FfnKernels : {} \subseteq FfnKernels[k].writes
    OBVIOUS
  <2> QED
    BY <1>2, <1>6, <1>7, <2>1, FedFrom
<1> QED
  BY <1>8, <1>9

LEMMA OptimizersFed ==
  /\ Fed("lmHeadSgd", {"lmHeadGradient"}, {}) /\ Fed("lmHeadAdamw", {"lmHeadGradient"}, {})
  /\ Fed("outputSgd", {"outputGradient"}, {}) /\ Fed("outputAdamw", {"outputGradient"}, {})
  /\ Fed("positionSgd", {"positionGradient"}, {})
  /\ Fed("positionAdamw", {"positionGradient"} \cup Window, {})
<1>1. {"lmHead", "lmHeadM", "lmHeadV", "output", "outputM", "outputV", "positions", "positionM",
       "positionV"} \subseteq Ready
  BY DEF Ready, Parameters, Weights, Moments
<1>2. /\ LmHeadKernels \in KernelTables /\ {"lmHeadSgd", "lmHeadAdamw"} \subseteq DOMAIN LmHeadKernels
      /\ OutputKernels \in KernelTables /\ {"outputSgd", "outputAdamw"} \subseteq DOMAIN OutputKernels
      /\ TableKernels \in KernelTables
      /\ {"positionSgd", "positionAdamw"} \subseteq DOMAIN TableKernels
  BY KernelDomains DEF KernelTables
<1> USE DEF Kernel, Optimizer
<1>3. /\ LmHeadKernels["lmHeadSgd"].reads \subseteq {"lmHeadGradient"} \cup Ready
      /\ LmHeadKernels["lmHeadAdamw"].reads \subseteq {"lmHeadGradient"} \cup Ready
      /\ {} \subseteq LmHeadKernels["lmHeadSgd"].writes
      /\ {} \subseteq LmHeadKernels["lmHeadAdamw"].writes
  BY <1>1 DEF LmHeadKernels
<1>4. /\ OutputKernels["outputSgd"].reads \subseteq {"outputGradient"} \cup Ready
      /\ OutputKernels["outputAdamw"].reads \subseteq {"outputGradient"} \cup Ready
      /\ {} \subseteq OutputKernels["outputSgd"].writes
      /\ {} \subseteq OutputKernels["outputAdamw"].writes
  BY <1>1 DEF OutputKernels
<1>5. /\ TableKernels["positionSgd"].reads \subseteq {"positionGradient"} \cup Ready
      /\ TableKernels["positionAdamw"].reads \subseteq ({"positionGradient"} \cup Window) \cup Ready
      /\ {} \subseteq TableKernels["positionSgd"].writes
      /\ {} \subseteq TableKernels["positionAdamw"].writes
  BY <1>1 DEF TableKernels, Window
<1>6. Fed("lmHeadSgd", {"lmHeadGradient"}, {}) /\ Fed("lmHeadAdamw", {"lmHeadGradient"}, {})
  BY <1>2, <1>3, FedFrom
<1>7. Fed("outputSgd", {"outputGradient"}, {}) /\ Fed("outputAdamw", {"outputGradient"}, {})
  BY <1>2, <1>4, FedFrom
<1>8. /\ Fed("positionSgd", {"positionGradient"}, {})
      /\ Fed("positionAdamw", {"positionGradient"} \cup Window, {})
  BY <1>2, <1>5, FedFrom
<1> QED
  BY <1>6, <1>7, <1>8

LEMMA MadeNext ==
  ASSUME NEW ks
  PROVE  /\ Made(ks, 0) = {}
         /\ \A n \in Nat \ {0} : Made(ks, n) = Made(ks, n - 1) \cup K[ks[n]].writes
<1>1. 1 .. 0 = {}
  OBVIOUS
<1>2. \A n \in Nat \ {0} : \A m : m \in 1 .. n <=> m \in 1 .. n - 1 \/ m = n
  OBVIOUS
<1> QED
  BY <1>1, <1>2 DEF Made

LEMMA LmHeadSgdFed ==
  KernelsFed(<<"forward", "loss", "lmHeadGradient", "lmHeadSgd">>, Window, {})
<1> DEFINE ks == <<"forward", "loss", "lmHeadGradient", "lmHeadSgd">>
           A == Window
<1>1. /\ Len(ks) = 4
      /\ ks[1] = "forward" /\ ks[2] = "loss" /\ ks[3] = "lmHeadGradient"
      /\ ks[4] = "lmHeadSgd"
  OBVIOUS
<1>2. ks \in Seq(DOMAIN K)
  BY ForwardFed, OptimizersFed DEF Fed
<1> HIDE DEF ks
<1>3. /\ Made(ks, 0) = {}
      /\ Made(ks, 1) = Made(ks, 0) \cup K["forward"].writes
      /\ Made(ks, 2) = Made(ks, 1) \cup K["loss"].writes
      /\ Made(ks, 3) = Made(ks, 2) \cup K["lmHeadGradient"].writes
      /\ Made(ks, 4) = Made(ks, 3) \cup K["lmHeadSgd"].writes
  BY <1>1, MadeNext
<1>4. \A n \in 1 .. 4 : n = 1 \/ n = 2 \/ n = 3 \/ n = 4
  OBVIOUS
<1>5. /\ K["forward"].reads \subseteq A \cup Ready \cup Made(ks, 0)
      /\ K["loss"].reads \subseteq A \cup Ready \cup Made(ks, 1)
      /\ K["lmHeadGradient"].reads \subseteq A \cup Ready \cup Made(ks, 2)
      /\ K["lmHeadSgd"].reads \subseteq A \cup Ready \cup Made(ks, 3)
  BY <1>3, ForwardFed, OptimizersFed DEF Fed, Window, Rows, FfnGradients
<1>6. \A n \in 1 .. 4 : K[ks[n]].reads \subseteq A \cup Ready \cup Made(ks, n - 1)
  BY <1>1, <1>4, <1>5
<1> QED
  BY <1>1, <1>2, <1>5, <1>6 DEF KernelsFed, ks

LEMMA LmHeadAdamwFed ==
  KernelsFed(<<"forward", "loss", "lmHeadGradient", "lmHeadAdamw">>, Window, {})
<1> DEFINE ks == <<"forward", "loss", "lmHeadGradient", "lmHeadAdamw">>
           A == Window
<1>1. /\ Len(ks) = 4
      /\ ks[1] = "forward" /\ ks[2] = "loss" /\ ks[3] = "lmHeadGradient"
      /\ ks[4] = "lmHeadAdamw"
  OBVIOUS
<1>2. ks \in Seq(DOMAIN K)
  BY ForwardFed, OptimizersFed DEF Fed
<1> HIDE DEF ks
<1>3. /\ Made(ks, 0) = {}
      /\ Made(ks, 1) = Made(ks, 0) \cup K["forward"].writes
      /\ Made(ks, 2) = Made(ks, 1) \cup K["loss"].writes
      /\ Made(ks, 3) = Made(ks, 2) \cup K["lmHeadGradient"].writes
      /\ Made(ks, 4) = Made(ks, 3) \cup K["lmHeadAdamw"].writes
  BY <1>1, MadeNext
<1>4. \A n \in 1 .. 4 : n = 1 \/ n = 2 \/ n = 3 \/ n = 4
  OBVIOUS
<1>5. /\ K["forward"].reads \subseteq A \cup Ready \cup Made(ks, 0)
      /\ K["loss"].reads \subseteq A \cup Ready \cup Made(ks, 1)
      /\ K["lmHeadGradient"].reads \subseteq A \cup Ready \cup Made(ks, 2)
      /\ K["lmHeadAdamw"].reads \subseteq A \cup Ready \cup Made(ks, 3)
  BY <1>3, ForwardFed, OptimizersFed DEF Fed, Window, Rows, FfnGradients
<1>6. \A n \in 1 .. 4 : K[ks[n]].reads \subseteq A \cup Ready \cup Made(ks, n - 1)
  BY <1>1, <1>4, <1>5
<1> QED
  BY <1>1, <1>2, <1>5, <1>6 DEF KernelsFed, ks

LEMMA LossGradientFed ==
  KernelsFed(LossGradient, Window, {"activations", "dprojected"} \cup Rows)
<1> DEFINE ks == <<"forward", "loss", "lmBackward">>
           A == Window
<1>1. /\ Len(ks) = 3
      /\ ks[1] = "forward" /\ ks[2] = "loss" /\ ks[3] = "lmBackward"
  OBVIOUS
<1>2. ks \in Seq(DOMAIN K)
  BY ForwardFed DEF Fed
<1> HIDE DEF ks
<1>3. /\ Made(ks, 0) = {}
      /\ Made(ks, 1) = Made(ks, 0) \cup K["forward"].writes
      /\ Made(ks, 2) = Made(ks, 1) \cup K["loss"].writes
      /\ Made(ks, 3) = Made(ks, 2) \cup K["lmBackward"].writes
  BY <1>1, MadeNext
<1>4. \A n \in 1 .. 3 : n = 1 \/ n = 2 \/ n = 3
  OBVIOUS
<1>5. /\ K["forward"].reads \subseteq A \cup Ready \cup Made(ks, 0)
      /\ K["loss"].reads \subseteq A \cup Ready \cup Made(ks, 1)
      /\ K["lmBackward"].reads \subseteq A \cup Ready \cup Made(ks, 2)
      /\ {"activations", "dprojected"} \cup Rows \subseteq A \cup Ready \cup Made(ks, 3)
  BY <1>3, ForwardFed DEF Fed, Window, Rows, FfnGradients
<1>6. \A n \in 1 .. 3 : K[ks[n]].reads \subseteq A \cup Ready \cup Made(ks, n - 1)
  BY <1>1, <1>4, <1>5
<1> QED
  BY <1>1, <1>2, <1>5, <1>6 DEF KernelsFed, ks, LossGradient

LEMMA OutputSgdFed ==
  KernelsFed(<<"outputGradient", "outputSgd">>, {"activations", "dprojected"}, {})
<1> DEFINE ks == <<"outputGradient", "outputSgd">>
           A == {"activations", "dprojected"}
<1>1. /\ Len(ks) = 2
      /\ ks[1] = "outputGradient" /\ ks[2] = "outputSgd"
  OBVIOUS
<1>2. ks \in Seq(DOMAIN K)
  BY BackwardFed, OptimizersFed DEF Fed
<1> HIDE DEF ks
<1>3. /\ Made(ks, 0) = {}
      /\ Made(ks, 1) = Made(ks, 0) \cup K["outputGradient"].writes
      /\ Made(ks, 2) = Made(ks, 1) \cup K["outputSgd"].writes
  BY <1>1, MadeNext
<1>4. \A n \in 1 .. 2 : n = 1 \/ n = 2
  OBVIOUS
<1>5. /\ K["outputGradient"].reads \subseteq A \cup Ready \cup Made(ks, 0)
      /\ K["outputSgd"].reads \subseteq A \cup Ready \cup Made(ks, 1)
  BY <1>3, BackwardFed, OptimizersFed DEF Fed, Window, Rows, FfnGradients
<1>6. \A n \in 1 .. 2 : K[ks[n]].reads \subseteq A \cup Ready \cup Made(ks, n - 1)
  BY <1>1, <1>4, <1>5
<1> QED
  BY <1>1, <1>2, <1>5, <1>6 DEF KernelsFed, ks

LEMMA OutputAdamwFed ==
  KernelsFed(<<"outputGradient", "outputAdamw">>, {"activations", "dprojected"}, {})
<1> DEFINE ks == <<"outputGradient", "outputAdamw">>
           A == {"activations", "dprojected"}
<1>1. /\ Len(ks) = 2
      /\ ks[1] = "outputGradient" /\ ks[2] = "outputAdamw"
  OBVIOUS
<1>2. ks \in Seq(DOMAIN K)
  BY BackwardFed, OptimizersFed DEF Fed
<1> HIDE DEF ks
<1>3. /\ Made(ks, 0) = {}
      /\ Made(ks, 1) = Made(ks, 0) \cup K["outputGradient"].writes
      /\ Made(ks, 2) = Made(ks, 1) \cup K["outputAdamw"].writes
  BY <1>1, MadeNext
<1>4. \A n \in 1 .. 2 : n = 1 \/ n = 2
  OBVIOUS
<1>5. /\ K["outputGradient"].reads \subseteq A \cup Ready \cup Made(ks, 0)
      /\ K["outputAdamw"].reads \subseteq A \cup Ready \cup Made(ks, 1)
  BY <1>3, BackwardFed, OptimizersFed DEF Fed, Window, Rows, FfnGradients
<1>6. \A n \in 1 .. 2 : K[ks[n]].reads \subseteq A \cup Ready \cup Made(ks, n - 1)
  BY <1>1, <1>4, <1>5
<1> QED
  BY <1>1, <1>2, <1>5, <1>6 DEF KernelsFed, ks

LEMMA StateGradientFed ==
  KernelsFed(StateGradient, {"doutput"} \cup Rows, {"dstates"})
<1> DEFINE ks == <<"attentionQ", "attentionK", "attentionV", "projQ", "projKV", "projVV">>
           A == {"doutput"} \cup Rows
<1>1. /\ Len(ks) = 6
      /\ ks[1] = "attentionQ" /\ ks[2] = "attentionK" /\ ks[3] = "attentionV"
      /\ ks[4] = "projQ" /\ ks[5] = "projKV" /\ ks[6] = "projVV"
  OBVIOUS
<1>2. ks \in Seq(DOMAIN K)
  BY BackwardFed DEF Fed
<1> HIDE DEF ks
<1>3. /\ Made(ks, 0) = {}
      /\ Made(ks, 1) = Made(ks, 0) \cup K["attentionQ"].writes
      /\ Made(ks, 2) = Made(ks, 1) \cup K["attentionK"].writes
      /\ Made(ks, 3) = Made(ks, 2) \cup K["attentionV"].writes
      /\ Made(ks, 4) = Made(ks, 3) \cup K["projQ"].writes
      /\ Made(ks, 5) = Made(ks, 4) \cup K["projKV"].writes
      /\ Made(ks, 6) = Made(ks, 5) \cup K["projVV"].writes
  BY <1>1, MadeNext
<1>4. \A n \in 1 .. 6 : n = 1 \/ n = 2 \/ n = 3 \/ n = 4 \/ n = 5 \/ n = 6
  OBVIOUS
<1>5. /\ K["attentionQ"].reads \subseteq A \cup Ready \cup Made(ks, 0)
      /\ K["attentionK"].reads \subseteq A \cup Ready \cup Made(ks, 1)
      /\ K["attentionV"].reads \subseteq A \cup Ready \cup Made(ks, 2)
      /\ K["projQ"].reads \subseteq A \cup Ready \cup Made(ks, 3)
      /\ K["projKV"].reads \subseteq A \cup Ready \cup Made(ks, 4)
      /\ K["projVV"].reads \subseteq A \cup Ready \cup Made(ks, 5)
      /\ {"dstates"} \subseteq A \cup Ready \cup Made(ks, 6)
  BY <1>3, BackwardFed DEF Fed, Window, Rows, FfnGradients
<1>6. \A n \in 1 .. 6 : K[ks[n]].reads \subseteq A \cup Ready \cup Made(ks, n - 1)
  BY <1>1, <1>4, <1>5
<1> QED
  BY <1>1, <1>2, <1>5, <1>6 DEF KernelsFed, ks, StateGradient

LEMMA PositionSgdFed ==
  KernelsFed(<<"positionGradient", "positionSgd">>, {"dstates"} \cup Window, {})
<1> DEFINE ks == <<"positionGradient", "positionSgd">>
           A == {"dstates"} \cup Window
<1>1. /\ Len(ks) = 2
      /\ ks[1] = "positionGradient" /\ ks[2] = "positionSgd"
  OBVIOUS
<1>2. ks \in Seq(DOMAIN K)
  BY BackwardFed, OptimizersFed DEF Fed
<1> HIDE DEF ks
<1>3. /\ Made(ks, 0) = {}
      /\ Made(ks, 1) = Made(ks, 0) \cup K["positionGradient"].writes
      /\ Made(ks, 2) = Made(ks, 1) \cup K["positionSgd"].writes
  BY <1>1, MadeNext
<1>4. \A n \in 1 .. 2 : n = 1 \/ n = 2
  OBVIOUS
<1>5. /\ K["positionGradient"].reads \subseteq A \cup Ready \cup Made(ks, 0)
      /\ K["positionSgd"].reads \subseteq A \cup Ready \cup Made(ks, 1)
  BY <1>3, BackwardFed, OptimizersFed DEF Fed, Window, Rows, FfnGradients
<1>6. \A n \in 1 .. 2 : K[ks[n]].reads \subseteq A \cup Ready \cup Made(ks, n - 1)
  BY <1>1, <1>4, <1>5
<1> QED
  BY <1>1, <1>2, <1>5, <1>6 DEF KernelsFed, ks

LEMMA RmsFed ==
  KernelsFed(<<"forward", "rmsFixed">>,
             Window, {"states", "activations", "rmsRaw", "rmsInv"} \cup Rows)
<1> DEFINE ks == <<"forward", "rmsFixed">>
           A == Window
<1>1. /\ Len(ks) = 2
      /\ ks[1] = "forward" /\ ks[2] = "rmsFixed"
  OBVIOUS
<1>2. ks \in Seq(DOMAIN K)
  BY ForwardFed DEF Fed
<1> HIDE DEF ks
<1>3. /\ Made(ks, 0) = {}
      /\ Made(ks, 1) = Made(ks, 0) \cup K["forward"].writes
      /\ Made(ks, 2) = Made(ks, 1) \cup K["rmsFixed"].writes
  BY <1>1, MadeNext
<1>4. \A n \in 1 .. 2 : n = 1 \/ n = 2
  OBVIOUS
<1>5. /\ K["forward"].reads \subseteq A \cup Ready \cup Made(ks, 0)
      /\ K["rmsFixed"].reads \subseteq A \cup Ready \cup Made(ks, 1)
      /\ {"states", "activations", "rmsRaw", "rmsInv"} \cup Rows \subseteq A \cup Ready \cup Made(ks, 2)
  BY <1>3, ForwardFed DEF Fed, Window, Rows, FfnGradients
<1>6. \A n \in 1 .. 2 : K[ks[n]].reads \subseteq A \cup Ready \cup Made(ks, n - 1)
  BY <1>1, <1>4, <1>5
<1> QED
  BY <1>1, <1>2, <1>5, <1>6 DEF KernelsFed, ks

LEMMA FfnLossFed ==
  KernelsFed(<<"lmHeadForward", "loss", "lmBackward", "ffnBackward">>,
             {"projected", "activations"} \cup Window, {"dprojected", "ffnDx"})
<1> DEFINE ks == <<"lmHeadForward", "loss", "lmBackward", "ffnBackward">>
           A == {"projected", "activations"} \cup Window
<1>1. /\ Len(ks) = 4
      /\ ks[1] = "lmHeadForward" /\ ks[2] = "loss" /\ ks[3] = "lmBackward"
      /\ ks[4] = "ffnBackward"
  OBVIOUS
<1>2. ks \in Seq(DOMAIN K)
  BY FfnFed, ForwardFed DEF Fed
<1> HIDE DEF ks
<1>3. /\ Made(ks, 0) = {}
      /\ Made(ks, 1) = Made(ks, 0) \cup K["lmHeadForward"].writes
      /\ Made(ks, 2) = Made(ks, 1) \cup K["loss"].writes
      /\ Made(ks, 3) = Made(ks, 2) \cup K["lmBackward"].writes
      /\ Made(ks, 4) = Made(ks, 3) \cup K["ffnBackward"].writes
  BY <1>1, MadeNext
<1>4. \A n \in 1 .. 4 : n = 1 \/ n = 2 \/ n = 3 \/ n = 4
  OBVIOUS
<1>5. /\ K["lmHeadForward"].reads \subseteq A \cup Ready \cup Made(ks, 0)
      /\ K["loss"].reads \subseteq A \cup Ready \cup Made(ks, 1)
      /\ K["lmBackward"].reads \subseteq A \cup Ready \cup Made(ks, 2)
      /\ K["ffnBackward"].reads \subseteq A \cup Ready \cup Made(ks, 3)
      /\ {"dprojected", "ffnDx"} \subseteq A \cup Ready \cup Made(ks, 4)
  BY <1>3, FfnFed, ForwardFed DEF Fed, Window, Rows, FfnGradients
<1>6. \A n \in 1 .. 4 : K[ks[n]].reads \subseteq A \cup Ready \cup Made(ks, n - 1)
  BY <1>1, <1>4, <1>5
<1> QED
  BY <1>1, <1>2, <1>5, <1>6 DEF KernelsFed, ks

LEMMA FfnGradientsFed ==
  KernelsFed(<<"ffnGradient", "rmsDgamma", "rmsBackwardState">>,
             {"activations", "dprojected", "rmsRaw", "rmsInv"} \cup Window, {"gammaGradient", "rmsDx"} \cup FfnGradients)
<1> DEFINE ks == <<"ffnGradient", "rmsDgamma", "rmsBackwardState">>
           A == {"activations", "dprojected", "rmsRaw", "rmsInv"} \cup Window
<1>1. /\ Len(ks) = 3
      /\ ks[1] = "ffnGradient" /\ ks[2] = "rmsDgamma" /\ ks[3] = "rmsBackwardState"
  OBVIOUS
<1>2. ks \in Seq(DOMAIN K)
  BY FfnFed, ForwardFed DEF Fed
<1> HIDE DEF ks
<1>3. /\ Made(ks, 0) = {}
      /\ Made(ks, 1) = Made(ks, 0) \cup K["ffnGradient"].writes
      /\ Made(ks, 2) = Made(ks, 1) \cup K["rmsDgamma"].writes
      /\ Made(ks, 3) = Made(ks, 2) \cup K["rmsBackwardState"].writes
  BY <1>1, MadeNext
<1>4. \A n \in 1 .. 3 : n = 1 \/ n = 2 \/ n = 3
  OBVIOUS
<1>5. /\ K["ffnGradient"].reads \subseteq A \cup Ready \cup Made(ks, 0)
      /\ K["rmsDgamma"].reads \subseteq A \cup Ready \cup Made(ks, 1)
      /\ K["rmsBackwardState"].reads \subseteq A \cup Ready \cup Made(ks, 2)
      /\ {"gammaGradient", "rmsDx"} \cup FfnGradients \subseteq A \cup Ready \cup Made(ks, 3)
  BY <1>3, FfnFed, ForwardFed DEF Fed, Window, Rows, FfnGradients
<1>6. \A n \in 1 .. 3 : K[ks[n]].reads \subseteq A \cup Ready \cup Made(ks, n - 1)
  BY <1>1, <1>4, <1>5
<1> QED
  BY <1>1, <1>2, <1>5, <1>6 DEF KernelsFed, ks

LEMMA AdamwFed ==
  KernelsFed(<<"gammaAdamw", "ffnW1Adamw", "ffnB1Adamw", "ffnW2Adamw", "ffnB2Adamw", "positionAdamw">>,
             {"gammaGradient", "positionGradient"} \cup FfnGradients \cup Window, {})
<1> DEFINE ks == <<"gammaAdamw", "ffnW1Adamw", "ffnB1Adamw", "ffnW2Adamw", "ffnB2Adamw", "positionAdamw">>
           A == {"gammaGradient", "positionGradient"} \cup FfnGradients \cup Window
<1>1. /\ Len(ks) = 6
      /\ ks[1] = "gammaAdamw" /\ ks[2] = "ffnW1Adamw" /\ ks[3] = "ffnB1Adamw"
      /\ ks[4] = "ffnW2Adamw" /\ ks[5] = "ffnB2Adamw" /\ ks[6] = "positionAdamw"
  OBVIOUS
<1>2. ks \in Seq(DOMAIN K)
  BY FfnFed, OptimizersFed DEF Fed
<1> HIDE DEF ks
<1>3. /\ Made(ks, 0) = {}
      /\ Made(ks, 1) = Made(ks, 0) \cup K["gammaAdamw"].writes
      /\ Made(ks, 2) = Made(ks, 1) \cup K["ffnW1Adamw"].writes
      /\ Made(ks, 3) = Made(ks, 2) \cup K["ffnB1Adamw"].writes
      /\ Made(ks, 4) = Made(ks, 3) \cup K["ffnW2Adamw"].writes
      /\ Made(ks, 5) = Made(ks, 4) \cup K["ffnB2Adamw"].writes
      /\ Made(ks, 6) = Made(ks, 5) \cup K["positionAdamw"].writes
  BY <1>1, MadeNext
<1>4. \A n \in 1 .. 6 : n = 1 \/ n = 2 \/ n = 3 \/ n = 4 \/ n = 5 \/ n = 6
  OBVIOUS
<1>5. /\ K["gammaAdamw"].reads \subseteq A \cup Ready \cup Made(ks, 0)
      /\ K["ffnW1Adamw"].reads \subseteq A \cup Ready \cup Made(ks, 1)
      /\ K["ffnB1Adamw"].reads \subseteq A \cup Ready \cup Made(ks, 2)
      /\ K["ffnW2Adamw"].reads \subseteq A \cup Ready \cup Made(ks, 3)
      /\ K["ffnB2Adamw"].reads \subseteq A \cup Ready \cup Made(ks, 4)
      /\ K["positionAdamw"].reads \subseteq A \cup Ready \cup Made(ks, 5)
  BY <1>3, FfnFed, OptimizersFed DEF Fed, Window, Rows, FfnGradients
<1>6. \A n \in 1 .. 6 : K[ks[n]].reads \subseteq A \cup Ready \cup Made(ks, n - 1)
  BY <1>1, <1>4, <1>5
<1> QED
  BY <1>1, <1>2, <1>5, <1>6 DEF KernelsFed, ks

-----------------------------------------------------------------------------
\* The pieces of the programs

\* A piece q at the end of a program that starts from nothing.
LEMMA NextPiece ==
  ASSUME NEW p, NEW B, SelfFed(p, {}, B), NEW q, NEW C, NEW D, SelfFed(q, C, D), C \subseteq B
  PROVE  SelfFed(p \o q, {}, B \cup D)
BY SelfFedThen

\* One command more at the end.
LEMMA NextCommand ==
  ASSUME NEW p, NEW A, NEW B, SelfFed(p, A, B), NEW c \in Command, NEW C, NEW D,
         SelfFed(<<c>>, C, D), C \subseteq A \cup B
  PROVE  SelfFed(Append(p, c), A, B \cup D)
<1>1. SelfFed(p \o <<c>>, A, B \cup D)
  BY SelfFedThen
<1>2. Append(p, c) = p \o <<c>>
  BY AppendIsConcat DEF SelfFed
<1> QED
  BY <1>1, <1>2

LEMMA BarrierFed ==
  ASSUME NEW b \in Barriers
  PROVE  SelfFed(<<b>>, {}, {})
<1>1. b \in Command /\ Ins(b) = {} /\ Outs(b) = {}
  BY CommandSets, InsAndOuts
<1> QED
  BY <1>1, OneFed

LEMMA DoFed ==
  ASSUME NEW k, NEW A, NEW B, Fed(k, A, B)
  PROVE  SelfFed(Do(k), A, B)
<1> DEFINE c == Dispatch(K[k])
<1>1. k \in DOMAIN K /\ K[k].reads \subseteq A \cup Ready /\ B \subseteq K[k].writes
  BY DEF Fed
<1>2. c \in Works /\ NamesOf(c.reads) = K[k].reads /\ NamesOf(c.writes) = K[k].writes
  BY <1>1, DispatchIs
<1>3. Do(k) = <<c>>
  BY DEF Do
<1> HIDE DEF c
<1>4. c \in Command /\ Ins(c) \subseteq A \cup Ready /\ B \subseteq Outs(c)
  BY <1>1, <1>2, InsAndOuts DEF Command
<1>5. SelfFed(<<c>>, Ins(c), Outs(c))
  BY <1>4, OneFed
<1>6. SelfFed(<<c>>, A, B)
  <2>1. Ins(c) \subseteq A \cup Ready /\ B \subseteq A \cup Outs(c) \cup Ready
    BY <1>4
  <2> QED
    BY <1>5, <2>1, SelfFedWeaker
<1> QED
  BY <1>3, <1>6

LEMMA CopyFed ==
  ASSUME NEW p \in Place, NEW q \in Place, p[1] \notin LoraGradients
  PROVE  SelfFed(<<Copy(p, q)>>, {p[1]}, {q[1]})
<1> DEFINE c == Copy(p, q)
<1>1. c \in Works /\ NamesOf(c.reads) = {p[1]} /\ NamesOf(c.writes) = {q[1]}
  BY CopyIs
<1> HIDE DEF c
<1>2. c \in Command /\ Ins(c) = {p[1]} /\ Outs(c) = {q[1]}
  BY <1>1, InsAndOuts DEF Command
<1> QED
  BY <1>2, OneFed DEF c

LEMMA CarryOverFed ==
  ASSUME NEW b \in Buffers \ LoraGradients, NEW d \in Buffers
  PROVE  SelfFed(CarryOver(b, d), {b}, {d})
<1> DEFINE b1 == Barrier(AnyStage, {"T"}, {"CW"}, {"TR"}, {b})
           b2 == Barrier(AnyStage, {"T"}, {"CR", "TR", "TW"}, {"TW"}, {d})
           c  == Copy(Whole(b), Whole(d))
<1>1. b1 \in Barriers /\ b2 \in Barriers /\ UploadDone \in Barriers
  <2>1. /\ AnyStage \in SUBSET AnyStage /\ {"T"} \in SUBSET AnyStage
        /\ {"CW"} \in SUBSET AnyAccess /\ {"TR"} \in SUBSET AnyAccess /\ {"TW"} \in SUBSET AnyAccess
        /\ {"CR", "TR", "TW"} \in SUBSET AnyAccess
        /\ {b} \in SUBSET Buffers /\ {d} \in SUBSET Buffers
    BY DEF AnyStage, AnyAccess
  <2> QED
    BY <2>1, BarrierIs, CommonBarriers
<1>2. SelfFed(<<c>>, {b}, {d})
  <2>1. Whole(b) \in Place /\ Whole(b)[1] = b /\ Whole(d) \in Place /\ Whole(d)[1] = d
    BY WholePlace
  <2> QED
    BY <2>1, CopyFed
<1>3. CarryOver(b, d) = <<b1, b2, c, UploadDone>>
  BY DEF CarryOver
<1> HIDE DEF b1, b2, c
<1>4. SelfFed(<<b1>>, {}, {}) /\ SelfFed(<<b2>>, {}, {}) /\ SelfFed(<<UploadDone>>, {}, {})
  BY <1>1, BarrierFed
<1>5. b1 \in Command /\ b2 \in Command /\ c \in Command /\ UploadDone \in Command
  BY <1>1, <1>2, CommandSets DEF SelfFed
<1>6. SelfFed(<<b1, b2>>, {b}, {})
  <2>1. SelfFed(Append(<<b1>>, b2), {}, {} \cup {})
    BY <1>4, <1>5, NextCommand
  <2>2. <<b1, b2>> = Append(<<b1>>, b2)
    OBVIOUS
  <2>3. SelfFed(<<b1, b2>>, {}, {})
    BY <2>1, <2>2
  <2> QED
    BY <2>3, SelfFedWeaker
<1>7. SelfFed(<<b1, b2, c>>, {b}, {d})
  <2>1. SelfFed(Append(<<b1, b2>>, c), {b}, {} \cup {d})
    BY <1>2, <1>5, <1>6, NextCommand
  <2>2. <<b1, b2, c>> = Append(<<b1, b2>>, c)
    OBVIOUS
  <2> QED
    BY <2>1, <2>2
<1>8. SelfFed(<<b1, b2, c, UploadDone>>, {b}, {d})
  <2>1. SelfFed(Append(<<b1, b2, c>>, UploadDone), {b}, {d} \cup {})
    BY <1>4, <1>5, <1>7, NextCommand
  <2>2. <<b1, b2, c, UploadDone>> = Append(<<b1, b2, c>>, UploadDone)
    OBVIOUS
  <2> QED
    BY <2>1, <2>2
<1> QED
  BY <1>3, <1>8

LEMMA WindowFed ==
  SelfFed(CopyWindow, {}, Window) /\ SelfFed(LoadWindow, {}, Window)
<1> DEFINE c1 == Copy(Staging(0, 512), Whole("tokens"))
           c2 == Copy(Staging(512, 512), Whole("targets"))
           c3 == Copy(Staging(1024, 512), Whole("mask"))
<1>1. SelfFed(<<c1>>, {}, {"tokens"}) /\ SelfFed(<<c2>>, {}, {"targets"}) /\ SelfFed(<<c3>>, {}, {"mask"})
  <2>1. \A at \in {0, 512, 1024} : /\ Staging(at, 512) \in Place
                                   /\ Staging(at, 512)[1] = "trainingStaging"
    BY StagingPlace
  <2>2. "trainingStaging" \notin LoraGradients /\ {"trainingStaging"} \subseteq Ready
    BY StagingPlace DEF LoraGradients, Ready
  <2>3. \A b \in Window : Whole(b) \in Place /\ Whole(b)[1] = b
    BY BufferNames, WholePlace DEF Window, Buffers
  <2>4. ASSUME NEW at \in {0, 512, 1024}, NEW b \in Window
        PROVE  SelfFed(<<Copy(Staging(at, 512), Whole(b))>>, {}, {b})
    <3>1. SelfFed(<<Copy(Staging(at, 512), Whole(b))>>, {"trainingStaging"}, {b})
      <4>1. /\ Staging(at, 512) \in Place /\ Staging(at, 512)[1] = "trainingStaging"
            /\ Whole(b) \in Place /\ Whole(b)[1] = b
        BY <2>1, <2>3
      <4> QED
        BY <2>2, <4>1, CopyFed
    <3> QED
      BY <2>2, <3>1, SelfFedWeaker
  <2> QED
    BY <2>4 DEF Window
<1>2. CopyWindow = <<c1, c2, c3>>
  BY DEF CopyWindow
<1> HIDE DEF c1, c2, c3
<1>3. c1 \in Command /\ c2 \in Command /\ c3 \in Command
  BY <1>1 DEF SelfFed
<1>4. SelfFed(<<c1, c2>>, {}, {"tokens", "targets"})
  <2>1. SelfFed(Append(<<c1>>, c2), {}, {"tokens"} \cup {"targets"})
    BY <1>1, <1>3, NextCommand
  <2>2. <<c1, c2>> = Append(<<c1>>, c2) /\ {"tokens"} \cup {"targets"} = {"tokens", "targets"}
    OBVIOUS
  <2> QED
    BY <2>1, <2>2
<1>5. SelfFed(<<c1, c2, c3>>, {}, Window)
  <2>1. SelfFed(Append(<<c1, c2>>, c3), {}, {"tokens", "targets"} \cup {"mask"})
    BY <1>1, <1>3, <1>4, NextCommand
  <2>2. /\ <<c1, c2, c3>> = Append(<<c1, c2>>, c3)
        /\ {"tokens", "targets"} \cup {"mask"} = Window
    BY DEF Window
  <2> QED
    BY <2>1, <2>2
<1>6. SelfFed(CopyWindow, {}, Window)
  BY <1>2, <1>5
<1>7. SelfFed(<<UploadDone>>, {}, {})
  BY BarrierFed, CommonBarriers
<1>8. SelfFed(CopyWindow \o <<UploadDone>>, {}, Window \cup {})
  BY <1>6, <1>7, NextPiece
<1> QED
  BY <1>6, <1>8 DEF LoadWindow

-----------------------------------------------------------------------------
\* The training programs that read what they have written

\* A program that loads its window and runs its kernels.
LEMMA LoadAndRunFed ==
  ASSUME NEW ks, NEW B, KernelsFed(ks, Window, B)
  PROVE  SelfFed(LoadWindow \o Run(ks), {}, Window \cup B)
<1>1. SelfFed(Run(ks), Window, B)
  BY RunFed
<1> QED
  BY <1>1, WindowFed, NextPiece

LEMMA LmHeadProgramsFed ==
  SelfFed(train_lm_head_sgd, {}, Window) /\ SelfFed(train_lm_head_adamw, {}, Window)
<1> DEFINE sgd == <<"forward", "loss", "lmHeadGradient", "lmHeadSgd">>
           adamw == <<"forward", "loss", "lmHeadGradient", "lmHeadAdamw">>
<1>1. KernelsFed(sgd, Window, {}) /\ KernelsFed(adamw, Window, {})
  BY LmHeadSgdFed, LmHeadAdamwFed
<1>2. train_lm_head_sgd = LoadWindow \o Run(sgd) /\ train_lm_head_adamw = LoadWindow \o Run(adamw)
  BY DEF train_lm_head_sgd, train_lm_head_adamw
<1> HIDE DEF sgd, adamw
<1>3. /\ SelfFed(LoadWindow \o Run(sgd), {}, Window \cup {})
      /\ SelfFed(LoadWindow \o Run(adamw), {}, Window \cup {})
  BY <1>1, LoadAndRunFed
<1> QED
  BY <1>2, <1>3

LEMMA OutputProgramsFed ==
  SelfFed(train_output_sgd, {}, Window) /\ SelfFed(train_output_adamw, {}, Window)
<1> DEFINE sgd == <<"outputGradient", "outputSgd">>
           adamw == <<"outputGradient", "outputAdamw">>
           B == {"activations", "dprojected"} \cup Rows
           C == {"activations", "dprojected"}
<1>1. KernelsFed(sgd, C, {}) /\ KernelsFed(adamw, C, {}) /\ KernelsFed(LossGradient, Window, B)
  BY OutputSgdFed, OutputAdamwFed, LossGradientFed
<1>2. /\ train_output_sgd = LoadWindow \o Run(LossGradient \o sgd)
      /\ train_output_adamw = LoadWindow \o Run(LossGradient \o adamw)
  BY DEF train_output_sgd, train_output_adamw
<1>3. C \subseteq Window \cup B
  OBVIOUS
<1> HIDE DEF sgd, adamw, B, C
<1>4. KernelsFed(LossGradient \o sgd, Window, B \cup {}) /\ KernelsFed(LossGradient \o adamw, Window, B \cup {})
  BY <1>1, <1>3, KernelsFedThen
<1>5. /\ SelfFed(LoadWindow \o Run(LossGradient \o sgd), {}, Window \cup (B \cup {}))
      /\ SelfFed(LoadWindow \o Run(LossGradient \o adamw), {}, Window \cup (B \cup {}))
  BY <1>4, LoadAndRunFed
<1>6. Window \subseteq {} \cup (Window \cup (B \cup {})) \cup Ready
  OBVIOUS
<1> QED
  BY <1>2, <1>5, <1>6, SelfFedWeaker

LEMMA PositionsSgdFed ==
  SelfFed(train_positions_sgd, {}, {})
<1> DEFINE first == LossGradient \o <<"projBackward">>
           second == StateGradient \o <<"positionGradient", "positionSgd">>
           b1 == Barrier({"C"}, {"T"}, {"CW"}, {"TR"}, {"dcontext"})
           c  == Copy(Whole("dcontext"), Whole("doutput"))
           b2 == Barrier({"T"}, {"C"}, {"TW"}, {"CR"}, {"doutput"})
           between == <<KernelDone, b1, c, b2>>
<1>1. KernelsFed(first, Window, {"dcontext"} \cup Rows)
  <2>1. KernelsFed(LossGradient, Window, {"activations", "dprojected"} \cup Rows)
    BY LossGradientFed
  <2>2. KernelsFed(<<"projBackward">>, {"dprojected"}, {"dcontext"})
    BY BackwardFed, OneKernelFed
  <2> DEFINE one == <<"projBackward">>
  <2> HIDE DEF one
  <2>3. KernelsFed(LossGradient \o one, Window,
                   ({"activations", "dprojected"} \cup Rows) \cup {"dcontext"})
    BY <2>1, <2>2, KernelsFedThen DEF one
  <2> QED
    BY <2>3 DEF KernelsFed, one
<1>2. KernelsFed(second, {"doutput"} \cup Rows \cup Window, {})
  <2> DEFINE ks == <<"positionGradient", "positionSgd">>
             A == {"doutput"} \cup Rows
  <2>1. KernelsFed(ks, {"dstates"} \cup Window, {}) /\ KernelsFed(StateGradient, A, {"dstates"})
    BY PositionSgdFed, StateGradientFed
  <2> HIDE DEF ks
  <2>2. KernelsFed(StateGradient, A \cup Window, {"dstates"})
    BY <2>1 DEF KernelsFed
  <2>3. KernelsFed(StateGradient \o ks, A \cup Window, {"dstates"} \cup {})
    BY <2>1, <2>2, KernelsFedThen
  <2> QED
    BY <2>3 DEF KernelsFed, ks
<1>3. SelfFed(between, {"dcontext"}, {"doutput"})
  <2>1. /\ {"dcontext", "doutput"} \subseteq Buffers /\ "dcontext" \notin LoraGradients
    BY BufferNames DEF Buffers, LoraGradients
  <2>2. KernelDone \in Barriers /\ b1 \in Barriers /\ b2 \in Barriers
    <3>1. /\ {"dcontext"} \in SUBSET Buffers /\ {"doutput"} \in SUBSET Buffers
          /\ {"C"} \in SUBSET AnyStage /\ {"T"} \in SUBSET AnyStage
          /\ {"CW"} \in SUBSET AnyAccess /\ {"TR"} \in SUBSET AnyAccess
          /\ {"TW"} \in SUBSET AnyAccess /\ {"CR"} \in SUBSET AnyAccess
      BY <2>1 DEF AnyStage, AnyAccess
    <3> QED
      BY <3>1, BarrierIs, CommonBarriers
  <2>3. SelfFed(<<c>>, {"dcontext"}, {"doutput"})
    <3>1. /\ Whole("dcontext") \in Place /\ Whole("dcontext")[1] = "dcontext"
          /\ Whole("doutput") \in Place /\ Whole("doutput")[1] = "doutput"
      BY <2>1, WholePlace
    <3> QED
      BY <2>1, <3>1, CopyFed
  <2>4. SelfFed(<<KernelDone>>, {}, {}) /\ SelfFed(<<b1>>, {}, {}) /\ SelfFed(<<b2>>, {}, {})
    BY <2>2, BarrierFed
  <2> HIDE DEF b1, b2, c
  <2>5. b1 \in Command /\ b2 \in Command /\ c \in Command /\ KernelDone \in Command
    BY <2>2, <2>3, CommandSets DEF SelfFed
  <2>6. SelfFed(<<KernelDone, b1>>, {"dcontext"}, {})
    <3>1. SelfFed(Append(<<KernelDone>>, b1), {}, {} \cup {})
      BY <2>4, <2>5, NextCommand
    <3>2. <<KernelDone, b1>> = Append(<<KernelDone>>, b1)
      OBVIOUS
    <3>3. SelfFed(<<KernelDone, b1>>, {}, {})
      BY <3>1, <3>2
    <3> QED
      BY <3>3, SelfFedWeaker
  <2>7. SelfFed(<<KernelDone, b1, c>>, {"dcontext"}, {"doutput"})
    <3>1. SelfFed(Append(<<KernelDone, b1>>, c), {"dcontext"}, {} \cup {"doutput"})
      BY <2>3, <2>5, <2>6, NextCommand
    <3>2. <<KernelDone, b1, c>> = Append(<<KernelDone, b1>>, c)
      OBVIOUS
    <3> QED
      BY <3>1, <3>2
  <2>8. SelfFed(<<KernelDone, b1, c, b2>>, {"dcontext"}, {"doutput"})
    <3>1. SelfFed(Append(<<KernelDone, b1, c>>, b2), {"dcontext"}, {"doutput"} \cup {})
      BY <2>4, <2>5, <2>7, NextCommand
    <3>2. <<KernelDone, b1, c, b2>> = Append(<<KernelDone, b1, c>>, b2)
      OBVIOUS
    <3> QED
      BY <3>1, <3>2
  <2> QED
    BY <2>8
<1>4. train_positions_sgd = LoadWindow \o Run(first) \o between \o Run(second)
  BY DEF train_positions_sgd
<1> HIDE DEF first, second, between
<1>5. SelfFed(LoadWindow \o Run(first), {}, Window \cup ({"dcontext"} \cup Rows))
  BY <1>1, LoadAndRunFed
<1> DEFINE p == LoadWindow \o Run(first)
           B == Window \cup ({"dcontext"} \cup Rows)
<1>6. SelfFed(p, {}, B) /\ {"dcontext"} \subseteq B
  BY <1>5
<1> HIDE DEF p
<1>7. SelfFed(p \o between, {}, B \cup {"doutput"})
  BY <1>3, <1>6, NextPiece
<1>8. SelfFed(Run(second), {"doutput"} \cup Rows \cup Window, {})
  BY <1>2, RunFed
<1>9. SelfFed((p \o between) \o Run(second), {}, (B \cup {"doutput"}) \cup {})
  <2>1. {"doutput"} \cup Rows \cup Window \subseteq B \cup {"doutput"}
    OBVIOUS
  <2> QED
    BY <1>7, <1>8, <2>1, NextPiece
<1>10. SelfFed(train_positions_sgd, {}, (B \cup {"doutput"}) \cup {})
  BY <1>4, <1>9 DEF p
<1> QED
  BY <1>10, SelfFedWeaker

\* One piece more, of which E is kept.
LEMMA KeepPiece ==
  ASSUME NEW p, NEW B, SelfFed(p, {}, B), NEW q, NEW C, NEW D, SelfFed(q, C, D), C \subseteq B,
         NEW E, E \subseteq B \cup D
  PROVE  SelfFed(p \o q, {}, E)
<1>1. SelfFed(p \o q, {}, B \cup D)
  BY NextPiece
<1>2. {} \subseteq {} \cup Ready /\ E \subseteq {} \cup (B \cup D) \cup Ready
  OBVIOUS
<1> QED
  BY <1>1, <1>2, SelfFedWeaker

LEMMA PositionsStartFed ==
  LET start == <<Barrier(AnyStage, {"T"}, AnyAccess, {"TW"}, {}),
                 Barrier(AnyStage, {"T"}, {"CR", "TW"}, {"TW"}, {"tokens", "targets", "mask"})>>
  IN  SelfFed(start \o CopyWindow \o StagingBarrier({"TR"}, {"TW"}) \o <<UploadDone>>, {}, Window)
<1> DEFINE b1 == Barrier(AnyStage, {"T"}, AnyAccess, {"TW"}, {})
           b2 == Barrier(AnyStage, {"T"}, {"CR", "TW"}, {"TW"}, {"tokens", "targets", "mask"})
           b3 == Barrier({"T"}, {"T"}, {"TR"}, {"TW"}, {"trainingStaging"})
           start == <<b1, b2>>
<1>1. b1 \in Barriers /\ b2 \in Barriers /\ b3 \in Barriers /\ UploadDone \in Barriers
  <2>1. {"tokens", "targets", "mask"} \in SUBSET Buffers /\ {} \in SUBSET Buffers
    BY BufferNames DEF Buffers
  <2>2. /\ AnyStage \in SUBSET AnyStage /\ {"T"} \in SUBSET AnyStage
        /\ AnyAccess \in SUBSET AnyAccess /\ {"TW"} \in SUBSET AnyAccess
        /\ {"CR", "TW"} \in SUBSET AnyAccess /\ {"TR"} \in SUBSET AnyAccess
    BY DEF AnyStage, AnyAccess
  <2> QED
    BY <2>1, <2>2, BarrierIs, CommonBarriers
<1>2. StagingBarrier({"TR"}, {"TW"}) = <<b3>>
  BY DEF StagingBarrier
<1> HIDE DEF b1, b2, b3
<1>3. /\ SelfFed(<<b1>>, {}, {}) /\ SelfFed(<<b2>>, {}, {}) /\ SelfFed(<<b3>>, {}, {})
      /\ SelfFed(<<UploadDone>>, {}, {})
  BY <1>1, BarrierFed
<1>4. SelfFed(start, {}, {})
  <2>1. b2 \in Command
    BY <1>1, CommandSets
  <2>2. SelfFed(Append(<<b1>>, b2), {}, {} \cup {})
    BY <1>3, <2>1, NextCommand
  <2>3. <<b1, b2>> = Append(<<b1>>, b2)
    OBVIOUS
  <2> QED
    BY <2>2, <2>3
<1> HIDE DEF start
<1>5. SelfFed(start \o CopyWindow, {}, Window)
  BY <1>4, WindowFed, KeepPiece
<1>6. SelfFed(start \o CopyWindow \o <<b3>>, {}, Window)
  BY <1>3, <1>5, KeepPiece
<1>7. SelfFed(start \o CopyWindow \o <<b3>> \o <<UploadDone>>, {}, Window)
  BY <1>3, <1>6, KeepPiece
<1> QED
  BY <1>2, <1>7 DEF start, b1, b2

LEMMA PositionsAdamwFed ==
  SelfFed(train_positions_adamw, {}, {})
<1> DEFINE start == <<Barrier(AnyStage, {"T"}, AnyAccess, {"TW"}, {}),
                      Barrier(AnyStage, {"T"}, {"CR", "TW"}, {"TW"}, {"tokens", "targets", "mask"})>>
           rms == <<"forward", "rmsFixed">>
           loss == <<"lmHeadForward", "loss", "lmBackward", "ffnBackward">>
           grads == <<"ffnGradient", "rmsDgamma", "rmsBackwardState">>
           states == StateGradient \o <<"positionGradient">>
           update == <<"gammaAdamw", "ffnW1Adamw", "ffnB1Adamw", "ffnW2Adamw", "ffnB2Adamw",
                       "positionAdamw">>
           done == <<KernelDone>>
           E0 == {"states", "activations", "rmsRaw", "rmsInv"} \cup Rows \cup Window
           E1 == E0 \cup {"ffnOutput"}
           E2 == E1 \cup {"projected"}
           E3 == E2 \cup {"dprojected", "ffnDx"}
           E4 == E3 \cup {"gammaGradient", "rmsDx"} \cup FfnGradients
           E5 == E4 \cup {"dcontext"}
           E6 == E5 \cup {"doutput"}
           E7 == E6 \cup {"dstates", "positionGradient"}
           loaded == start \o CopyWindow \o StagingBarrier({"TR"}, {"TW"}) \o <<UploadDone>>
           front == loaded \o Run(rms) \o done \o CarryOver("states", "gammaInput")
                    \o Do("ffnForward") \o done
           middle == front \o CarryOver("ffnOutput", "projected") \o Run(loss) \o done
                     \o CarryOver("ffnDx", "dprojected") \o Run(grads) \o done
           back == middle \o CarryOver("rmsDx", "dprojected") \o Do("projBackward") \o done
                   \o CarryOver("dcontext", "doutput") \o Run(states) \o done
                   \o CarryOver("dstates", "gammaInput")
<1>1. train_positions_adamw = back \o Run(update)
  BY DEF train_positions_adamw
<1>2. SelfFed(loaded, {}, Window)
  BY PositionsStartFed
<1>3. SelfFed(done, {}, {})
  BY CommonBarriers, BarrierFed
<1>4. \A b, d \in {"states", "gammaInput", "ffnOutput", "projected", "ffnDx", "dprojected", "rmsDx",
                   "dcontext", "doutput", "dstates"} : SelfFed(CarryOver(b, d), {b}, {d})
  <2>1. {"states", "gammaInput", "ffnOutput", "projected", "ffnDx", "dprojected", "rmsDx",
         "dcontext", "doutput", "dstates"} \subseteq Buffers \ LoraGradients
    BY BufferNames DEF Buffers, LoraGradients
  <2> QED
    BY <2>1, CarryOverFed
<1>5. /\ SelfFed(Run(rms), Window, {"states", "activations", "rmsRaw", "rmsInv"} \cup Rows)
      /\ SelfFed(Run(loss), {"projected", "activations"} \cup Window, {"dprojected", "ffnDx"})
      /\ SelfFed(Run(grads), {"activations", "dprojected", "rmsRaw", "rmsInv"} \cup Window,
                 {"gammaGradient", "rmsDx"} \cup FfnGradients)
      /\ SelfFed(Run(update), {"gammaGradient", "positionGradient"} \cup FfnGradients \cup Window, {})
  BY RmsFed, FfnLossFed, FfnGradientsFed, AdamwFed, RunFed
<1>6. /\ SelfFed(Do("ffnForward"), {"activations"} \cup Window, {"ffnOutput"})
      /\ SelfFed(Do("projBackward"), {"dprojected"}, {"dcontext"})
  BY FfnFed, BackwardFed, DoFed
<1>7. SelfFed(Run(states), {"doutput"} \cup Rows \cup Window, {"dstates", "positionGradient"})
  <2> DEFINE one == <<"positionGradient">>
             A == {"doutput"} \cup Rows
  <2>1. /\ KernelsFed(one, {"dstates"} \cup Window, {"positionGradient"})
        /\ KernelsFed(StateGradient, A, {"dstates"})
    BY BackwardFed, OneKernelFed, StateGradientFed
  <2> HIDE DEF one
  <2>2. KernelsFed(StateGradient, A \cup Window, {"dstates"})
    BY <2>1 DEF KernelsFed
  <2>3. KernelsFed(StateGradient \o one, A \cup Window, {"dstates"} \cup {"positionGradient"})
    BY <2>1, <2>2, KernelsFedThen
  <2>4. {"dstates"} \cup {"positionGradient"} = {"dstates", "positionGradient"}
    OBVIOUS
  <2>5. KernelsFed(StateGradient \o one, A \cup Window, {"dstates", "positionGradient"})
    BY <2>3, <2>4
  <2> QED
    BY <2>5, RunFed DEF one
<1> HIDE DEF start, rms, loss, grads, states, update, done, loaded
<1>8. SelfFed(front, {}, E1)
  <2>1. SelfFed(loaded \o Run(rms), {}, E0)
    BY <1>2, <1>5, KeepPiece
  <2>2. SelfFed(loaded \o Run(rms) \o done, {}, E0)
    BY <1>3, <2>1, KeepPiece
  <2>3. SelfFed(loaded \o Run(rms) \o done \o CarryOver("states", "gammaInput"), {}, E0)
    <3>1. SelfFed(CarryOver("states", "gammaInput"), {"states"}, {"gammaInput"})
      BY <1>4
    <3> QED
      BY <2>2, <3>1, KeepPiece
  <2>4. SelfFed(loaded \o Run(rms) \o done \o CarryOver("states", "gammaInput") \o Do("ffnForward"),
                {}, E1)
    BY <1>6, <2>3, KeepPiece
  <2> QED
    BY <1>3, <2>4, KeepPiece
<1> HIDE DEF front
<1>9. SelfFed(middle, {}, E4)
  <2>1. SelfFed(front \o CarryOver("ffnOutput", "projected"), {}, E2)
    <3>1. SelfFed(CarryOver("ffnOutput", "projected"), {"ffnOutput"}, {"projected"})
      BY <1>4
    <3> QED
      BY <1>8, <3>1, KeepPiece
  <2>2. SelfFed(front \o CarryOver("ffnOutput", "projected") \o Run(loss), {}, E3)
    BY <1>5, <2>1, KeepPiece
  <2>3. SelfFed(front \o CarryOver("ffnOutput", "projected") \o Run(loss) \o done, {}, E3)
    BY <1>3, <2>2, KeepPiece
  <2>4. SelfFed(front \o CarryOver("ffnOutput", "projected") \o Run(loss) \o done
                  \o CarryOver("ffnDx", "dprojected"), {}, E3)
    <3>1. SelfFed(CarryOver("ffnDx", "dprojected"), {"ffnDx"}, {"dprojected"})
      BY <1>4
    <3> QED
      BY <2>3, <3>1, KeepPiece
  <2>5. SelfFed(front \o CarryOver("ffnOutput", "projected") \o Run(loss) \o done
                  \o CarryOver("ffnDx", "dprojected") \o Run(grads), {}, E4)
    BY <1>5, <2>4, KeepPiece
  <2> QED
    BY <1>3, <2>5, KeepPiece
<1> HIDE DEF middle
<1>10. SelfFed(back, {}, E7)
  <2>1. SelfFed(middle \o CarryOver("rmsDx", "dprojected"), {}, E4)
    <3>1. SelfFed(CarryOver("rmsDx", "dprojected"), {"rmsDx"}, {"dprojected"})
      BY <1>4
    <3> QED
      BY <1>9, <3>1, KeepPiece
  <2>2. SelfFed(middle \o CarryOver("rmsDx", "dprojected") \o Do("projBackward"), {}, E5)
    BY <1>6, <2>1, KeepPiece
  <2>3. SelfFed(middle \o CarryOver("rmsDx", "dprojected") \o Do("projBackward") \o done, {}, E5)
    BY <1>3, <2>2, KeepPiece
  <2>4. SelfFed(middle \o CarryOver("rmsDx", "dprojected") \o Do("projBackward") \o done
                  \o CarryOver("dcontext", "doutput"), {}, E6)
    <3>1. SelfFed(CarryOver("dcontext", "doutput"), {"dcontext"}, {"doutput"})
      BY <1>4
    <3> QED
      BY <2>3, <3>1, KeepPiece
  <2>5. SelfFed(middle \o CarryOver("rmsDx", "dprojected") \o Do("projBackward") \o done
                  \o CarryOver("dcontext", "doutput") \o Run(states), {}, E7)
    BY <1>7, <2>4, KeepPiece
  <2>6. SelfFed(middle \o CarryOver("rmsDx", "dprojected") \o Do("projBackward") \o done
                  \o CarryOver("dcontext", "doutput") \o Run(states) \o done, {}, E7)
    BY <1>3, <2>5, KeepPiece
  <2>7. SelfFed(CarryOver("dstates", "gammaInput"), {"dstates"}, {"gammaInput"})
    BY <1>4
  <2> QED
    BY <2>6, <2>7, KeepPiece
<1> HIDE DEF back
<1>11. {"gammaGradient", "positionGradient"} \cup FfnGradients \cup Window \subseteq E7
  OBVIOUS
<1> HIDE DEF E7
<1>12. SelfFed(back \o Run(update), {}, {})
  BY <1>5, <1>10, <1>11, KeepPiece
<1> QED
  BY <1>1, <1>12

================================================================================
