-------------------------- MODULE NativeSessionsProofs --------------------------
(***************************************************************************)
(* Theorems about the client of the native training API: a persistent Tiny *)
(* graph or a standalone trainer, for every MaxStep, MaxCalls and trainer, *)
(* and any order of the calls.                                             *)
(*                                                                         *)
(* A graph: what is known of the outcomes of every operation (Known), and  *)
(* the invariant that follows (GraphInv).  The gradients a LoRA            *)
(* accumulation is made in reach nothing but themselves and parameters;    *)
(* while one runs, nothing of what they were allocated with is left; and   *)
(* a checkpoint that was read whole holds every group but the moments of   *)
(* the positions.  A trainer: TrainerInv.  A session: both.                *)
(***************************************************************************)
EXTENDS NativeSessions, TinyGraphProofs

-----------------------------------------------------------------------------
\* All calls

\* What is known of the outcomes of operation o.
Known(o, needs, outcome) ==
  /\ outcome.ok \in BOOLEAN /\ outcome.effect \in Effect
  /\ outcome.effect.step = "count" => "step" \in needs \/ o = "finalize_lora_adamw"
  /\ o = "update_base_checkpoint" => "checkpoint" \in needs
  /\ ~ outcome.ok /\ o \notin SeveralWrites =>
       /\ DOMAIN outcome.effect.flow \cap Parameters = {}
       /\ outcome.effect.accumulating = "keep"
       /\ outcome.effect.step = "keep" \/ o = "finalize_lora_adamw"
  /\ outcome.effect.reset =>
       /\ outcome.effect.read \cap Parameters \subseteq Groups
       /\ outcome.ok => Groups \ Unread \subseteq outcome.effect.read
       /\ o # "update_base_checkpoint"
  /\ o = "update_base_checkpoint" /\ outcome.ok =>
       /\ outcome.effect.step = "set"
       /\ Groups \ Unread \subseteq DOMAIN outcome.effect.flow
  /\ outcome.effect.accumulating = "begin" =>
       /\ LoraGradients \subseteq DOMAIN outcome.effect.flow
       /\ \A b \in LoraGradients : outcome.effect.flow[b] = {}
  /\ o \in {"finalize_lora_sgd", "finalize_lora_adamw"} => "accumulating" \in needs

Fits(o, op) == \A outcome \in Outcomes(op) : Known(o, op.needs, outcome)

Special == {"update_base_checkpoint", "finalize_lora_sgd", "finalize_lora_adamw"}

LEMMA OrdinaryFits ==
  ASSUME NEW op, Ordinary(op), NEW o, o \notin Special
  PROVE  Fits(o, op)
<1> SUFFICES ASSUME NEW outcome \in Outcomes(op) PROVE Known(o, op.needs, outcome)
  BY DEF Fits
<1>1. outcome.ok \in BOOLEAN /\ outcome.effect \in Modest /\ (~ outcome.ok => outcome.effect \in Quiet)
  BY DEF Ordinary
<1>2. /\ outcome.effect \in Effect /\ ~ outcome.effect.reset
      /\ outcome.effect.accumulating # "begin" /\ outcome.effect.step # "count"
  BY <1>1 DEF Modest, Tame
<1>3. ~ outcome.ok => /\ DOMAIN outcome.effect.flow \cap Parameters = {}
                      /\ outcome.effect.accumulating = "keep" /\ outcome.effect.step = "keep"
  BY <1>1 DEF Quiet
<1> QED
  BY <1>1, <1>2, <1>3 DEF Known, Special

LEMMA ModerateFits ==
  ASSUME NEW op, Moderate(op), NEW o, o \notin Special, o \in SeveralWrites
  PROVE  Fits(o, op)
<1> SUFFICES ASSUME NEW outcome \in Outcomes(op) PROVE Known(o, op.needs, outcome)
  BY DEF Fits
<1>1. outcome.ok \in BOOLEAN /\ outcome.effect \in Modest
  BY DEF Moderate
<1>2. /\ outcome.effect \in Effect /\ ~ outcome.effect.reset
      /\ outcome.effect.accumulating # "begin" /\ outcome.effect.step # "count"
  BY <1>1 DEF Modest, Tame
<1> QED
  BY <1>1, <1>2 DEF Known, Special

LEMMA GroupTrainingFits == \A o \in DOMAIN GroupTraining : Fits(o, GroupTraining[o])
<1>0. DOMAIN GroupTraining \cap Special = {}
  BY GroupTrainingNames DEF Special
<1>1. ASSUME NEW o \in DOMAIN GroupTraining \ GroupOptimizers PROVE Fits(o, GroupTraining[o])
  BY <1>0, GroupTrainingIs, OrdinaryFits
<1>2. ASSUME NEW o \in GroupOptimizers PROVE Fits(o, GroupTraining[o])
  <2> DEFINE op == GroupTraining[o]
  <2>1. Stepping(op) /\ op.needs = {"step"} /\ o \notin Special
    BY <1>0, GroupTrainingIs
  <2> HIDE DEF op
  <2>2. ASSUME NEW outcome \in Outcomes(op) PROVE Known(o, op.needs, outcome)
    <3>1. outcome.ok \in BOOLEAN /\ outcome.effect \in Tame
          /\ (~ outcome.ok => outcome.effect \in Quiet)
      BY <2>1 DEF Stepping
    <3>2. outcome.effect \in Effect /\ ~ outcome.effect.reset /\ outcome.effect.accumulating # "begin"
      BY <3>1 DEF Tame
    <3>3. ~ outcome.ok => /\ DOMAIN outcome.effect.flow \cap Parameters = {}
                          /\ outcome.effect.accumulating = "keep" /\ outcome.effect.step = "keep"
      BY <3>1 DEF Quiet
    <3> QED
      BY <2>1, <3>1, <3>2, <3>3 DEF Known, Special
  <2> QED
    BY <2>2 DEF Fits, op
<1> QED
  BY <1>1, <1>2

LEMMA LoraTrainingFits == \A o \in DOMAIN LoraTraining : Fits(o, LoraTraining[o])
<1>1. ASSUME NEW o \in {"token_step_training", "token_step_training_backward_accumulate",
                        "token_windows_training_backward_accumulate"}
      PROVE  Fits(o, LoraTraining[o])
  <2>1. o \notin Special
    BY <1>1 DEF Special
  <2> QED
    BY <2>1, LoraTrainingIs, OrdinaryFits
<1>2. Fits("token_step_training_backward", LoraTraining["token_step_training_backward"])
  <2>1. "token_step_training_backward" \notin Special
        /\ "token_step_training_backward" \in SeveralWrites
    BY DEF Special, SeveralWrites
  <2> QED
    BY <2>1, LoraTrainingIs, ModerateFits
<1>3. Fits("finalize_lora_sgd", LoraTraining["finalize_lora_sgd"])
  <2> DEFINE op == LoraTraining["finalize_lora_sgd"]
  <2>1. Ordinary(op) /\ op.needs = {"accumulating"}
    BY LoraTrainingIs
  <2> HIDE DEF op
  <2>2. ASSUME NEW outcome \in Outcomes(op) PROVE Known("finalize_lora_sgd", op.needs, outcome)
    <3>1. outcome.ok \in BOOLEAN /\ outcome.effect \in Modest
          /\ (~ outcome.ok => outcome.effect \in Quiet)
      BY <2>1 DEF Ordinary
    <3>2. /\ outcome.effect \in Effect /\ ~ outcome.effect.reset
          /\ outcome.effect.accumulating # "begin" /\ outcome.effect.step # "count"
      BY <3>1 DEF Modest, Tame
    <3>3. ~ outcome.ok => /\ DOMAIN outcome.effect.flow \cap Parameters = {}
                          /\ outcome.effect.accumulating = "keep" /\ outcome.effect.step = "keep"
      BY <3>1 DEF Quiet
    <3> QED
      BY <2>1, <3>1, <3>2, <3>3 DEF Known
  <2> QED
    BY <2>2 DEF Fits, op
<1>4. Fits("finalize_lora_adamw", LoraTraining["finalize_lora_adamw"])
  <2> DEFINE op == LoraTraining["finalize_lora_adamw"]
  <2>1. Counting(op) /\ op.needs = {"accumulating"}
    BY LoraTrainingIs
  <2> HIDE DEF op
  <2>2. ASSUME NEW outcome \in Outcomes(op) PROVE Known("finalize_lora_adamw", op.needs, outcome)
    <3>1. outcome.ok \in BOOLEAN /\ outcome.effect \in Tame
      BY <2>1 DEF Counting
    <3>2. outcome.effect \in Effect /\ ~ outcome.effect.reset /\ outcome.effect.accumulating # "begin"
      BY <3>1 DEF Tame
    <3>3. ~ outcome.ok => /\ DOMAIN outcome.effect.flow \cap Parameters = {}
                          /\ outcome.effect.accumulating = "keep"
      BY <2>1 DEF Counting
    <3> QED
      BY <2>1, <3>1, <3>2, <3>3 DEF Known
  <2> QED
    BY <2>2 DEF Fits, op
<1>5. Fits("begin_lora_accumulation", LoraTraining["begin_lora_accumulation"])
  <2> DEFINE op == LoraTraining["begin_lora_accumulation"]
  <2>1. Beginning(op)
    BY LoraTrainingIs
  <2> HIDE DEF op
  <2>2. ASSUME NEW outcome \in Outcomes(op) PROVE Known("begin_lora_accumulation", op.needs, outcome)
    <3>1. /\ outcome.ok \in BOOLEAN /\ outcome.effect \in Effect /\ ~ outcome.effect.reset
          /\ outcome.effect.step = "keep"
          /\ outcome.ok => /\ LoraGradients \subseteq DOMAIN outcome.effect.flow
                           /\ \A b \in LoraGradients : outcome.effect.flow[b] = {}
          /\ ~ outcome.ok => outcome.effect \in Quiet
      BY <2>1 DEF Beginning
    <3>2. ~ outcome.ok => /\ DOMAIN outcome.effect.flow \cap Parameters = {}
                          /\ outcome.effect.accumulating = "keep" /\ outcome.effect.step = "keep"
      BY <3>1 DEF Quiet
    <3> QED
      BY <3>1, <3>2 DEF Known
  <2> QED
    BY <2>2 DEF Fits, op
<1> QED
  BY <1>1, <1>2, <1>3, <1>4, <1>5, LoraTrainingNames

LEMMA OthersFit ==
  /\ \A o \in DOMAIN Inferring : Fits(o, Inferring[o])
  /\ \A o \in DOMAIN Staged : Fits(o, Staged[o])
<1>1. DOMAIN Inferring \cap Special = {} /\ DOMAIN Staged \cap Special = {}
  BY DEF Inferring, Staged, Special
<1> QED
  BY <1>1, InferringIs, StagedIs, OrdinaryFits

LEMMA RestoringFits == \A o \in DOMAIN Restoring : Fits(o, Restoring[o])
<1>1. ASSUME NEW o \in {"import_base_train_embeddings", "import_base_train_positions",
                        "import_base_train_lm_head", "import_base_train_output",
                        "update_trainable_gamma", "update_gamma_state", "update_ffn_state",
                        "update_lora_adapters", "update_lora_adamw_state"}
      PROVE  Fits(o, Restoring[o])
  <2>1. o \notin Special
    BY <1>1 DEF Special
  <2> QED
    BY <2>1, RestoringIs, OrdinaryFits
<1>2. ASSUME NEW o \in Partial PROVE Fits(o, Restoring[o])
  <2>1. o \notin Special /\ o \in SeveralWrites
    BY DEF Special, SeveralWrites, Partial
  <2> QED
    BY <2>1, RestoringIs, ModerateFits
<1>3. Fits("readback_base_checkpoint", Restoring["readback_base_checkpoint"])
  <2> DEFINE op == Restoring["readback_base_checkpoint"]
  <2>1. Saving(op)
    BY RestoringIs
  <2> HIDE DEF op
  <2>2. ASSUME NEW outcome \in Outcomes(op) PROVE Known("readback_base_checkpoint", op.needs, outcome)
    <3>1. /\ outcome.ok \in BOOLEAN /\ outcome.effect \in Reading
          /\ outcome.ok => Groups \ Unread \subseteq outcome.effect.read
      BY <2>1 DEF Saving
    <3>2. /\ outcome.effect \in Effect /\ DOMAIN outcome.effect.flow = {}
          /\ outcome.effect.step = "keep" /\ outcome.effect.accumulating = "keep"
          /\ outcome.effect.read \subseteq Groups \cup {"adamwStep"}
      BY <3>1 DEF Reading
    <3>3. "adamwStep" \notin Parameters
      BY DEF Parameters, Weights, Moments, FfnWeights, LoraAdapters, LoraMoments
    <3> QED
      BY <3>1, <3>2, <3>3 DEF Known
  <2> QED
    BY <2>2 DEF Fits, op
<1>4. Fits("update_base_checkpoint", Restoring["update_base_checkpoint"])
  <2> DEFINE op == Restoring["update_base_checkpoint"]
  <2>1. /\ Moderate(op) /\ op.needs = {"checkpoint"}
        /\ \A outcome \in Outcomes(op) :
             outcome.ok => /\ outcome.effect.step = "set"
                           /\ Groups \ Unread \subseteq DOMAIN outcome.effect.flow
    BY RestoringIs
  <2> HIDE DEF op
  <2>2. ASSUME NEW outcome \in Outcomes(op) PROVE Known("update_base_checkpoint", op.needs, outcome)
    <3>1. outcome.ok \in BOOLEAN /\ outcome.effect \in Modest
      BY <2>1 DEF Moderate
    <3>2. /\ outcome.effect \in Effect /\ ~ outcome.effect.reset
          /\ outcome.effect.accumulating # "begin" /\ outcome.effect.step # "count"
      BY <3>1 DEF Modest, Tame
    <3> QED
      BY <2>1, <3>1, <3>2 DEF Known, SeveralWrites
  <2> QED
    BY <2>2 DEF Fits, op
<1> QED
  BY <1>1, <1>2, <1>3, <1>4, RestoringNames DEF Partial

LEMMA CallsKnown ==
  ASSUME NEW c \in GraphCalls, NEW outcome \in c.outcomes
  PROVE  Known(c.op, c.needs, outcome)
<1> DEFINE tables == {GroupTraining, LoraTraining, Inferring, Staged, Restoring}
           g2 == GroupTraining ++ LoraTraining
           g3 == g2 ++ Inferring
           g4 == g3 ++ Staged
           graph == g4 ++ Restoring
           t2 == {GroupTraining} \cup {LoraTraining}
           t3 == t2 \cup {Inferring}
           t4 == t3 \cup {Staged}
           t5 == t4 \cup {Restoring}
<1>1. PICK o \in DOMAIN graph :
        c = [op |-> o, needs |-> graph[o].needs, outcomes |-> Outcomes(graph[o])]
  BY DEF GraphCalls
<1>2. MergedFrom(g2, t2)
  BY FromItself, OneMore
<1> HIDE DEF g2, t2
<1>3. MergedFrom(g3, t3)
  BY <1>2, OneMore
<1> HIDE DEF g3, t3
<1>4. MergedFrom(g4, t4)
  BY <1>3, OneMore
<1> HIDE DEF g4, t4
<1>5. MergedFrom(graph, t5)
  BY <1>4, OneMore
<1> HIDE DEF graph
<1>6. t5 = tables
  BY DEF t2, t3, t4
<1>7. PICK t \in tables : o \in DOMAIN t /\ graph[o] = t[o]
  BY <1>1, <1>5, <1>6 DEF MergedFrom
<1>8. Fits(o, t[o])
  BY <1>7, GroupTrainingFits, LoraTrainingFits, OthersFit, RestoringFits
<1> QED
  BY <1>1, <1>7, <1>8 DEF Fits

\* Sources of what is on the device.
Sources == {"now", "old"} \cup Scratch

\* The LoRA gradients reach nothing but themselves and the parameters.
GradientsApart ==
  \A b \in Scratch \ LoraGradients : memory[b] \cap LoraGradients = {}

\* While gradients are accumulated, what they were allocated with is gone.
GradientsCleared ==
  accumulating_ => \A b \in LoraGradients : memory[b] \cap LoraGradients = {}

\* A complete checkpoint holds all but the moments of the positions.
CheckpointIsWhole == checkpoint.complete => Groups \ Unread \subseteq checkpoint.read

GraphInv ==
  /\ GraphTypeOK
  /\ GradientsApart
  /\ GradientsCleared
  /\ CheckpointIsWhole
  /\ CheckpointRoundTrip
  /\ AccumulatedSinceBegin

LEMMA SourceNames ==
  /\ LoraGradients \subseteq Scratch
  /\ Scratch \cap Parameters = {}
  /\ {"now", "old"} \cap Scratch = {}
  /\ {"now", "old"} \cap LoraGradients = {}
<1>1. LoraGradients \subseteq Scratch /\ Scratch \cap Parameters = {}
  BY BufferNames DEF LoraGradients
<1>2. {"now", "old"} \cap Scratch = {}
  BY TagsAreNoBuffers
<1> QED
  BY <1>1, <1>2

LEMMA GraphInitInv == GraphInit => GraphInv
<1> SUFFICES ASSUME GraphInit PROVE GraphInv
  OBVIOUS
<1>1. /\ memory = [b \in Scratch |-> IF b \in Uploaded THEN {} ELSE {b}]
      /\ adamwStep_ = 0 /\ accumulating_ = FALSE /\ moved = {} /\ calls = 0
      /\ checkpoint.exists = FALSE /\ checkpoint.complete = FALSE /\ checkpoint.read = {}
      /\ checkpoint.step = 0
      /\ last.op = "create" /\ last.ok = TRUE /\ last.wrote = {} /\ last.reached = {}
  BY DEF GraphInit, NoCheckpoint
<1>2. memory \in [Scratch -> SUBSET ({"now", "old"} \cup Scratch)]
  BY <1>1
<1>3. GraphTypeOK
  <2>1. 0 \in 0 .. MaxStep + 0 /\ 0 \in 0 .. MaxCalls
    BY MaxStepAssumption, MaxCallsAssumption
  <2> QED
    BY <1>1, <1>2, <2>1 DEF GraphTypeOK
<1>4. GradientsApart /\ GradientsCleared /\ CheckpointIsWhole
  BY <1>1 DEF GradientsApart, GradientsCleared, CheckpointIsWhole
<1>5. CheckpointRoundTrip /\ AccumulatedSinceBegin
  BY <1>1 DEF CheckpointRoundTrip, AccumulatedSinceBegin
<1> QED
  BY <1>3, <1>4, <1>5 DEF GraphInv

\* What a call finds on the device.
LEMMA EarlierIs ==
  ASSUME GraphTypeOK, GradientsApart
  PROVE  /\ DOMAIN Earlier = Scratch
         /\ \A b \in Scratch : Earlier[b] \subseteq {"old"} \cup Scratch
         /\ \A b \in Scratch \ LoraGradients : Earlier[b] \cap LoraGradients = {}
         /\ GradientsCleared /\ accumulating_ =>
              \A b \in Scratch : Earlier[b] \cap LoraGradients = {}
<1>1. DOMAIN Earlier = Scratch
      /\ \A b \in Scratch : Earlier[b] = {IF t = "now" THEN "old" ELSE t : t \in memory[b]}
  BY DEF Earlier
<1>2. \A b \in Scratch : memory[b] \subseteq {"now", "old"} \cup Scratch
  BY DEF GraphTypeOK
<1>3. \A b \in Scratch : Earlier[b] \subseteq {"old"} \cup Scratch
  BY <1>1, <1>2
<1>4. ASSUME NEW b \in Scratch, memory[b] \cap LoraGradients = {}
      PROVE  Earlier[b] \cap LoraGradients = {}
  BY <1>1, <1>4, SourceNames
<1>5. \A b \in Scratch \ LoraGradients : Earlier[b] \cap LoraGradients = {}
  BY <1>4 DEF GradientsApart
<1>6. ASSUME GradientsCleared, accumulating_
      PROVE  \A b \in Scratch : Earlier[b] \cap LoraGradients = {}
  <2>1. \A b \in Scratch : memory[b] \cap LoraGradients = {}
    BY <1>6 DEF GradientsCleared, GradientsApart
  <2> QED
    BY <2>1, <1>4
<1> QED
  BY <1>1, <1>3, <1>5, <1>6

\* Where the values come from that an effect leaves.
LEMMA ThroughEarlier ==
  ASSUME GraphTypeOK, GradientsApart, NEW tags, tags \subseteq Tags
  PROVE  /\ Through(Earlier, tags) \subseteq Sources
         /\ tags \cap LoraGradients = {} => Through(Earlier, tags) \cap LoraGradients = {}
         /\ GradientsCleared /\ accumulating_ => Through(Earlier, tags) \cap LoraGradients = {}
<1> DEFINE from(t) == IF t \in DOMAIN Earlier THEN Earlier[t] ELSE {t}
<1>1. Through(Earlier, tags) = UNION {from(t) : t \in tags}
  BY DEF Through
<1>2. \A t \in tags : \/ t \in Scratch /\ from(t) = Earlier[t]
                      \/ t = "now" /\ from(t) = {"now"}
  BY EarlierIs, SourceNames DEF Tags
<1> HIDE DEF from
<1>3. \A t \in tags : from(t) \subseteq Sources
  BY <1>2, EarlierIs DEF Sources
<1>4. ASSUME tags \cap LoraGradients = {}
      PROVE  \A t \in tags : from(t) \cap LoraGradients = {}
  BY <1>2, <1>4, EarlierIs, SourceNames
<1>5. ASSUME GradientsCleared, accumulating_
      PROVE  \A t \in tags : from(t) \cap LoraGradients = {}
  BY <1>2, <1>5, EarlierIs, SourceNames
<1> QED
  BY <1>1, <1>3, <1>4, <1>5

\* A call that is rejected changes nothing, and has not succeeded.
LEMMA RejectKeeps ==
  ASSUME GraphInv, NEW c \in GraphCalls, Reject(c.op)
  PROVE  GraphInv'
<1>0. /\ calls < MaxCalls /\ calls' = calls + 1
      /\ last' = [op |-> c.op, ok |-> FALSE, wrote |-> {}, reached |-> {}]
      /\ memory' = memory /\ adamwStep_' = adamwStep_ /\ accumulating_' = accumulating_
      /\ checkpoint' = checkpoint /\ moved' = moved
  BY DEF Reject
<1>1. /\ last'.op = c.op /\ last'.ok = FALSE /\ last'.wrote = {} /\ last'.reached = {}
  BY <1>0
<1>2. GraphTypeOK'
  <2>1. /\ calls' \in 0 .. MaxCalls
        /\ \A n \in 0 .. MaxStep + calls : n \in 0 .. MaxStep + calls'
    BY <1>0, MaxStepAssumption, MaxCallsAssumption DEF GraphInv, GraphTypeOK
  <2> QED
    BY <1>0, <1>1, <2>1 DEF GraphInv, GraphTypeOK
<1>3. GradientsApart' /\ GradientsCleared' /\ CheckpointIsWhole'
  BY <1>0 DEF GraphInv, GradientsApart, GradientsCleared, CheckpointIsWhole
<1>4. CheckpointRoundTrip' /\ AccumulatedSinceBegin'
  BY <1>0, <1>1 DEF GraphInv, CheckpointRoundTrip, AccumulatedSinceBegin
<1> QED
  BY <1>2, <1>3, <1>4 DEF GraphInv

\* Where the operations of GraphNext lead.
LEMMA CallKeeps ==
  ASSUME GraphInv, NEW c \in GraphCalls, Allowed(c.needs), NEW outcome \in c.outcomes,
         NEW s \in GivenSteps(outcome.effect, c.op), Call(c.op, outcome, s)
  PROVE  GraphInv'
<1> DEFINE e == outcome.effect
           o == c.op
           results == ResultsOf(e)
           all == results ++ Earlier
<1>1. Known(o, c.needs, outcome)
  BY CallsKnown
<1>2. outcome.ok \in BOOLEAN /\ e \in Effect
  BY <1>1 DEF Known
<1>3. /\ calls < MaxCalls /\ calls' = calls + 1
      /\ memory' = [b \in Scratch |-> all[b]]
      /\ last' = [op |-> o, ok |-> outcome.ok, wrote |-> Written(e),
                  reached |-> UNION {results[b] : b \in Written(e)}]
      /\ adamwStep_' = StepAfter(e, o, s)
      /\ accumulating_' = CASE e.accumulating = "keep"  -> accumulating_
                            [] e.accumulating = "begin" -> TRUE
                            [] e.accumulating = "end"   -> FALSE
      /\ checkpoint' = CheckpointAfter(e, outcome.ok)
      /\ moved' = MovedAfter(e, o, Written(e))
  BY DEF Call
<1>4. /\ e.step \in {"keep", "count", "set"} /\ e.accumulating \in {"keep", "begin", "end"}
      /\ e.reset \in BOOLEAN /\ e.flow \in CleanFlows
  BY <1>2 DEF Effect
<1>5. /\ last'.op = o /\ last'.ok = outcome.ok /\ last'.wrote = Written(e)
      /\ last'.reached = UNION {results[b] : b \in Written(e)}
  BY <1>3
<1>6. GraphTypeOK /\ GradientsApart /\ GradientsCleared /\ CheckpointIsWhole
  BY DEF GraphInv
<1> DEFINE quiet == accumulating_
<1>7. /\ DOMAIN results = DOMAIN e.flow
      /\ \A b \in DOMAIN e.flow : results[b] = Through(Earlier, e.flow[b])
  BY DEF ResultsOf
<1>8. /\ \A b \in DOMAIN e.flow : e.flow[b] \subseteq Tags
      /\ \A b \in DOMAIN e.flow \ (LoraGradients \cup Parameters) :
           e.flow[b] \cap LoraGradients = {}
  BY <1>4, CleanFlowsAre, FlowTyped
<1>9. /\ \A b \in DOMAIN e.flow : results[b] \subseteq Sources
      /\ \A b \in DOMAIN e.flow \ (LoraGradients \cup Parameters) :
           results[b] \cap LoraGradients = {}
      /\ accumulating_ => \A b \in DOMAIN e.flow : results[b] \cap LoraGradients = {}
  BY <1>6, <1>7, <1>8, ThroughEarlier
<1>10. \A b \in Scratch : \/ b \in DOMAIN e.flow /\ memory'[b] = results[b]
                          \/ b \notin DOMAIN e.flow /\ memory'[b] = Earlier[b]
  <2>1. /\ \A b \in DOMAIN results : all[b] = results[b]
        /\ \A b \in Scratch : b \notin DOMAIN results => all[b] = Earlier[b]
    <3>1. /\ \A b \in DOMAIN results : all[b] = results[b]
          /\ \A b \in DOMAIN Earlier : b \notin DOMAIN results => all[b] = Earlier[b]
      BY Merged
    <3> QED
      BY <1>6, <3>1, EarlierIs
  <2> HIDE DEF all, results
  <2> QED
    BY <1>3, <1>7, <2>1
<1> HIDE DEF all, results
<1>11. memory' \in [Scratch -> SUBSET Sources]
  <2>1. \A b \in Scratch : Earlier[b] \subseteq Sources
    BY <1>6, EarlierIs DEF Sources
  <2>2. \A b \in Scratch : memory'[b] \subseteq Sources
    BY <1>9, <1>10, <2>1
  <2> QED
    BY <1>3, <2>2
<1>12. adamwStep_' \in 0 .. MaxStep + calls'
  <2>1. /\ adamwStep_ \in 0 .. MaxStep + calls /\ checkpoint.step \in 0 .. MaxStep + calls
        /\ calls \in Nat /\ calls' = calls + 1
    BY <1>3, <1>6 DEF GraphTypeOK
  <2>2. s \in 0 .. MaxStep
    BY MaxStepAssumption DEF GivenSteps
  <2>3. CASE e.step = "keep"
    BY <1>3, <2>1, <2>3, MaxStepAssumption DEF StepAfter
  <2>4. CASE e.step = "count"
    <3>1. adamwStep_' = adamwStep_ + 1
      BY <1>3, <2>4 DEF StepAfter
    <3> QED
      BY <2>1, <3>1, MaxStepAssumption
  <2>5. CASE e.step = "set"
    <3>1. adamwStep_' = checkpoint.step \/ adamwStep_' = s
      BY <1>3, <2>5 DEF StepAfter
    <3> QED
      BY <2>1, <2>2, <3>1, MaxStepAssumption
  <2> QED
    BY <1>4, <2>3, <2>4, <2>5
<1>13. accumulating_' \in BOOLEAN
  BY <1>3, <1>4, <1>6 DEF GraphTypeOK
<1>14. \/ e.reset = FALSE /\ checkpoint' = checkpoint
       \/ /\ e.reset = TRUE
          /\ checkpoint'.exists = TRUE /\ checkpoint'.complete = outcome.ok
          /\ checkpoint'.read = e.read \cap Parameters
          /\ checkpoint'.step = adamwStep_ \/ checkpoint'.step = 0
  BY <1>3, <1>4 DEF CheckpointAfter
<1>15. /\ checkpoint'.read \subseteq Groups /\ checkpoint'.step \in 0 .. MaxStep + calls'
       /\ checkpoint'.complete => checkpoint'.exists
  <2>1. 0 \in 0 .. MaxStep + calls' /\ \A n \in 0 .. MaxStep + calls : n \in 0 .. MaxStep + calls'
    BY <1>3, <1>6, MaxStepAssumption DEF GraphTypeOK
  <2>2. e.reset => e.read \cap Parameters \subseteq Groups
    BY <1>1 DEF Known
  <2> QED
    BY <1>6, <1>14, <2>1, <2>2 DEF GraphTypeOK
<1>16. Written(e) \subseteq Parameters /\ Written(e) \subseteq DOMAIN e.flow
  BY DEF Written
<1>17. moved' \subseteq Parameters
  BY <1>3, <1>6, <1>16 DEF MovedAfter, GraphTypeOK
<1>18. last'.reached \subseteq Sources
  BY <1>5, <1>9, <1>16
<1>19. GraphTypeOK'
  <2>1. calls' \in 0 .. MaxCalls
    BY <1>3, <1>6, MaxCallsAssumption DEF GraphTypeOK
  <2> QED
    BY <1>5, <1>11, <1>12, <1>13, <1>15, <1>16, <1>17, <1>18, <2>1 DEF GraphTypeOK, Sources
<1>20. GradientsApart'
  <2>1. ASSUME NEW b \in Scratch \ LoraGradients PROVE memory'[b] \cap LoraGradients = {}
    <3>1. b \notin LoraGradients \cup Parameters
      BY SourceNames
    <3> QED
      BY <1>6, <1>9, <1>10, <3>1, EarlierIs
  <2> QED
    BY <2>1 DEF GradientsApart
<1>21. GradientsCleared'
  <2> SUFFICES ASSUME accumulating_' PROVE \A b \in LoraGradients : memory'[b] \cap LoraGradients = {}
    BY DEF GradientsCleared
  <2>1. CASE e.accumulating = "begin"
    <3>1. \A b \in LoraGradients : b \in DOMAIN e.flow /\ e.flow[b] = {}
      BY <1>1, <2>1 DEF Known
    <3>2. \A b \in LoraGradients : results[b] = {}
      BY <1>7, <3>1 DEF Through
    <3> QED
      BY <1>10, <3>1, <3>2, SourceNames
  <2>2. CASE e.accumulating = "keep"
    <3>1. accumulating_
      BY <1>3, <2>2
    <3> QED
      BY <1>6, <1>9, <1>10, <3>1, EarlierIs, SourceNames
  <2>3. e.accumulating # "end"
    BY <1>3
  <2> QED
    BY <1>4, <2>1, <2>2, <2>3
<1>22. CheckpointIsWhole'
  <2>1. e.reset /\ outcome.ok => Groups \ Unread \subseteq e.read
    BY <1>1 DEF Known
  <2>2. Groups \subseteq Parameters
    BY DEF Groups
  <2> QED
    BY <1>6, <1>14, <2>1, <2>2 DEF CheckpointIsWhole
<1>23. CheckpointRoundTrip'
  <2> SUFFICES ASSUME o = "update_base_checkpoint", outcome.ok, checkpoint'.complete
               PROVE  moved' \cap Groups \subseteq Unread /\ adamwStep_' = checkpoint'.step
    BY <1>5 DEF CheckpointRoundTrip
  <2>1. /\ ~ e.reset /\ e.step = "set" /\ Groups \ Unread \subseteq DOMAIN e.flow
    BY <1>1 DEF Known
  <2>2. checkpoint' = checkpoint
    BY <1>14, <2>1
  <2>3. Groups \ Unread \subseteq checkpoint.read
    BY <1>6, <2>2 DEF CheckpointIsWhole
  <2>4. Groups \ Unread \subseteq Written(e)
    BY <2>1 DEF Written, Groups
  <2>5. moved' = (moved \ (Written(e) \cap checkpoint.read)) \cup (Written(e) \ checkpoint.read)
    BY <1>3, <2>1 DEF MovedAfter
  <2>6. adamwStep_' = checkpoint.step
    BY <1>3, <2>1 DEF StepAfter
  <2> QED
    BY <2>2, <2>3, <2>4, <2>5, <2>6
<1>24. AccumulatedSinceBegin'
  <2> SUFFICES ASSUME o \in {"finalize_lora_sgd", "finalize_lora_adamw"}
               PROVE  last'.reached \cap LoraGradients = {}
    BY <1>5 DEF AccumulatedSinceBegin
  <2>1. accumulating_
    BY <1>1 DEF Known, Allowed, Accepted
  <2> QED
    BY <1>5, <1>9, <1>16, <2>1
<1> QED
  BY <1>19, <1>20, <1>21, <1>22, <1>23, <1>24 DEF GraphInv

LEMMA GraphNextInv == GraphInv /\ [GraphNext]_graphVars => GraphInv'
<1>1. ASSUME GraphInv, GraphNext PROVE GraphInv'
  <2>1. PICK c \in GraphCalls :
          \/ ~ Accepted(c.needs) /\ Reject(c.op)
          \/ /\ Allowed(c.needs)
             /\ \E outcome \in c.outcomes :
                  \E s \in GivenSteps(outcome.effect, c.op) : Call(c.op, outcome, s)
    BY <1>1 DEF GraphNext
  <2>2. CASE ~ Accepted(c.needs) /\ Reject(c.op)
    BY <1>1, <2>2, RejectKeeps
  <2>3. CASE /\ Allowed(c.needs)
             /\ \E outcome \in c.outcomes :
                  \E s \in GivenSteps(outcome.effect, c.op) : Call(c.op, outcome, s)
    <3>1. PICK outcome \in c.outcomes :
            \E s \in GivenSteps(outcome.effect, c.op) : Call(c.op, outcome, s)
      BY <2>3
    <3>2. PICK s \in GivenSteps(outcome.effect, c.op) : Call(c.op, outcome, s)
      BY <3>1
    <3> QED
      BY <1>1, <2>3, <3>2, CallKeeps
  <2> QED
    BY <2>1, <2>2, <2>3
<1>2. ASSUME GraphInv, UNCHANGED graphVars PROVE GraphInv'
  <2>1. /\ memory' = memory /\ adamwStep_' = adamwStep_ /\ accumulating_' = accumulating_
        /\ checkpoint' = checkpoint /\ moved' = moved /\ last' = last /\ calls' = calls
    BY <1>2 DEF graphVars
  <2>2. GraphTypeOK'
    BY <1>2, <2>1 DEF GraphInv, GraphTypeOK
  <2>3. GradientsApart' /\ GradientsCleared' /\ CheckpointIsWhole'
    BY <1>2, <2>1 DEF GraphInv, GradientsApart, GradientsCleared, CheckpointIsWhole
  <2>4. CheckpointRoundTrip' /\ AccumulatedSinceBegin'
    BY <1>2, <2>1 DEF GraphInv, CheckpointRoundTrip, AccumulatedSinceBegin
  <2> QED
    BY <2>2, <2>3, <2>4 DEF GraphInv
<1> QED
  BY <1>1, <1>2

\* Of the calls of a graph, one that fails has changed nothing that counts.
LEMMA FailedCallKeeps ==
  [GraphNext]_graphVars
    => [calls' # calls /\ ~ last'.ok /\ last'.op \notin SeveralWrites
          => /\ last'.wrote = {}
             /\ accumulating_' = accumulating_
             /\ adamwStep_' = adamwStep_ \/ last'.op = "finalize_lora_adamw"]_graphVars
<1> SUFFICES ASSUME GraphNext, ~ last'.ok, last'.op \notin SeveralWrites
             PROVE  /\ last'.wrote = {}
                    /\ accumulating_' = accumulating_
                    /\ adamwStep_' = adamwStep_ \/ last'.op = "finalize_lora_adamw"
  OBVIOUS
<1>1. PICK c \in GraphCalls :
        \/ ~ Accepted(c.needs) /\ Reject(c.op)
        \/ \E outcome \in c.outcomes :
             \E s \in GivenSteps(outcome.effect, c.op) : Call(c.op, outcome, s)
  BY DEF GraphNext
<1>2. CASE Reject(c.op)
  BY <1>2 DEF Reject
<1>3. CASE \E outcome \in c.outcomes :
             \E s \in GivenSteps(outcome.effect, c.op) : Call(c.op, outcome, s)
  <2>0. PICK outcome \in c.outcomes :
          \E s \in GivenSteps(outcome.effect, c.op) : Call(c.op, outcome, s)
    BY <1>3
  <2>1. PICK s \in GivenSteps(outcome.effect, c.op) : Call(c.op, outcome, s)
    BY <2>0
  <2> DEFINE e == outcome.effect
  <2>2. Known(c.op, c.needs, outcome)
    BY CallsKnown
  <2>a. /\ \E reached : last' = [op |-> c.op, ok |-> outcome.ok, wrote |-> Written(e),
                                 reached |-> reached]
        /\ adamwStep_' = StepAfter(e, c.op, s)
    BY <2>1 DEF Call
  <2>b. accumulating_' = CASE e.accumulating = "keep"  -> accumulating_
                           [] e.accumulating = "begin" -> TRUE
                           [] e.accumulating = "end"   -> FALSE
    BY <2>1 DEF Call
  <2>c. e.accumulating = "keep" => accumulating_' = accumulating_
    BY <2>b
  <2>3. /\ last'.op = c.op /\ last'.ok = outcome.ok /\ last'.wrote = Written(e)
        /\ adamwStep_' = StepAfter(e, c.op, s)
        /\ e.accumulating = "keep" => accumulating_' = accumulating_
    BY <2>a, <2>c
  <2>4. /\ DOMAIN e.flow \cap Parameters = {} /\ e.accumulating = "keep"
        /\ e.step = "keep" \/ c.op = "finalize_lora_adamw"
    BY <2>2, <2>3 DEF Known
  <2>5. Written(e) = {}
    BY <2>4 DEF Written
  <2>6. e.step = "keep" => adamwStep_' = adamwStep_
    BY <2>3 DEF StepAfter
  <2> QED
    BY <2>3, <2>4, <2>5, <2>6
<1> QED
  BY <1>1, <1>2, <1>3

\* A call leaves the step within MaxStep, unless it is finalize_lora_adamw.
LEMMA StepStays ==
  GraphInv /\ [GraphNext]_graphVars
    => [adamwStep_ <= MaxStep /\ adamwStep_' > MaxStep
          => last'.op = "finalize_lora_adamw"]_graphVars
<1> SUFFICES ASSUME GraphInv, GraphNext, adamwStep_ <= MaxStep,
                    last'.op # "finalize_lora_adamw"
             PROVE  ~ adamwStep_' > MaxStep
  OBVIOUS
<1>0. adamwStep_ \in Nat /\ MaxStep \in Nat /\ ~ adamwStep_ > MaxStep
  BY MaxStepAssumption, MaxCallsAssumption DEF GraphInv, GraphTypeOK
<1>1. PICK c \in GraphCalls :
        \/ Reject(c.op)
        \/ /\ Accepted(c.needs)
           /\ \E outcome \in c.outcomes :
                \E s \in GivenSteps(outcome.effect, c.op) : Call(c.op, outcome, s)
  BY DEF GraphNext, Allowed
<1>2. CASE Reject(c.op)
  BY <1>0, <1>2 DEF Reject
<1>3. CASE /\ Accepted(c.needs)
           /\ \E outcome \in c.outcomes :
                \E s \in GivenSteps(outcome.effect, c.op) : Call(c.op, outcome, s)
  <2>0. PICK outcome \in c.outcomes :
          \E s \in GivenSteps(outcome.effect, c.op) : Call(c.op, outcome, s)
    BY <1>3
  <2>1. PICK s \in GivenSteps(outcome.effect, c.op) : Call(c.op, outcome, s)
    BY <2>0
  <2> DEFINE e == outcome.effect
  <2>2. Known(c.op, c.needs, outcome) /\ e.step \in {"keep", "count", "set"}
    BY CallsKnown DEF Known, Effect
  <2>3. /\ \E reached : last' = [op |-> c.op, ok |-> outcome.ok, wrote |-> Written(e),
                                 reached |-> reached]
        /\ adamwStep_' = StepAfter(e, c.op, s)
    BY <2>1 DEF Call
  <2>4. c.op # "finalize_lora_adamw"
    BY <2>3
  <2>5. CASE e.step = "keep"
    BY <1>0, <2>3, <2>5 DEF StepAfter
  <2>6. CASE e.step = "count"
    <3>1. adamwStep_ # MaxStep
      BY <1>3, <2>2, <2>4, <2>6 DEF Known, Accepted
    <3>2. adamwStep_' = adamwStep_ + 1
      BY <2>3, <2>6 DEF StepAfter
    <3> QED
      BY <1>0, <3>1, <3>2
  <2>7. CASE e.step = "set"
    <3>1. CASE c.op = "update_base_checkpoint"
      <4>1. checkpoint.step <= MaxStep /\ checkpoint.step \in Int
        BY <1>3, <2>2, <3>1, MaxStepAssumption, MaxCallsAssumption
           DEF Known, Accepted, GraphInv, GraphTypeOK
      <4>2. adamwStep_' = checkpoint.step
        BY <2>3, <2>7, <3>1 DEF StepAfter
      <4> QED
        BY <1>0, <4>1, <4>2
    <3>2. CASE c.op # "update_base_checkpoint"
      <4>1. adamwStep_' = s /\ s \in {0, MaxStep}
        BY <2>3, <2>7, <3>2 DEF StepAfter, GivenSteps
      <4> QED
        BY <1>0, <4>1
    <3> QED
      BY <3>1, <3>2
  <2> QED
    BY <2>2, <2>5, <2>6, <2>7
<1> QED
  BY <1>1, <1>2, <1>3

-----------------------------------------------------------------------------
\* Sessions

LEMMA SessionsRunGraphs ==
  /\ Init => GraphInit
  /\ [Next]_vars => [GraphNext]_graphVars
<1>1. Init => GraphInit
  BY DEF Init
<1>2. [Next]_vars => [GraphNext]_graphVars
  BY DEF Next, vars
<1> QED
  BY <1>1, <1>2

\* Every state of a graph in a session, however its client orders its calls and
\* wherever they fail (tiny_forward_persistent): GraphInv holds.
THEOREM GraphInvariance == Spec => []GraphInv
  BY SessionsRunGraphs, GraphInitInv, GraphNextInv, PTL DEF Spec

\* The variables of a graph keep their types: in particular a call adds at most
\* one to the AdamW step, which nothing restores above MaxStep, and what buffers
\* hold comes from arguments and buffers.
THEOREM GraphTypes == Spec => []GraphTypeOK
<1>1. GraphInv => GraphTypeOK
  BY DEF GraphInv
<1> QED
  BY <1>1, GraphInvariance, PTL

\* update_base_checkpoint, given what readback_base_checkpoint read without an
\* error, undoes whatever calls came between, those that failed half way
\* included, on every group but the moments of the positions, and restores the
\* step.
THEOREM CheckpointsRoundTrip == Spec => []CheckpointRoundTrip
<1>1. GraphInv => CheckpointRoundTrip
  BY DEF GraphInv
<1> QED
  BY <1>1, GraphInvariance, PTL

\* finalize_lora_sgd and finalize_lora_adamw apply what was added since
\* begin_lora_accumulation cleared the gradients, never what the allocation or
\* an earlier accumulation left in them.
THEOREM GradientsSinceBegin == Spec => []AccumulatedSinceBegin
<1>1. GraphInv => AccumulatedSinceBegin
  BY DEF GraphInv
<1> QED
  BY <1>1, GraphInvariance, PTL

\* Only finalize_lora_adamw, which does not compare the step with UINT32_MAX,
\* counts it past that: no other call does, whatever failed or was restored
\* before it.
THEOREM OnlyLoraOverflows == Spec => OnlyLoraPassesMaxStep
  BY SessionsRunGraphs, GraphInvariance, StepStays, PTL DEF Spec, OnlyLoraPassesMaxStep

\* A call of a graph that fails has written no parameter, left the accumulation
\* and, but for finalize_lora_adamw, not counted a step; operations of several
\* submissions or uploads are left out.
THEOREM FailedCalls == Spec => FailedCallChangesNothing
  BY SessionsRunGraphs, FailedCallKeeps, PTL DEF Spec, FailedCallChangesNothing

-----------------------------------------------------------------------------
\* Calls that train from their own window

OwnWindow == WholeWindow \ DrawsOnEarlierCalls

LEMMA OwnWindowNames ==
  OwnWindow = {"train_lm_head_sgd", "train_output_sgd", "train_positions_sgd",
               "train_lm_head_adamw", "train_output_adamw", "train_positions_adamw"}
BY DEF OwnWindow, WholeWindow, DrawsOnEarlierCalls

LEMMA OwnProgramsFlow ==
  \A p \in {train_lm_head_sgd, train_output_sgd, train_positions_sgd,
            train_lm_head_adamw, train_output_adamw, train_positions_adamw} :
    p \in Seq(Command) /\ OnlyNow(Flow(p))
<1>1. \A p : SelfFed(p, {}, Window) \/ SelfFed(p, {}, {}) => p \in Seq(Command) /\ OnlyNow(Flow(p))
  BY SelfFedFlow DEF SelfFed
<1> QED
  BY <1>1, LmHeadProgramsFed, OutputProgramsFed, PositionsSgdFed, PositionsAdamwFed

\* One flow from the arguments after another is one from the arguments.
LEMMA OnlyNowThen ==
  ASSUME NEW f \in CleanFlows, NEW g \in CleanFlows, OnlyNow(f), OnlyNow(g)
  PROVE  OnlyNow(Then(f, g))
<1>1. "now" \notin DOMAIN f
  <2>1. DOMAIN f \subseteq Buffers \ Given
    BY CleanFlowsAre, FlowTyped
  <2>2. "now" \notin Buffers
    BY TagsAreNoBuffers DEF Buffers, Parameters, Weights, Moments, FfnWeights, LoraAdapters,
                            LoraMoments, Given
  <2> QED
    BY <2>1, <2>2
<1>2. \A b \in DOMAIN g : Through(f, g[b]) \subseteq {"now"}
  BY <1>1 DEF OnlyNow, Through
<1> DEFINE h == Then(f, g)
<1>3. /\ DOMAIN h = DOMAIN f \cup DOMAIN g
      /\ \A b \in DOMAIN g : h[b] = Through(f, g[b])
      /\ \A b \in DOMAIN f \ DOMAIN g : h[b] = f[b]
  BY ThenIs
<1> HIDE DEF h
<1>4. OnlyNow(h)
  BY <1>2, <1>3 DEF OnlyNow
<1> QED
  BY <1>4 DEF h

LEMMA OwnOutcomes ==
  ASSUME NEW p \in Seq(Command), OnlyNow(Flow(p)),
         NEW op \in {SgdStep(p), AdamwStep(p), MayThrow(<<MapMemory, Submits(p)>>)},
         NEW outcome \in Outcomes(op)
  PROVE  OnlyNow(outcome.effect.flow)
<1> DEFINE S == {e \in Effect : OnlyNow(e.flow)}
<1>1. /\ Nothing \in Effect /\ MapMemory \in Effect /\ CountStep \in Effect
      /\ Submits(p) \in Effect /\ Submits(p).flow = Flow(p)
  BY SimpleEffects, Submitting, EffectSets
<1>2. Nothing \in S /\ MapMemory \in S /\ CountStep \in S /\ Submits(p) \in S
  <2>1. /\ DOMAIN Nothing.flow = {} /\ DOMAIN MapMemory.flow = {} /\ DOMAIN CountStep.flow = {}
    BY NoFlow DEF Nothing, MapMemory, CountStep
  <2> QED
    BY <1>1, <2>1 DEF OnlyNow
<1>3. ASSUME NEW e \in S \cap Effect, NEW x \in S \cap Effect PROVE Followed(e, x) \in S
  <2>1. Followed(e, x) \in Effect /\ Followed(e, x).flow = Then(e.flow, x.flow)
    BY FollowedIs
  <2>2. e.flow \in CleanFlows /\ x.flow \in CleanFlows
    BY DEF Effect
  <2> QED
    BY <2>1, <2>2, OnlyNowThen
<1>4. op.effects \in {<<MapMemory, CountStep, Submits(p)>>, <<MapMemory, Submits(p)>>}
  BY DEF SgdStep, AdamwStep, MayThrow, Noexcept, Operation
<1>5. op.effects \in Seq(S)
  <2> HIDE DEF S
  <2>1. CASE op.effects = <<MapMemory, CountStep, Submits(p)>>
    BY <1>2, <2>1
  <2>2. CASE op.effects = <<MapMemory, Submits(p)>>
    BY <1>2, <2>2
  <2> QED
    BY <1>4, <2>1, <2>2
<1>6. op.effects \in Seq(Effect) /\ \A n \in 1 .. Len(op.effects) : op.effects[n] \in S
  <2>1. S \subseteq Effect
    OBVIOUS
  <2> HIDE DEF S
  <2> QED
    BY <1>5, <2>1, ElementOfSeq
<1> HIDE DEF S
<1>7. outcome.effect \in S \cap Effect
  BY <1>2, <1>3, <1>6, OutcomeKeeps
<1> QED
  BY <1>7 DEF S

\* What is in the first table is what is found.
LEMMA FirstFound ==
  ASSUME NEW f, NEW g, NEW x \in DOMAIN f
  PROVE  x \in DOMAIN (f ++ g) /\ (f ++ g)[x] = f[x]
<1>1. DOMAIN (f ++ g) = DOMAIN f \cup DOMAIN g /\ \A y \in DOMAIN f : (f ++ g)[y] = f[y]
  BY Merged
<1> QED
  BY <1>1

LEMMA OwnCalls ==
  ASSUME NEW c \in GraphCalls, c.op \in OwnWindow, NEW outcome \in c.outcomes
  PROVE  OnlyNow(outcome.effect.flow)
<1> DEFINE g2 == GroupTraining ++ LoraTraining
           g3 == g2 ++ Inferring
           g4 == g3 ++ Staged
           graph == g4 ++ Restoring
           op == GroupTraining[c.op]
<1>1. PICK o \in DOMAIN graph :
        c = [op |-> o, needs |-> graph[o].needs, outcomes |-> Outcomes(graph[o])]
  BY DEF GraphCalls
<1>2. c.op = o /\ outcome \in Outcomes(graph[c.op])
  BY <1>1
<1>3. c.op \in DOMAIN GroupTraining
  BY OwnWindowNames, GroupTrainingNames
<1>4. c.op \in DOMAIN g2 /\ g2[c.op] = op
  BY <1>3, FirstFound
<1> HIDE DEF g2, op
<1>5. c.op \in DOMAIN g3 /\ g3[c.op] = op
  BY <1>4, FirstFound
<1> HIDE DEF g3
<1>6. c.op \in DOMAIN g4 /\ g4[c.op] = op
  BY <1>5, FirstFound
<1> HIDE DEF g4
<1>7. graph[c.op] = op
  BY <1>6, FirstFound
<1> HIDE DEF graph
<1>8. \E p \in {train_lm_head_sgd, train_output_sgd, train_positions_sgd,
                train_lm_head_adamw, train_output_adamw, train_positions_adamw} :
        op \in {SgdStep(p), AdamwStep(p), MayThrow(<<MapMemory, Submits(p)>>)}
  <2>1. /\ GroupTraining["train_lm_head_sgd"] = SgdStep(train_lm_head_sgd)
        /\ GroupTraining["train_output_sgd"] = SgdStep(train_output_sgd)
        /\ GroupTraining["train_positions_sgd"] = MayThrow(<<MapMemory, Submits(train_positions_sgd)>>)
        /\ GroupTraining["train_lm_head_adamw"] = AdamwStep(train_lm_head_adamw)
        /\ GroupTraining["train_output_adamw"] = AdamwStep(train_output_adamw)
        /\ GroupTraining["train_positions_adamw"] = AdamwStep(train_positions_adamw)
    BY DEF GroupTraining
  <2>2. \/ c.op = "train_lm_head_sgd" \/ c.op = "train_output_sgd" \/ c.op = "train_positions_sgd"
        \/ c.op = "train_lm_head_adamw" \/ c.op = "train_output_adamw"
        \/ c.op = "train_positions_adamw"
    BY OwnWindowNames
  <2> QED
    BY <2>1, <2>2 DEF op
<1>9. PICK p \in {train_lm_head_sgd, train_output_sgd, train_positions_sgd,
                  train_lm_head_adamw, train_output_adamw, train_positions_adamw} :
        op \in {SgdStep(p), AdamwStep(p), MayThrow(<<MapMemory, Submits(p)>>)}
  BY <1>8
<1>10. p \in Seq(Command) /\ OnlyNow(Flow(p))
  BY OwnProgramsFlow
<1>11. outcome \in Outcomes(op)
  BY <1>2, <1>7
<1> QED
  BY <1>9, <1>10, <1>11, OwnOutcomes

\* What such a call leaves was computed from its arguments.
LEMMA ThroughNow ==
  ASSUME NEW tags, tags \subseteq {"now"}
  PROVE  Through(Earlier, tags) \subseteq {"now"}
<1>1. "now" \notin DOMAIN Earlier
  BY TagsAreNoBuffers DEF Earlier
<1> QED
  BY <1>1 DEF Through

LEMMA OwnWindowInit == GraphInit => UpdatesFromThisWindowElsewhere
BY DEF GraphInit, UpdatesFromThisWindowElsewhere, WholeWindow

LEMMA OwnWindowNext ==
  UpdatesFromThisWindowElsewhere /\ [GraphNext]_graphVars => UpdatesFromThisWindowElsewhere'
<1>1. ASSUME GraphNext PROVE UpdatesFromThisWindowElsewhere'
  <2> SUFFICES ASSUME last'.op \in OwnWindow PROVE last'.reached \subseteq {"now"}
    BY DEF UpdatesFromThisWindowElsewhere, OwnWindow
  <2>1. PICK c \in GraphCalls :
          \/ ~ Accepted(c.needs) /\ Reject(c.op)
          \/ \E outcome \in c.outcomes :
               \E s \in GivenSteps(outcome.effect, c.op) : Call(c.op, outcome, s)
    BY <1>1 DEF GraphNext
  <2>2. CASE Reject(c.op)
    BY <2>2 DEF Reject
  <2>3. CASE \E outcome \in c.outcomes :
               \E s \in GivenSteps(outcome.effect, c.op) : Call(c.op, outcome, s)
    <3>1. PICK outcome \in c.outcomes :
            \E s \in GivenSteps(outcome.effect, c.op) : Call(c.op, outcome, s)
      BY <2>3
    <3>2. PICK s \in GivenSteps(outcome.effect, c.op) : Call(c.op, outcome, s)
      BY <3>1
    <3> DEFINE e == outcome.effect
               results == ResultsOf(e)
    <3>3. last' = [op |-> c.op, ok |-> outcome.ok, wrote |-> Written(e),
                   reached |-> UNION {results[b] : b \in Written(e)}]
      BY <3>2 DEF Call
    <3>4. \A b \in DOMAIN e.flow : results[b] = Through(Earlier, e.flow[b])
      BY DEF ResultsOf
    <3> HIDE DEF results
    <3>5. last'.op = c.op /\ last'.reached = UNION {results[b] : b \in Written(e)}
      BY <3>3
    <3>6. OnlyNow(e.flow)
      BY <3>5, OwnCalls
    <3>7. \A b \in Written(e) : b \in DOMAIN e.flow /\ e.flow[b] \subseteq {"now"}
      BY <3>6 DEF OnlyNow, Written
    <3>8. \A b \in Written(e) : results[b] \subseteq {"now"}
      BY <3>4, <3>7, ThroughNow
    <3> QED
      BY <3>5, <3>8
  <2> QED
    BY <2>1, <2>2, <2>3
<1>2. ASSUME UpdatesFromThisWindowElsewhere, UNCHANGED graphVars
      PROVE  UpdatesFromThisWindowElsewhere'
  BY <1>2 DEF graphVars, UpdatesFromThisWindowElsewhere
<1> QED
  BY <1>1, <1>2

\* The SGD and AdamW steps on the head, the output projection and the positions
\* draw their updates from the window they were given: nothing an earlier call
\* left on the device, and nothing that was never written, reaches a parameter.
THEOREM OwnWindows == Spec => []UpdatesFromThisWindowElsewhere
  BY SessionsRunGraphs, OwnWindowInit, OwnWindowNext, PTL DEF Spec

-----------------------------------------------------------------------------
\* A trainer

(* A call adds at most one to the step, which no restore sets above Wrap.   *)
StepGrowsWithCalls == step <= Wrap + clock - 1

(* The copy a readback is answered from is that of the last step; only an   *)
(* upload makes it stale.                                                   *)
CopyIsCurrent ==
  kind # "embedding" /\ ~ fromHost =>
    staged.weight = weight /\ staged.gradient = gradient

TrainerInv ==
  TrainerTypeOK /\ StepGrowsWithCalls /\ CopyIsCurrent /\ ReadbackIsCurrent

-----------------------------------------------------------------------------

(* The invariant holds of a trainer that was just created.                  *)
LEMMA TrainerInitInv == TrainerInit => TrainerInv
<1> SUFFICES ASSUME TrainerInit PROVE TrainerInv
  OBVIOUS
<1> USE WrapAssumption, TrainerCallsAssumption
<1>1. TrainerTypeOK
  BY DEF TrainerInit, TrainerTypeOK, Answer, Versions, Kinds
<1>2. StepGrowsWithCalls
  BY DEF TrainerInit, StepGrowsWithCalls
<1>3. CopyIsCurrent /\ ReadbackIsCurrent
  BY DEF TrainerInit, CopyIsCurrent, ReadbackIsCurrent, Answer
<1>4. QED
  BY <1>1, <1>2, <1>3 DEF TrainerInv

(* An answer without results is one of the type of answers.                 *)
LEMMA AnswerType ==
  ASSUME NEW op \in {"create", "step", "adamw", "update", "update_state",
                     "readback", "readback_state"},
         NEW status \in {0, 1, 2}
  PROVE  Answer(op, status) \in [op : {"create", "step", "adamw", "update", "update_state",
                                       "readback", "readback_state"},
                   status : {0, 1, 2}, weight : Versions, gradient : Versions,
                   moments : Versions, step : 0 .. Wrap + TrainerCalls]
  BY WrapAssumption, TrainerCallsAssumption DEF Answer, Versions

(* Every call, whatever its outcome, keeps the invariant.                   *)
LEMMA TrainerNextInv == TrainerInv /\ [TrainerNext]_trainerVars => TrainerInv'
<1> SUFFICES ASSUME TrainerInv, [TrainerNext]_trainerVars PROVE TrainerInv'
  OBVIOUS
<1> USE WrapAssumption, TrainerCallsAssumption
<1>0. TrainerTypeOK /\ StepGrowsWithCalls /\ CopyIsCurrent /\ ReadbackIsCurrent
  BY DEF TrainerInv
<1>a. clock \in Nat /\ clock >= 1 /\ (Tick => clock' \in Versions \ {0} /\ clock' = clock + 1)
  BY <1>0 DEF TrainerTypeOK, Tick, Versions
<1>b. ASSUME NEW op \in {"step", "adamw", "update", "update_state", "readback",
                         "readback_state"}, MapFails(op)
      PROVE  TrainerInv'
  <2>1. TrainerTypeOK'
    BY <1>0, <1>a, <1>b, AnswerType DEF MapFails, TrainerTypeOK
  <2>2. StepGrowsWithCalls'
    BY <1>0, <1>a, <1>b DEF MapFails, TrainerTypeOK, StepGrowsWithCalls
  <2>3. CopyIsCurrent' /\ ReadbackIsCurrent'
    BY <1>0, <1>b DEF MapFails, CopyIsCurrent, ReadbackIsCurrent, Answer
  <2>4. QED
    BY <2>1, <2>2, <2>3 DEF TrainerInv
<1>1. CASE StandaloneSgdStep
  <2>1. CASE MapFails("step")
    BY <2>1, <1>b
  <2>2. CASE Tick /\ Computed /\ answer' = Answer("step", 0) /\ UNCHANGED <<kind, moments, step>>
    <3>1. TrainerTypeOK'
      BY <1>0, <1>a, <2>2, AnswerType DEF Computed, TrainerTypeOK
    <3>2. StepGrowsWithCalls'
      BY <1>0, <1>a, <2>2 DEF TrainerTypeOK, StepGrowsWithCalls
    <3>3. CopyIsCurrent' /\ ReadbackIsCurrent'
      BY <2>2 DEF Computed, CopyIsCurrent, ReadbackIsCurrent, Answer
    <3>4. QED
      BY <3>1, <3>2, <3>3 DEF TrainerInv
  <2>3. QED
    BY <1>1, <2>1, <2>2 DEF StandaloneSgdStep
<1>2. CASE StandaloneAdamwStep
  <2>1. CASE MapFails("adamw")
    BY <2>1, <1>b
  <2>2. CASE /\ Tick /\ step' = step + 1 /\ Computed /\ moments' = clock'
             /\ answer' = Answer("adamw", 0) /\ UNCHANGED kind
    <3>1. TrainerTypeOK'
      <4>1. step' \in 0 .. Wrap + TrainerCalls
        BY <1>0, <1>a, <2>2 DEF TrainerTypeOK, StepGrowsWithCalls, Versions
      <4>2. QED
        BY <1>0, <1>a, <2>2, <4>1, AnswerType DEF Computed, TrainerTypeOK
    <3>2. StepGrowsWithCalls'
      BY <1>0, <1>a, <2>2 DEF TrainerTypeOK, StepGrowsWithCalls
    <3>3. CopyIsCurrent' /\ ReadbackIsCurrent'
      BY <2>2 DEF Computed, CopyIsCurrent, ReadbackIsCurrent, Answer
    <3>4. QED
      BY <3>1, <3>2, <3>3 DEF TrainerInv
  <2>3. QED
    BY <1>2, <2>1, <2>2 DEF StandaloneAdamwStep
<1>3. CASE UpdateWeight
  <2>1. CASE MapFails("update")
    BY <2>1, <1>b
  <2>2. CASE /\ Tick /\ weight' = clock' /\ fromHost' = TRUE /\ answer' = Answer("update", 0)
             /\ UNCHANGED <<kind, gradient, moments, step, staged>>
    <3>1. TrainerTypeOK'
      BY <1>0, <1>a, <2>2, AnswerType DEF TrainerTypeOK
    <3>2. StepGrowsWithCalls'
      BY <1>0, <1>a, <2>2 DEF TrainerTypeOK, StepGrowsWithCalls
    <3>3. CopyIsCurrent' /\ ReadbackIsCurrent'
      BY <2>2 DEF CopyIsCurrent, ReadbackIsCurrent, Answer
    <3>4. QED
      BY <3>1, <3>2, <3>3 DEF TrainerInv
  <2>3. QED
    BY <1>3, <2>1, <2>2 DEF UpdateWeight
<1>4. CASE \E s \in {0, Wrap - 1, Wrap} : UpdateState(s)
  <2>0. PICK s \in {0, Wrap - 1, Wrap} : UpdateState(s)
    BY <1>4
  <2>1. CASE MapFails("update_state")
    BY <2>1, <1>b
  <2>2. CASE /\ Tick /\ weight' = clock' /\ moments' = clock' /\ fromHost' = TRUE /\ step' = s
             /\ answer' = Answer("update_state", 0) /\ UNCHANGED <<kind, gradient, staged>>
    <3>1. TrainerTypeOK'
      <4>1. step' \in 0 .. Wrap + TrainerCalls
        BY <2>2
      <4>2. QED
        BY <1>0, <1>a, <2>2, <4>1, AnswerType DEF TrainerTypeOK
    <3>2. StepGrowsWithCalls'
      BY <1>a, <2>2 DEF StepGrowsWithCalls
    <3>3. CopyIsCurrent' /\ ReadbackIsCurrent'
      BY <2>2 DEF CopyIsCurrent, ReadbackIsCurrent, Answer
    <3>4. QED
      BY <3>1, <3>2, <3>3 DEF TrainerInv
  <2>3. CASE /\ Tick /\ answer' = Answer("update_state", 1)
             /\ UNCHANGED <<kind, weight, gradient, moments, step, staged, fromHost>>
    <3>1. TrainerTypeOK'
      BY <1>0, <1>a, <2>3, AnswerType DEF TrainerTypeOK
    <3>2. StepGrowsWithCalls'
      BY <1>0, <1>a, <2>3 DEF TrainerTypeOK, StepGrowsWithCalls
    <3>3. CopyIsCurrent' /\ ReadbackIsCurrent'
      BY <1>0, <2>3 DEF CopyIsCurrent, ReadbackIsCurrent, Answer
    <3>4. QED
      BY <3>1, <3>2, <3>3 DEF TrainerInv
  <2>4. QED
    BY <2>0, <2>1, <2>2, <2>3 DEF UpdateState
<1>d. /\ Copied.weight \in Versions /\ Copied.gradient \in Versions
      /\ kind = "embedding" \/ ~ fromHost =>
           Copied.weight = weight /\ Copied.gradient = gradient
  BY <1>0 DEF TrainerTypeOK, CopyIsCurrent, Copied
<1>5. CASE ReadbackWeight
  <2>1. CASE MapFails("readback")
    BY <2>1, <1>b
  <2>2. CASE /\ Tick
             /\ answer' = [Answer("readback", 0) EXCEPT
                              !.weight = Copied.weight, !.gradient = Copied.gradient]
             /\ UNCHANGED <<kind, weight, gradient, moments, step, staged, fromHost>>
    <3>0. /\ answer' = [op |-> "readback", status |-> 0, weight |-> Copied.weight,
                        gradient |-> Copied.gradient, moments |-> 0, step |-> 0]
          /\ Tick
          /\ UNCHANGED <<kind, weight, gradient, moments, step, staged, fromHost>>
      BY <2>2 DEF Answer
    <3>1. TrainerTypeOK'
      <4>1. 0 \in Versions /\ 0 \in 0 .. Wrap + TrainerCalls
        BY DEF Versions
      <4>2. QED
        BY <1>0, <1>a, <1>d, <3>0, <4>1 DEF TrainerTypeOK
    <3>2. StepGrowsWithCalls'
      BY <1>0, <1>a, <3>0 DEF TrainerTypeOK, StepGrowsWithCalls
    <3>3. CopyIsCurrent' /\ ReadbackIsCurrent'
      BY <1>0, <1>d, <3>0 DEF CopyIsCurrent, ReadbackIsCurrent
    <3>4. QED
      BY <3>1, <3>2, <3>3 DEF TrainerInv
  <2>3. QED
    BY <1>5, <2>1, <2>2 DEF ReadbackWeight
<1>6. CASE ReadbackState
  <2>1. CASE MapFails("readback_state")
    BY <2>1, <1>b
  <2>2. CASE /\ Tick
             /\ answer' = [op |-> "readback_state", status |-> 0, weight |-> Copied.weight,
                           gradient |-> Copied.gradient, moments |-> moments, step |-> step]
             /\ UNCHANGED <<kind, weight, gradient, moments, step, staged, fromHost>>
    <3>1. TrainerTypeOK'
      BY <1>0, <1>a, <1>d, <2>2 DEF TrainerTypeOK
    <3>2. StepGrowsWithCalls'
      BY <1>0, <1>a, <2>2 DEF TrainerTypeOK, StepGrowsWithCalls
    <3>3. CopyIsCurrent' /\ ReadbackIsCurrent'
      BY <1>0, <1>d, <2>2 DEF CopyIsCurrent, ReadbackIsCurrent
    <3>4. QED
      BY <3>1, <3>2, <3>3 DEF TrainerInv
  <2>3. QED
    BY <1>6, <2>1, <2>2 DEF ReadbackState
<1>7. CASE UNCHANGED trainerVars
  <2>1. TrainerTypeOK' /\ StepGrowsWithCalls' /\ CopyIsCurrent'
    BY <1>0, <1>7 DEF trainerVars, TrainerTypeOK, StepGrowsWithCalls, CopyIsCurrent
  <2>2. ReadbackIsCurrent'
    BY <1>0, <1>7 DEF trainerVars, ReadbackIsCurrent
  <2>3. QED
    BY <2>1, <2>2 DEF TrainerInv
<1>8. QED
  BY <1>1, <1>2, <1>3, <1>4, <1>5, <1>6, <1>7 DEF TrainerNext

-----------------------------------------------------------------------------

(* A trainer keeps its types whatever its client calls, for any number of   *)
(* calls: in particular its step never leaves the 64 bits it is kept in, by *)
(* more than the number of calls after a restore.                           *)
THEOREM TrainerTypes == TrainerSpec => []TrainerTypeOK
<1>1. TrainerInv => TrainerTypeOK
  BY DEF TrainerInv
<1>2. QED
  BY <1>1, TrainerInitInv, TrainerNextInv, PTL DEF TrainerSpec

(* What a readback of a standalone trainer returns is what is on the device, *)
(* unless a weight was uploaded since the last step.                         *)
THEOREM TrainerReadbacks == TrainerSpec => []ReadbackIsCurrent
<1>1. TrainerInv => ReadbackIsCurrent
  BY DEF TrainerInv
<1>2. QED
  BY <1>1, TrainerInitInv, TrainerNextInv, PTL DEF TrainerSpec

(* Of the calls of a trainer, one that fails has changed nothing.            *)
LEMMA FailureChangesNothing ==
  [TrainerNext]_trainerVars
    => [clock' # clock /\ answer'.status # 0
          => UNCHANGED <<weight, gradient, moments, step>>]_trainerVars
<1> SUFFICES ASSUME TrainerNext, answer'.status # 0
             PROVE  UNCHANGED <<weight, gradient, moments, step>>
  OBVIOUS
<1>1. CASE StandaloneSgdStep
  BY <1>1 DEF StandaloneSgdStep, MapFails, Answer
<1>2. CASE StandaloneAdamwStep
  BY <1>2 DEF StandaloneAdamwStep, MapFails, Answer
<1>3. CASE UpdateWeight
  BY <1>3 DEF UpdateWeight, MapFails, Answer
<1>4. CASE \E s \in {0, Wrap - 1, Wrap} : UpdateState(s)
  BY <1>4 DEF UpdateState, MapFails, Answer
<1>5. CASE ReadbackWeight
  BY <1>5 DEF ReadbackWeight, MapFails
<1>6. CASE ReadbackState
  BY <1>6 DEF ReadbackState, MapFails
<1>7. QED
  BY <1>1, <1>2, <1>3, <1>4, <1>5, <1>6 DEF TrainerNext

(* A step or an update of a trainer that fails, wherever it does, leaves the *)
(* parameters, their moments and the step together as they were.            *)
THEOREM TrainerFailures == TrainerSpec => FailedStepChangesNothing
  BY FailureChangesNothing, PTL DEF TrainerSpec, FailedStepChangesNothing

(* Nothing a client does with a graph reaches a trainer: what holds of a    *)
(* trainer alone holds of one in a session.                                  *)
THEOREM SessionsRunTrainers == Spec => TrainerSpec
<1>1. Init => TrainerInit
  BY DEF Init
<1>2. [Next]_vars => [TrainerNext]_trainerVars
  BY DEF Next, vars
<1>3. QED
  BY <1>1, <1>2, PTL DEF Spec, TrainerSpec

(* In a session every readback of a trainer is current, and no failing call  *)
(* changes what is trained.                                                  *)
THEOREM SessionReadbacks == Spec => []ReadbackIsCurrent /\ FailedStepChangesNothing
  BY SessionsRunTrainers, TrainerReadbacks, TrainerFailures

\* A session keeps the types of whatever handle its client holds.
THEOREM SessionTypes == Spec => []TypeOK
<1> DEFINE OneHandle == handle \in {"graph", "trainer"}
<1>1. Init => OneHandle
  BY DEF Init
<1>2. OneHandle /\ [Next]_vars => OneHandle'
  BY DEF Next, vars
<1>3. OneHandle /\ GraphTypeOK /\ TrainerTypeOK => TypeOK
  BY DEF TypeOK
<1> HIDE DEF OneHandle
<1>4. Spec => []OneHandle
  BY <1>1, <1>2, PTL DEF Spec
<1>5. QED
  BY <1>3, <1>4, GraphTypes, SessionsRunTrainers, TrainerTypes, PTL

================================================================================
