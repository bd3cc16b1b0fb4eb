------------------------------ MODULE GraphSession ------------------------------
(***************************************************************************)
(* A client of one persistent Tiny graph calling the operations of         *)
(* TinyGraph in any order.  Reading a parameter or a gradient back changes *)
(* nothing on the graph and is left to DeviceQueue; reading a checkpoint   *)
(* is an operation here, because what it saved is restored later.          *)
(***************************************************************************)
EXTENDS TinyGraph

VARIABLES
    memory,          \* Scratch -> what the value in the buffer was computed from
    adamwStep_,      \* the step all optimizers of the graph share
    accumulating_,
    checkpoint,      \* the client's BaseCheckpoint
    moved,           \* parameters that may have changed since it was read
    last,            \* the last call: how it ended, what it wrote and from what
    calls            \* number of calls

graphVars == <<memory, adamwStep_, accumulating_, checkpoint, moved, last, calls>>

Groups == Parameters \ (LoraAdapters \cup LoraMoments)

GraphTypeOK ==
    /\ memory \in [Scratch -> SUBSET ({"now", "old"} \cup Scratch)]
    /\ adamwStep_ \in 0 .. MaxStep + calls
    /\ accumulating_ \in BOOLEAN
    /\ checkpoint.read \subseteq Groups /\ checkpoint.step \in 0 .. MaxStep + calls
    /\ checkpoint.complete => checkpoint.exists
    /\ moved \subseteq Parameters
    /\ last.wrote \subseteq Parameters
    /\ last.reached \subseteq {"now", "old"} \cup Scratch
    /\ calls \in 0 .. MaxCalls

-----------------------------------------------------------------------------

NoCheckpoint == [exists |-> FALSE, complete |-> FALSE, read |-> {}, step |-> 0]

\* The constructor: the buffers of initialize's uploads hold values, the others
\* what the allocation left in them.
GraphInit ==
    /\ memory = [b \in Scratch |-> IF b \in Uploaded THEN {} ELSE {b}]
    /\ adamwStep_ = 0
    /\ accumulating_ = FALSE
    /\ checkpoint = NoCheckpoint
    /\ moved = {}
    /\ last = [op |-> "create", ok |-> TRUE, wrote |-> {}, reached |-> {}]
    /\ calls = 0

\* The checks of an operation that depend on the state of the graph; those of
\* the arguments are taken to succeed.  A step that passed MaxStep is only
\* refused in a checkpoint.
Accepted(needs) ==
    /\ "step" \in needs => adamwStep_ # MaxStep
    /\ "accumulating" \in needs => accumulating_
    /\ "checkpoint" \in needs => checkpoint.exists /\ checkpoint.step <= MaxStep

\* token_step_training_backward applies its update in idle mode only; otherwise
\* it adds to the gradients, as token_step_training_backward_accumulate does,
\* which calls it.
Allowed(needs) == Accepted(needs) /\ ("idle" \in needs => ~ accumulating_)

\* What a call finds on the device: nothing there comes from its arguments.
Earlier == [b \in Scratch |-> {IF t = "now" THEN "old" ELSE t : t \in memory[b]}]

\* The step after effect e, where the caller of an update gave step s.
StepAfter(e, o, s) ==
    CASE e.step = "keep"  -> adamwStep_
      [] e.step = "count" -> adamwStep_ + 1
      [] e.step = "set"   -> IF o = "update_base_checkpoint" THEN checkpoint.step ELSE s

\* Mutant: the checkpoint is filled and not marked as there.
CheckpointAfterUnmarked(e, ok) ==
    IF ~ e.reset THEN checkpoint
    ELSE [checkpoint EXCEPT !.complete = ok, !.read = e.read \cap Parameters]

\* readback_base_checkpoint empties the checkpoint, but for its version and its
\* groups, and fills it group by group.
CheckpointAfter(e, ok) ==
    IF ~ e.reset THEN checkpoint
    ELSE [exists |-> TRUE, complete |-> ok, read |-> e.read \cap Parameters,
          step |-> IF "adamwStep" \in e.read THEN adamwStep_ ELSE 0]

\* A restored parameter is what was read, if it was.
MovedAfter(e, o, wrote) ==
    CASE e.reset -> {}
      [] o = "update_base_checkpoint" ->
            (moved \ (wrote \cap checkpoint.read)) \cup (wrote \ checkpoint.read)
      [] OTHER -> IF checkpoint.exists THEN moved \cup wrote ELSE {}

\* What effect e leaves in the buffers it writes, and in all of them.
ResultsOf(e) ==
    LET earlier == Earlier
    IN  [b \in DOMAIN e.flow |-> Through(earlier, e.flow[b])]

Written(e) == DOMAIN e.flow \cap Parameters

\* An operation runs and ends with one of its outcomes.
Call(o, outcome, s) ==
    LET e == outcome.effect
    IN  /\ calls < MaxCalls
        /\ \E results \in {ResultsOf(e)} :
              /\ memory' = LET all == results ++ Earlier IN [b \in Scratch |-> all[b]]
              /\ last' = [op |-> o, ok |-> outcome.ok, wrote |-> Written(e),
                          reached |-> UNION {results[b] : b \in Written(e)}]
        /\ adamwStep_' = StepAfter(e, o, s)
        /\ accumulating_' = CASE e.accumulating = "keep"  -> accumulating_
                              [] e.accumulating = "begin" -> TRUE
                              [] e.accumulating = "end"   -> FALSE
        /\ checkpoint' = CheckpointAfter(e, outcome.ok)
        /\ moved' = MovedAfter(e, o, Written(e))
        /\ calls' = calls + 1

\* The check fails and the call returns 1.
Reject(o) ==
    /\ calls < MaxCalls
    /\ last' = [op |-> o, ok |-> FALSE, wrote |-> {}, reached |-> {}]
    /\ calls' = calls + 1
    /\ UNCHANGED <<memory, adamwStep_, accumulating_, checkpoint, moved>>

\* Steps a client gives to an update; only these are told apart.
GivenSteps(e, o) ==
    IF e.step = "set" /\ o # "update_base_checkpoint" THEN {0, MaxStep} ELSE {0}

GraphNext ==
    \E c \in GraphCalls :
        \/ ~ Accepted(c.needs) /\ Reject(c.op)
        \/ /\ Allowed(c.needs)
           /\ \E outcome \in c.outcomes :
                 \E s \in GivenSteps(outcome.effect, c.op) : Call(c.op, outcome, s)

-----------------------------------------------------------------------------
(* Properties.                                                              *)

\* Operations that are given a whole window and compute gradients from it.
WholeWindow ==
    {"train_lm_head_sgd", "train_output_sgd", "train_qkv_sgd", "train_embeddings_sgd",
     "train_positions_sgd", "train_lm_head_adamw", "train_output_adamw",
     "train_positions_adamw", "token_step_training_backward"}

\* A training call draws its update from its own window alone: nothing an
\* earlier call left on the device, and nothing that was never written, reaches
\* a parameter.
UpdatesFromThisWindow ==
    last.op \in WholeWindow => last.reached \subseteq {"now"}

\* train_qkv_sgd and train_embeddings_sgd read doutput, which they do not write;
\* the token step reads dkey and dvalue, because all modes of its attention
\* kernel write dquery, and adds to dstates.
DrawsOnEarlierCalls ==
    {"train_qkv_sgd", "train_embeddings_sgd", "token_step_training_backward"}

\* The same for every other training call, whatever was called before it.
UpdatesFromThisWindowElsewhere ==
    last.op \in WholeWindow \ DrawsOnEarlierCalls => last.reached \subseteq {"now"}

\* What an accumulation applies was added since it began: the memory the
\* gradients were allocated in does not show.
AccumulatedSinceBegin ==
    last.op \in {"finalize_lora_sgd", "finalize_lora_adamw"}
        => last.reached \cap LoraGradients = {}

\* Operations made of several submissions or uploads, which a failure may
\* leave half done.
SeveralWrites ==
    {"import_base_train_qkv", "update_base_train_positions_adamw_state",
     "update_base_train_lm_head_adamw_state", "update_base_train_output_adamw_state",
     "update_base_train_qkv_adamw_state", "update_base_checkpoint",
     "token_step_training_backward"}

\* A call that fails has changed no parameter, no moment and not the mode, and
\* has not counted a step, so that the caller may simply repeat it.
\* finalize_lora_adamw counts its step before it submits.
FailedCallChangesNothing ==
    [][calls' # calls /\ ~ last'.ok /\ last'.op \notin SeveralWrites =>
           /\ last'.wrote = {}
           /\ accumulating_' = accumulating_
           /\ adamwStep_' = adamwStep_ \/ last'.op = "finalize_lora_adamw"]_graphVars

\* What readback_base_checkpoint does not read although the restore writes it.
Unread == {"positionM", "positionV"}

\* Restoring a checkpoint that was read without an error undoes all that the
\* calls since then, failed and partial ones included, did to the base model,
\* its moments and the step; but for the moments of the positions.
CheckpointRoundTrip ==
    last.op = "update_base_checkpoint" /\ last.ok /\ checkpoint.complete
        => /\ moved \cap Groups \subseteq Unread
           /\ adamwStep_ = checkpoint.step

\* The step is counted past UINT32_MAX, the most a restore takes, by
\* finalize_lora_adamw alone: the other optimizers, which share the step with
\* it, stop there however calls, failures and restores are mixed.
OnlyLoraPassesMaxStep ==
    [][adamwStep_ <= MaxStep /\ adamwStep_' > MaxStep
        => last'.op = "finalize_lora_adamw"]_graphVars

=============================================================================
