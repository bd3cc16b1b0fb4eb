------------------------------- MODULE ApiPrograms -------------------------------
(***************************************************************************)
(* The command buffers of the native APIs around the persistent graph: the *)
(* one-shot kernel calls, which build a context, run one kernel and        *)
(* destroy it; the LoRA session; the dataset batch buffer; the standalone  *)
(* trainers; and the immutable command prototype.  All of them stage what  *)
(* the caller passes in one host-visible buffer.                           *)
(*                                                                         *)
(* A call is its program with the size of that buffer.                     *)
(***************************************************************************)
EXTENDS CommandStream

Call(staging, program) == [staging |-> staging, program |-> program]

Bytes(parts) ==
    LET upTo[n \in 0 .. Len(parts)] == IF n = 0 THEN 0 ELSE upTo[n - 1] + parts[n][2]
    IN  upTo[Len(parts)]

\* The arguments are staged one after the other from the start of the buffer.
LoadArguments(parts) == CopyIn("staging", parts, 0) \o <<UploadDone>>

Results(parts, base) == <<ResultDone>> \o CopyOut("staging", parts, base)

\* A kernel from the arguments to the results, which follow them in the buffer.
OneShot(arguments, results) ==
    Call(Bytes(arguments) + Bytes(results),
         LoadArguments(arguments)
         \o <<Dispatch([reads |-> Names(arguments), writes |-> Names(results)])>>
         \o Results(results, Bytes(arguments)))

\* A kernel that updates its first two arguments in place, and is the only one
\* whose barrier names its writes.
InPlace(arguments, staging, base) ==
    LET updated == SubSeq(arguments, 1, 2)
    IN  Call(staging,
             CopyIn("staging", arguments, 0)
             \o <<Barrier({"T"}, {"C"}, {"TW"}, {"CR", "CW"}, {}),
                  Dispatch([reads |-> Names(arguments), writes |-> Names(updated)])>>
             \o Results(updated, base))

-----------------------------------------------------------------------------
(* One-shot kernels.  The sizes are those of the largest legal arguments     *)
(* unless they are parameters.                                               *)

Rows == Floats(128 * 64)

spaceslug_attention ==
    OneShot(<<<<"q", Rows>>, <<"k", Rows>>, <<"v", Rows>>>>, <<<<"out", Rows>>>>)

spaceslug_attention_causal ==
    OneShot(<<<<"q", Rows>>, <<"k", Rows>>, <<"v", Rows>>>>, <<<<"out", Rows>>>>)

spaceslug_attention_causal_backward(t) ==
    LET n == Floats(t * 64)
    IN  OneShot(<<<<"q", n>>, <<"k", n>>, <<"v", n>>, <<"dy", n>>>>, <<<<"out", n>>>>)

spaceslug_lm_head_backward(rows, vocab, hidden) ==
    OneShot(<<<<"dl", Floats(rows * vocab)>>, <<"w", Floats(hidden * vocab)>>>>,
            <<<<"dp", Floats(rows * hidden)>>>>)

spaceslug_projection_backward(rows, input_size, output_size) ==
    OneShot(<<<<"dy", Floats(rows * output_size)>>, <<"w", Floats(input_size * output_size)>>>>,
            <<<<"dx", Floats(rows * input_size)>>>>)

spaceslug_causal_loss(rows, vocab) ==
    LET loss == OneShot(<<<<"logits", Floats(rows * vocab)>>, <<"targets", Floats(rows)>>,
                          <<"mask", Floats(rows)>>>>,
                        <<<<"grad", Floats(rows * vocab)>>, <<"loss", Floats(rows)>>>>)
    IN  [loss EXCEPT !.staging = 2 * Floats(rows * vocab) + 4 * Floats(rows)]

spaceslug_sgemm(m, n, k) ==
    OneShot(<<<<"a", Floats(m * k)>>, <<"b", Floats(k * n)>>>>, <<<<"c", Floats(m * n)>>>>)

spaceslug_vector_add ==
    LET n == Floats(2 ^ 20)
    IN  OneShot(<<<<"a", n>>, <<"b", n>>>>, <<<<"out", n>>>>)

\* The kernels of one LoRA step, called one after the other by
\* spaceslug_lora_train_step: m rows, rank r.
Factor(r) == Floats(64 * r)

spaceslug_lora_delta(m, r) ==
    OneShot(<<<<"x", Floats(m * 64)>>, <<"a", Factor(r)>>, <<"b", Factor(r)>>>>,
            <<<<"y", Floats(m * 64)>>>>)

spaceslug_lora_gradients(m, r) ==
    OneShot(<<<<"x", Floats(m * 64)>>, <<"dy", Floats(m * 64)>>,
              <<"a", Factor(r)>>, <<"b", Factor(r)>>>>,
            <<<<"da", Factor(r)>>, <<"db", Factor(r)>>>>)

spaceslug_lora_sgd(r) ==
    InPlace(<<<<"a", Factor(r)>>, <<"b", Factor(r)>>, <<"da", Factor(r)>>, <<"db", Factor(r)>>>>,
            6 * Factor(r), 4 * Factor(r))

\* The same for the four targets at once; the factors are returned where they
\* were staged.
spaceslug_lora_gradients_multi(m, r) ==
    OneShot(<<<<"x", Floats(m * 64)>>, <<"dy", Floats(m * 64)>>,
              <<"a", 4 * Factor(r)>>, <<"b", 4 * Factor(r)>>>>,
            <<<<"da", 4 * Factor(r)>>, <<"db", 4 * Factor(r)>>>>)

spaceslug_lora_sgd_multi(r) ==
    LET n == 4 * Factor(r)
    IN  InPlace(<<<<"a", n>>, <<"b", n>>, <<"da", n>>, <<"db", n>>>>, 4 * n, 0)

ImmutableCommandPrototype ==
    OneShot(<<<<"tokens", 32>>, <<"targets", 32>>, <<"mask", 32>>, <<"doutput", 32>>,
              <<"learning", 8>>, <<"control", 36>>>>, <<<<"output", 16>>>>)

-----------------------------------------------------------------------------
(* The LoRA session: m rows, rank r.                                          *)

SessionStaging(m, r) == 4 * Factor(r) + 2 * Floats(m * 64)

Factors(r) == <<<<"a", Factor(r)>>, <<"b", Factor(r)>>>>

spaceslug_lora_session_create(m, r) ==
    Call(SessionStaging(m, r), LoadArguments(Factors(r)))

\* The delta before the update is copied out when the caller asks for it.
spaceslug_lora_session_step(m, r, y_out) ==
    LET x_bytes   == Floats(m * 64)
        delta     == [reads |-> {"x", "a", "b"}, writes |-> {"y"}]
        gradients == [reads |-> {"x", "dy", "a", "b"}, writes |-> {"da", "db"}]
        sgd       == [reads |-> {"a", "b", "da", "db"}, writes |-> {"a", "b"}]
    IN  Call(SessionStaging(m, r),
             LoadArguments(<<<<"x", x_bytes>>, <<"dy", x_bytes>>>>)
             \o Chain(<<delta, gradients, sgd>>, KernelDone)
             \o Results(IF y_out THEN <<<<"y", x_bytes>>>> ELSE <<>>, 2 * x_bytes))

spaceslug_lora_session_readback(m, r) ==
    Call(SessionStaging(m, r), Results(Factors(r), 2 * Factor(r) + 2 * Floats(m * 64)))

-----------------------------------------------------------------------------
(* The dataset batch buffer: w windows of t tokens.                           *)

Windows(w, t) ==
    <<<<"tokens", Floats(w * t)>>, <<"targets", Floats(w * t)>>,
      <<"masks", Floats(w * t)>>, <<"controls", Floats(w)>>>>

Metrics(w) == <<<<"results", 2 * Floats(w)>>>>

BatchStaging(w, t) == Bytes(Windows(w, t)) + Bytes(Metrics(w))

ProcessWindows(w, t) ==
    <<UploadDone, Dispatch([reads |-> Names(Windows(w, t)), writes |-> {"results"}])>>
    \o Results(Metrics(w), Bytes(Windows(w, t)))

BatchBuffer_upload(w, t) ==
    Call(BatchStaging(w, t), CopyIn("staging", Windows(w, t), 0))

BatchBuffer_process_readback(w, t) == Call(BatchStaging(w, t), ProcessWindows(w, t))

BatchBuffer_process(w, t) ==
    Call(BatchStaging(w, t), CopyIn("staging", Windows(w, t), 0) \o ProcessWindows(w, t))

-----------------------------------------------------------------------------
(* The standalone trainers.  A weight of wb bytes is staged after two inputs  *)
(* of a and u bytes; its value after a step, the gradient and the moments     *)
(* have places of their own behind it.                                        *)

TrainerState(wb) == <<<<"weight", wb>>, <<"gradient", wb>>, <<"m", wb>>, <<"v", wb>>>>

TrainerStep(a, u, wb, moments) ==
    LET gradient == [reads |-> {"activation", "dlogits"}, writes |-> {"gradient"}]
        update   == [reads |-> {"weight", "gradient"} \cup moments,
                     writes |-> {"weight"} \cup moments]
    IN  LoadArguments(<<<<"activation", a>>, <<"dlogits", u>>>>)
        \o Chain(<<gradient, update>>, KernelDone)
        \o Results(SubSeq(TrainerState(wb), 1, 2), a + u + wb)

\* LM head: h rows of vp columns, windows of t rows.
LmHeadTrainer(h, vp, t, program) ==
    Call(Floats(t * h) + Floats(t * vp) + 5 * Floats(h * vp) + 8, program)

tiny_base_step(h, vp, t, moments) ==
    LmHeadTrainer(h, vp, t, TrainerStep(Floats(t * h), Floats(t * vp), Floats(h * vp), moments))

tiny_base_update(h, vp, t) ==
    LmHeadTrainer(h, vp, t, CopyIn("staging", <<<<"weight", Floats(h * vp)>>>>,
                                   Floats(t * h) + Floats(t * vp)))

tiny_base_moments(h, vp, t) ==
    LmHeadTrainer(h, vp, t, Results(SubSeq(TrainerState(Floats(h * vp)), 3, 4),
                                    Floats(t * h) + Floats(t * vp) + 3 * Floats(h * vp)))

\* Output projection: h by h.
outproj_step(h, t, moments) ==
    Call(2 * Floats(t * h) + 5 * Floats(h * h),
         TrainerStep(Floats(t * h), Floats(t * h), Floats(h * h), moments))

outproj_update(h, t) ==
    Call(2 * Floats(t * h) + 5 * Floats(h * h),
         CopyIn("staging", <<<<"weight", Floats(h * h)>>>>, 2 * Floats(t * h)))

outproj_moments(h, t) ==
    Call(2 * Floats(t * h) + 5 * Floats(h * h),
         Results(SubSeq(TrainerState(Floats(h * h)), 3, 4),
                 2 * Floats(t * h) + 3 * Floats(h * h)))

\* The weight and both moments from where the host has staged them.
UpdateState(wb, base) ==
    CopyIn("staging", <<<<"weight", wb>>>>, base)
    \o CopyIn("staging", SubSeq(TrainerState(wb), 3, 4), base + 3 * wb)

tiny_base_update_adamw_state(h, vp, t) ==
    LmHeadTrainer(h, vp, t, UpdateState(Floats(h * vp), Floats(t * h) + Floats(t * vp)))

outproj_update_state(h, t) ==
    Call(2 * Floats(t * h) + 5 * Floats(h * h),
         UpdateState(Floats(h * h), 2 * Floats(t * h)))

\* Embedding: v rows of h columns, at most 128 ids; the program of a step
\* copies only the rows that are used, here all of them.
EmbeddingInputs(h) == <<<<"ids", Floats(128)>>, <<"ds", Floats(128 * h)>>, <<"mask", Floats(128)>>>>

EmbeddingTrainer(v, h, program) == Call(Bytes(EmbeddingInputs(h)) + 3 * Floats(v * h), program)

embedding_step(v, h) ==
    EmbeddingTrainer(v, h,
        LoadArguments(EmbeddingInputs(h))
        \o Chain(<<[reads |-> {"ids", "ds", "mask"}, writes |-> {"gradient"}],
                   [reads |-> {"weight", "gradient"}, writes |-> {"weight"}]>>, KernelDone))

embedding_update(v, h) ==
    EmbeddingTrainer(v, h, CopyIn("staging", <<<<"weight", Floats(v * h)>>>>,
                                  Bytes(EmbeddingInputs(h))))

embedding_read(v, h) ==
    EmbeddingTrainer(v, h, Results(SubSeq(TrainerState(Floats(v * h)), 1, 2),
                                   Bytes(EmbeddingInputs(h)) + Floats(v * h)))

\* QKV projection: three weights and three gradients, one kernel.
qkv_step(h, t) ==
    LET inputs    == [n \in 1 .. 4 |-> <<<<"x", "dq", "dk", "dv">>[n], Floats(t * h)>>]
        weights   == {"q", "k", "v"}
        state     == [n \in 1 .. 6 |-> <<<<"q", "k", "v", "gq", "gk", "gv">>[n], Floats(h * h)>>]
    IN  Call(4 * Floats(t * h) + 12 * Floats(h * h),
             LoadArguments(inputs)
             \o <<Dispatch([reads |-> Names(inputs) \cup weights, writes |-> Names(state)])>>
             \o Results(state, 4 * Floats(t * h)))

=============================================================================
