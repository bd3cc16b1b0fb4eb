-------------------------- MODULE TrainingJobProofs --------------------------
(***************************************************************************)
(* Proofs about the training job, for every number of runs and steps.      *)
(*                                                                         *)
(* The inductive invariant has five parts beside the type invariant: what  *)
(* each stand of the worker says of the fields it writes (Phase), that the *)
(* files of a run and of the responder's adapter are on disk (Published),  *)
(* that a run is over by itself or by request (EndedRightly), that the     *)
(* series and the queue hold the losses in the order of training, those of *)
(* earlier runs first (InOrder), and what a poll that followed a join has  *)
(* seen (JoinedPoll).                                                      *)
(***************************************************************************)
EXTENDS TrainingJob, TLAPS, FiniteSetTheorems, SequenceTheorems

Busy == {"verify", "step", "test", "save", "result", "reload", "state", "error"}

(* The state says "running" until the worker has set the outcome; the       *)
(* outcome is the result or the exception, never both.                      *)
Phase ==
  /\ state = "idle" <=> run = 0
  /\ worker \in Busy <=> state = "running"
  /\ run = 0 => worker = "dead"
  /\ result = IF worker \in {"reload", "state"} \/ state = "finished" THEN run ELSE 0
  /\ failure = IF worker = "error" \/ state = "error" THEN run ELSE 0

Published ==
  /\ worker \in {"result", "reload", "state"} \/ state = "finished" => saved[run] = Files
  /\ adapter # 0 => saved[adapter] = Files

(* A worker that is past its steps has done them all or was asked to stop,  *)
(* and one that was asked to stop does not come to a second step.           *)
EndedRightly ==
  /\ worker \in {"save", "result", "reload", "state"} \/ state = "finished" => done = steps \/ cancel
  /\ worker = "verify" => done = 0
  /\ worker = "step" => done < steps
  /\ overrun \in {0, 1}
  /\ overrun = 1 => cancel /\ worker \notin {"verify", "step"}

(* Whether a loss is that of step k of run r, or of an earlier run if there *)
(* is no such step.                                                         *)
Places(x, r, k) == IF k > 0 THEN x.run = r /\ x.step = k ELSE x.run < r

(* h and q, end to end, close with the losses of steps 1 .. n of run r, in  *)
(* this order; what stands before them is of earlier runs.                  *)
InOrder(h, q, r, n) ==
  /\ n <= Len(h) + Len(q)
  /\ \A i \in 1 .. Len(h) : Places(h[i], r, i - (Len(h) + Len(q) - n))
  /\ \A i \in 1 .. Len(q) : Places(q[i], r, i - (Len(q) - n))

Series ==
  /\ InOrder(history, lossQueue, run, done)
  /\ completed = IF history = <<>> THEN 0 ELSE history[Len(history)].step

JoinedPoll ==
  /\ joined => ui \in {"drain", "check", "status"} /\ worker = "dead"
  /\ joined /\ ui \in {"check", "status"} => lossQueue = <<>>
  /\ joined /\ ui = "status" /\ run # 0 => telemetry[run] # -1

Inv ==
  /\ TypeOK /\ Phase /\ Published /\ EndedRightly /\ Series /\ JoinedPoll

-----------------------------------------------------------------------------
(* Lemmas about sequences of losses.                                        *)

LEMMA LossOf ==
  ASSUME NEW s \in Seq(Losses), NEW i \in 1 .. Len(s)
  PROVE  s[i] \in Losses /\ s[i].run \in Nat /\ s[i].step \in 1 .. MaxSteps
<1>1. s[i] \in Losses
  BY LenProperties
<1> QED
  BY <1>1, JobAssumption DEF Losses, Runs

(* Taking the head of the queue to the end of the series keeps the order.   *)
LEMMA InOrderDrained ==
  ASSUME NEW h \in Seq(Losses), NEW q \in Seq(Losses), q # <<>>,
         NEW r \in Nat, NEW n \in Nat, InOrder(h, q, r, n)
  PROVE  InOrder(Append(h, Head(q)), Tail(q), r, n)
<1> DEFINE hh == Append(h, Head(q))
           qq == Tail(q)
<1>1. /\ Len(hh) = Len(h) + 1 /\ Len(qq) = Len(q) - 1
      /\ Len(h) \in Nat /\ Len(q) \in Nat /\ Len(qq) \in Nat
  BY HeadTailProperties, LenProperties, EmptySeq
<1>2. \A i \in 1 .. Len(hh) : hh[i] = IF i <= Len(h) THEN h[i] ELSE q[1]
  BY <1>1
<1>3. \A i \in 1 .. Len(qq) : qq[i] = q[i + 1] /\ i + 1 \in 1 .. Len(q)
  BY <1>1, HeadTailProperties
<1> HIDE DEF hh, qq
<1>4. n <= Len(hh) + Len(qq)
  BY <1>1 DEF InOrder
<1>5. ASSUME NEW i \in 1 .. Len(hh)
      PROVE  Places(hh[i], r, i - (Len(hh) + Len(qq) - n))
  <2>1. Len(hh) + Len(qq) - n = Len(h) + Len(q) - n
    BY <1>1
  <2>2. CASE i <= Len(h)
    <3>1. hh[i] = h[i] /\ i \in 1 .. Len(h)
      BY <1>1, <1>2, <2>2
    <3> QED
      BY <2>1, <3>1 DEF InOrder
  <2>3. CASE i = Len(h) + 1
    <3>1. hh[i] = q[1] /\ 1 \in 1 .. Len(q)
      BY <1>1, <1>2, <2>3
    <3>2. i - (Len(h) + Len(q) - n) = 1 - (Len(q) - n)
      BY <1>1, <2>3
    <3> QED
      BY <2>1, <3>1, <3>2 DEF InOrder
  <2> QED
    BY <1>1, <2>2, <2>3
<1>6. ASSUME NEW i \in 1 .. Len(qq)
      PROVE  Places(qq[i], r, i - (Len(qq) - n))
  <2>1. qq[i] = q[i + 1] /\ i + 1 \in 1 .. Len(q)
    BY <1>3
  <2>2. (i + 1) - (Len(q) - n) = i - (Len(qq) - n)
    BY <1>1
  <2> QED
    BY <2>1, <2>2 DEF InOrder
<1> QED
  BY <1>4, <1>5, <1>6 DEF InOrder, hh, qq

(* A step of run r puts its loss behind the others.                         *)
LEMMA InOrderTrained ==
  ASSUME NEW h \in Seq(Losses), NEW q \in Seq(Losses),
         NEW r \in Nat, NEW n \in Nat, InOrder(h, q, r, n)
  PROVE  InOrder(h, Append(q, [run |-> r, step |-> n + 1]), r, n + 1)
<1> DEFINE x  == [run |-> r, step |-> n + 1]
           qq == Append(q, x)
<1>1. Len(h) \in Nat /\ Len(q) \in Nat /\ Len(qq) = Len(q) + 1
  BY LenProperties
<1>2. \A i \in 1 .. Len(qq) : qq[i] = IF i <= Len(q) THEN q[i] ELSE x
  BY <1>1
<1> HIDE DEF qq
<1>3. /\ Len(h) + Len(qq) - (n + 1) = Len(h) + Len(q) - n
      /\ Len(qq) - (n + 1) = Len(q) - n
  BY <1>1
<1>4. ASSUME NEW i \in 1 .. Len(qq)
      PROVE  Places(qq[i], r, i - (Len(q) - n))
  <2>1. CASE i <= Len(q)
    <3>1. qq[i] = q[i] /\ i \in 1 .. Len(q)
      BY <1>1, <1>2, <2>1
    <3> QED
      BY <3>1 DEF InOrder
  <2>2. CASE i = Len(q) + 1
    <3>1. qq[i] = x /\ i - (Len(q) - n) = n + 1
      BY <1>1, <1>2, <2>2
    <3> QED
      BY <3>1 DEF Places
  <2> QED
    BY <1>1, <2>1, <2>2
<1>5. n + 1 <= Len(h) + Len(qq)
  BY <1>1 DEF InOrder
<1> QED
  BY <1>3, <1>4, <1>5 DEF InOrder, qq

(* A new run begins with no loss; those still on the queue are of earlier   *)
(* runs.                                                                    *)
LEMMA InOrderStarted ==
  ASSUME NEW h \in Seq(Losses), NEW q \in Seq(Losses),
         NEW r \in Nat, NEW n \in Nat, InOrder(h, q, r, n)
  PROVE  InOrder(<<>>, q, r + 1, 0)
<1>1. Len(q) \in Nat /\ Len(<<>>) = 0
  BY LenProperties
<1>2. ASSUME NEW i \in 1 .. Len(q) PROVE q[i].run < r + 1
  <2>1. q[i].run \in Nat
    BY LossOf
  <2>2. q[i].run = r \/ q[i].run < r
    BY DEF InOrder, Places
  <2> QED
    BY <2>1, <2>2
<1>3. ~ \E i \in 1 .. Len(<<>>) : TRUE
  BY <1>1
<1>4. \A i \in 1 .. Len(q) : ~ i - (Len(q) - 0) > 0
  BY <1>1
<1>5. 0 <= Len(<<>>) + Len(q)
  BY <1>1
<1> QED
  BY <1>2, <1>3, <1>4, <1>5 DEF InOrder, Places

LEMMA IntervalCount ==
  ASSUME NEW n \in Nat
  PROVE  IsFiniteSet(1 .. n) /\ Cardinality(1 .. n) = n
<1>1. Cardinality(1 .. n) = IF 1 > n THEN 0 ELSE n - 1 + 1
  BY FS_Interval
<1> QED
  BY <1>1, FS_Interval

(* Ordered as they are, the series and the queue hold n losses of run r.    *)
LEMMA InOrderCounts ==
  ASSUME NEW h \in Seq(Losses), NEW q \in Seq(Losses),
         NEW r \in Nat, NEW n \in Nat, InOrder(h, q, r, n)
  PROVE  Cardinality(Of(h, r)) + Cardinality(Of(q, r)) = n
<1>1. /\ Len(h) \in Nat /\ Len(q) \in Nat /\ n <= Len(h) + Len(q)
      /\ DOMAIN h = 1 .. Len(h) /\ DOMAIN q = 1 .. Len(q)
  BY LenProperties DEF InOrder
<1>2. Of(h, r) = {i \in 1 .. Len(h) : i - (Len(h) + Len(q) - n) > 0}
  <2>1. ASSUME NEW i \in 1 .. Len(h)
        PROVE  h[i].run = r <=> i - (Len(h) + Len(q) - n) > 0
    BY LossOf DEF InOrder, Places
  <2> QED
    BY <1>1, <2>1 DEF Of
<1>3. Of(q, r) = {i \in 1 .. Len(q) : i - (Len(q) - n) > 0}
  <2>1. ASSUME NEW i \in 1 .. Len(q)
        PROVE  q[i].run = r <=> i - (Len(q) - n) > 0
    BY LossOf DEF InOrder, Places
  <2> QED
    BY <1>1, <2>1 DEF Of
<1>4. CASE n <= Len(q)
  <2>1. Of(h, r) = {} /\ Of(q, r) = (Len(q) - n + 1) .. Len(q)
    BY <1>1, <1>2, <1>3, <1>4
  <2>2. Cardinality((Len(q) - n + 1) .. Len(q)) = n
    BY <1>1, <1>4, FS_Interval
  <2> QED
    BY <2>1, <2>2, FS_EmptySet
<1>5. CASE n > Len(q)
  <2> DEFINE k == Len(h) + Len(q) - n
  <2>1. Of(h, r) = (k + 1) .. Len(h) /\ Of(q, r) = 1 .. Len(q)
    BY <1>1, <1>2, <1>3, <1>5
  <2>2. Cardinality((k + 1) .. Len(h)) = Len(h) - k
    BY <1>1, <1>5, FS_Interval
  <2>3. Cardinality(1 .. Len(q)) = Len(q)
    BY <1>1, IntervalCount
  <2> QED
    BY <1>1, <2>1, <2>2, <2>3
<1> QED
  BY <1>1, <1>4, <1>5

(* With nothing on the queue, the last entry of the series is the last      *)
(* step of the run.                                                         *)
LEMMA InOrderLast ==
  ASSUME NEW h \in Seq(Losses), NEW r \in Nat, NEW n \in Nat \ {0},
         InOrder(h, <<>>, r, n)
  PROVE  h # <<>> /\ h[Len(h)].run = r /\ h[Len(h)].step = n
<1>1. Len(h) \in Nat /\ Len(<<>>) = 0 /\ n <= Len(h)
  BY LenProperties DEF InOrder
<1>2. Len(h) \in 1 .. Len(h) /\ Len(h) - (Len(h) + Len(<<>>) - n) = n
  BY <1>1
<1> QED
  BY <1>1, <1>2 DEF InOrder, Places

-----------------------------------------------------------------------------
(* The invariant, part by part; each part is disturbed by few actions.      *)

(* The type invariant in the two parts the provers take best apart.         *)
FlagsOK  ==
  /\ cancel \in BOOLEAN /\ joined \in BOOLEAN
  /\ polling \in BOOLEAN /\ timer \in BOOLEAN

FieldsOK ==
  /\ client \in {"app", "script"} /\ run \in 0 .. MaxRuns
  /\ mode \in {"cpu", "native"} /\ steps \in 1 .. MaxSteps
  /\ state \in {"idle", "running", "finished", "error"}
  /\ result \in {0, run} /\ failure \in {0, run}
  /\ worker \in {"dead", "verify", "step", "test", "save", "result", "reload",
                 "state", "error", "exit"}
  /\ done \in 0 .. steps
  /\ saved \in [Runs -> SUBSET Files] /\ adapter \in 0 .. run
  /\ lossQueue \in Seq(Losses) /\ history \in Seq(Losses)
  /\ completed \in 0 .. MaxSteps
  /\ telemetry \in [Runs -> Int]
  /\ ui \in {"idle", "join", "drain", "check", "status"}
  /\ overrun \in 0 .. MaxSteps

LEMMA TypeParts == TypeOK <=> FieldsOK /\ FlagsOK
BY DEF TypeOK, FieldsOK, FlagsOK

LEMMA InitInv == Init => Inv
<1> SUFFICES ASSUME Init PROVE Inv
  OBVIOUS
<1>1. TypeOK
  <2>1. saved \in [Runs -> SUBSET Files] /\ telemetry \in [Runs -> Int]
    BY DEF Init
  <2>2. lossQueue \in Seq(Losses) /\ history \in Seq(Losses)
    BY DEF Init
  <2>3. FieldsOK
    BY <2>1, <2>2, JobAssumption DEF Init, FieldsOK
  <2>4. FlagsOK
    BY DEF Init, FlagsOK
  <2> QED
    BY <2>3, <2>4, TypeParts
<1>2. Phase
  BY DEF Init, Phase, Busy
<1>3. Published /\ EndedRightly /\ JoinedPoll
  BY DEF Init, Published, EndedRightly, JoinedPoll
<1>4. Series
  BY DEF Init, Series, InOrder
<1> QED
  BY <1>1, <1>2, <1>3, <1>4 DEF Inv

LEMMA FlagsStep == FlagsOK /\ [Next]_vars => FlagsOK'
<1> SUFFICES ASSUME FlagsOK, [Next]_vars PROVE FlagsOK'
  OBVIOUS
<1> USE DEF FlagsOK, shared, output, series, uiVars
<1>1. ASSUME NEW m \in {"cpu", "native"}, NEW n \in 1 .. MaxSteps, Start(m, n)
      PROVE  FlagsOK'
  BY <1>1, Zenon DEF Start, SchedulePoll
<1>2. CASE Stop \/ Poll \/ Wait \/ Join \/ JoinTimesOut
  BY <1>2, Zenon DEF Stop, Poll, Wait, Join, JoinTimesOut
<1>3. CASE Polls
  BY <1>3, Zenon DEF Polls, DrainOne, DrainEnds, Check, Return
<1>4. CASE Worker
  BY <1>4, Zenon DEF Worker, Verify, TrainStep, Test, Save, SetResult, Reload, Finish, Raise, Fail, Exit
<1>5. CASE UNCHANGED vars
  BY <1>5, Zenon DEF vars
<1> QED
  BY <1>1, <1>2, <1>3, <1>4, <1>5, Zenon DEF Next, Client

LEMMA FieldsStep == Inv /\ [Next]_vars => FieldsOK'
<1> SUFFICES ASSUME FieldsOK, Phase, EndedRightly, [Next]_vars PROVE FieldsOK'
  BY TypeParts DEF Inv
<1> USE JobAssumption DEF FieldsOK, shared, output, series, uiVars, Runs
<1>1. ASSUME NEW m \in {"cpu", "native"}, NEW n \in 1 .. MaxSteps, Start(m, n)
      PROVE  FieldsOK'
  BY <1>1 DEF Start, Losses
<1>2. CASE Stop \/ Poll \/ Wait \/ Join \/ JoinTimesOut \/ DrainEnds
  <2>1. CASE Stop
    BY <2>1 DEF Stop
  <2>2. CASE Poll
    BY <2>2 DEF Poll
  <2>3. CASE Wait
    BY <2>3 DEF Wait
  <2>4. CASE Join
    BY <2>4 DEF Join
  <2>5. CASE JoinTimesOut
    BY <2>5 DEF JoinTimesOut
  <2>6. CASE DrainEnds
    BY <2>6 DEF DrainEnds
  <2> QED
    BY <1>2, <2>1, <2>2, <2>3, <2>4, <2>5, <2>6
<1>3. CASE DrainOne
  <2>1. /\ Head(lossQueue) \in Losses /\ Tail(lossQueue) \in Seq(Losses)
        /\ Append(history, Head(lossQueue)) \in Seq(Losses)
    BY <1>3, HeadTailProperties DEF DrainOne
  <2>2. Head(lossQueue).step \in 0 .. MaxSteps
    BY <2>1, SMTT(20) DEF Losses
  <2>3. telemetry' \in [Runs -> Int]
    BY <1>3, LenProperties DEF DrainOne, Exported
  <2> QED
    BY <1>3, <2>1, <2>2, <2>3 DEF DrainOne
<1>4. CASE Check
  <2>1. telemetry' \in [Runs -> Int]
    BY <1>4, LenProperties DEF Check, Exported
  <2> QED
    BY <1>4, <2>1 DEF Check
<1>5. CASE Return
  BY <1>5 DEF Return
<1>6. CASE Verify \/ Test \/ Exit \/ Finish \/ Fail
  BY <1>6 DEF Verify, Test, Exit, Finish, Fail, WorkerGoes
<1>7. CASE TrainStep
  <2>1. run \in Runs /\ done < steps
    BY <1>7 DEF TrainStep, WorkerGoes, Phase, EndedRightly
  <2>2. [run |-> run, step |-> done + 1] \in Losses
    BY <2>1 DEF Losses
  <2>3. overrun' \in 0 .. MaxSteps
    BY <1>7 DEF TrainStep, WorkerGoes, EndedRightly
  <2> QED
    BY <1>7, <2>1, <2>2, <2>3 DEF TrainStep, WorkerGoes
<1>8. CASE Save
  <2>1. saved' \in [Runs -> SUBSET Files]
    <3>1. PICK f \in Files : saved' = [saved EXCEPT ![run] = @ \cup {f}]
      BY <1>8 DEF Save
    <3>2. [saved EXCEPT ![run] = saved[run] \cup {f}] \in [Runs -> SUBSET Files]
      BY <3>1
    <3> QED
      BY <3>1, <3>2
  <2> QED
    BY <1>8, <2>1 DEF Save
<1>9. CASE SetResult \/ Reload \/ Raise
  <2>1. CASE SetResult
    BY <2>1 DEF SetResult, WorkerGoes
  <2>2. CASE Reload
    BY <2>2 DEF Reload, WorkerGoes
  <2>3. CASE Raise
    BY <2>3 DEF Raise
  <2> QED
    BY <1>9, <2>1, <2>2, <2>3
<1>10. CASE UNCHANGED vars
  BY <1>10 DEF vars
<1> QED
  BY <1>1, <1>2, <1>3, <1>4, <1>5, <1>6, <1>7, <1>8, <1>9, <1>10
     DEF Next, Client, Worker, Polls

LEMMA TypeStep == Inv /\ [Next]_vars => TypeOK'
BY FieldsStep, FlagsStep, TypeParts DEF Inv, TypeOK, FieldsOK, FlagsOK

LEMMA PhaseStep == Inv /\ [Next]_vars => Phase'
<1> SUFFICES ASSUME Inv, [Next]_vars PROVE Phase'
  OBVIOUS
<1> USE DEF Inv, TypeOK, Phase, Busy, shared, output, series, uiVars
<1>1. ASSUME NEW m \in {"cpu", "native"}, NEW n \in 1 .. MaxSteps, Start(m, n)
      PROVE  Phase'
  BY <1>1, JobAssumption DEF Start, Alive
<1>2. CASE Stop \/ Poll \/ Wait \/ Join \/ JoinTimesOut \/ Polls
  BY <1>2 DEF Stop, Poll, Wait, Join, JoinTimesOut, Polls, DrainOne, DrainEnds, Check, Return
<1>3. CASE Verify
  BY <1>3 DEF Verify, WorkerGoes
<1>4. CASE TrainStep
  BY <1>4 DEF TrainStep, WorkerGoes
<1>5. CASE Test
  BY <1>5 DEF Test, WorkerGoes
<1>6. CASE Save
  BY <1>6 DEF Save
<1>7. CASE SetResult
  BY <1>7 DEF SetResult, WorkerGoes
<1>8. CASE Reload
  BY <1>8 DEF Reload, WorkerGoes
<1>9. CASE Finish
  BY <1>9 DEF Finish, WorkerGoes
<1>10. CASE Raise
  BY <1>10 DEF Raise
<1>11. CASE Fail
  BY <1>11 DEF Fail, WorkerGoes
<1>12. CASE Exit
  BY <1>12 DEF Exit, WorkerGoes
<1>13. CASE UNCHANGED vars
  BY <1>13 DEF vars
<1> QED
  BY <1>1, <1>2, <1>3, <1>4, <1>5, <1>6, <1>7, <1>8, <1>9, <1>10, <1>11, <1>12, <1>13
     DEF Next, Client, Worker

LEMMA PublishedStep == Inv /\ [Next]_vars => Published'
<1> SUFFICES ASSUME Inv, [Next]_vars PROVE Published'
  OBVIOUS
<1> USE DEF Inv, TypeOK, Phase, Busy, Published, shared, output, series, uiVars
<1>1. ASSUME NEW m \in {"cpu", "native"}, NEW n \in 1 .. MaxSteps, Start(m, n)
      PROVE  Published'
  BY <1>1 DEF Start, Alive
<1>2. CASE Stop \/ Poll \/ Wait \/ Join \/ JoinTimesOut \/ Polls
  BY <1>2 DEF Stop, Poll, Wait, Join, JoinTimesOut, Polls, DrainOne, DrainEnds, Check, Return
<1>3. CASE Verify \/ TrainStep \/ Test
  BY <1>3 DEF Verify, TrainStep, Test, WorkerGoes
<1>4. CASE Save
  <2>1. PICK f \in Files :
          /\ f = IF "checkpoint" \notin saved[run] THEN "checkpoint"
                 ELSE IF "artifact" \notin saved[run] THEN "artifact" ELSE "experiment"
          /\ saved' = [saved EXCEPT ![run] = @ \cup {f}]
          /\ worker' = IF f = "experiment" THEN "result" ELSE "save"
    BY <1>4 DEF Save
  <2>2. run \in Runs /\ saved'[run] = saved[run] \cup {f}
    BY <1>4, <2>1, JobAssumption DEF Save, Runs
  <2>3. worker' = "result" => saved'[run] = Files
    BY <2>1, <2>2 DEF Files
  <2>4. adapter # 0 => saved'[adapter] = Files
    <3>1. ASSUME adapter # 0 PROVE adapter \in Runs
      BY <3>1, JobAssumption DEF Runs
    <3> QED
      BY <2>1, <2>2, <3>1
  <2> QED
    BY <1>4, <2>1, <2>3, <2>4 DEF Save
<1>5. CASE SetResult
  BY <1>5 DEF SetResult, WorkerGoes
<1>6. CASE Reload
  BY <1>6 DEF Reload, WorkerGoes
<1>7. CASE Finish
  BY <1>7 DEF Finish, WorkerGoes
<1>8. CASE Raise \/ Fail \/ Exit
  BY <1>8 DEF Raise, Fail, Exit, WorkerGoes
<1>9. CASE UNCHANGED vars
  BY <1>9 DEF vars
<1> QED
  BY <1>1, <1>2, <1>3, <1>4, <1>5, <1>6, <1>7, <1>8, <1>9 DEF Next, Client, Worker

LEMMA EndedRightlyStep == Inv /\ [Next]_vars => EndedRightly'
<1> SUFFICES ASSUME Inv, [Next]_vars PROVE EndedRightly'
  OBVIOUS
<1> USE DEF Inv, TypeOK, Phase, Busy, EndedRightly, shared, output, series, uiVars
<1>1. ASSUME NEW m \in {"cpu", "native"}, NEW n \in 1 .. MaxSteps, Start(m, n)
      PROVE  EndedRightly'
  BY <1>1 DEF Start, Alive
<1>2. CASE Stop
  BY <1>2 DEF Stop
<1>3. CASE Poll \/ Wait \/ Join \/ JoinTimesOut \/ Polls
  BY <1>3 DEF Poll, Wait, Join, JoinTimesOut, Polls, DrainOne, DrainEnds, Check, Return
<1>4. CASE Verify
  BY <1>4, JobAssumption DEF Verify, WorkerGoes
<1>5. CASE TrainStep
  BY <1>5 DEF TrainStep, WorkerGoes
<1>6. CASE Test
  BY <1>6 DEF Test, WorkerGoes
<1>7. CASE Save
  BY <1>7 DEF Save
<1>8. CASE SetResult \/ Reload
  BY <1>8 DEF SetResult, Reload, WorkerGoes
<1>9. CASE Finish \/ Raise \/ Fail \/ Exit
  BY <1>9 DEF Finish, Raise, Fail, Exit, WorkerGoes
<1>10. CASE UNCHANGED vars
  BY <1>10 DEF vars
<1> QED
  BY <1>1, <1>2, <1>3, <1>4, <1>5, <1>6, <1>7, <1>8, <1>9, <1>10 DEF Next, Client, Worker

(* Only a start, a drained loss and a training step touch the losses.       *)
LEMMA SeriesStep == Inv /\ [Next]_vars => Series'
<1> SUFFICES ASSUME Inv, [Next]_vars PROVE Series'
  OBVIOUS
<1>0. /\ lossQueue \in Seq(Losses) /\ history \in Seq(Losses)
      /\ run \in Nat /\ done \in Nat
  BY JobAssumption DEF Inv, TypeOK
<1>1. ASSUME NEW m \in {"cpu", "native"}, NEW n \in 1 .. MaxSteps, Start(m, n)
      PROVE  Series'
  <2>1. InOrder(<<>>, lossQueue, run + 1, 0)
    BY <1>0, InOrderStarted DEF Inv, Series
  <2> QED
    BY <1>1, <2>1 DEF Start, Series
<1>2. CASE DrainOne
  <2>1. InOrder(Append(history, Head(lossQueue)), Tail(lossQueue), run, done)
    BY <1>0, <1>2, InOrderDrained DEF DrainOne, Inv, Series
  <2>2. /\ history' = Append(history, Head(lossQueue)) /\ lossQueue' = Tail(lossQueue)
        /\ run' = run /\ done' = done /\ completed' = Head(lossQueue).step
    BY <1>2 DEF DrainOne, shared
  <2>3. history' # <<>> /\ history'[Len(history')] = Head(lossQueue)
    BY <1>0, <1>2, <2>2, HeadTailProperties DEF DrainOne
  <2> QED
    BY <2>1, <2>2, <2>3 DEF Series
<1>3. CASE TrainStep
  <2>1. InOrder(history, Append(lossQueue, [run |-> run, step |-> done + 1]), run, done + 1)
    BY <1>0, InOrderTrained DEF Inv, Series
  <2> QED
    BY <1>3, <2>1 DEF TrainStep, shared, series, Inv, Series
<1>4. CASE UNCHANGED <<run, done, lossQueue, history, completed>>
  BY <1>4 DEF Inv, Series
<1>5. CASE Stop \/ Poll \/ Wait \/ Join \/ JoinTimesOut \/ DrainEnds \/ Check \/ Return
  BY <1>4, <1>5
     DEF Stop, Poll, Wait, Join, JoinTimesOut, DrainEnds, Check, Return, shared, series
<1>6. CASE Verify \/ Test \/ Save \/ SetResult \/ Reload \/ Finish \/ Raise \/ Fail \/ Exit
  BY <1>4, <1>6
     DEF Verify, Test, Save, SetResult, Reload, Finish, Raise, Fail, Exit, shared, series
<1>7. CASE UNCHANGED vars
  BY <1>4, <1>7 DEF vars, shared, series
<1> QED
  BY <1>1, <1>2, <1>3, <1>5, <1>6, <1>7 DEF Next, Client, Worker, Polls

(* A worker that is dead stays so until a start, and none begins in the     *)
(* middle of a poll.                                                        *)
LEMMA JoinedPollStep == Inv /\ [Next]_vars => JoinedPoll'
<1> SUFFICES ASSUME Inv, [Next]_vars PROVE JoinedPoll'
  OBVIOUS
<1> USE DEF Inv, TypeOK, Phase, Busy, JoinedPoll, shared, output, series, uiVars
<1>1. ASSUME NEW m \in {"cpu", "native"}, NEW n \in 1 .. MaxSteps, Start(m, n)
      PROVE  JoinedPoll'
  BY <1>1 DEF Start
<1>2. CASE Stop
  BY <1>2 DEF Stop
<1>3. CASE Poll \/ Wait \/ Join \/ JoinTimesOut
  BY <1>3 DEF Poll, Wait, Join, JoinTimesOut, Alive
<1>4. CASE DrainOne \/ DrainEnds
  BY <1>4 DEF DrainOne, DrainEnds
<1>5. CASE Check
  <2>1. ASSUME joined, run # 0 PROVE telemetry'[run] # -1
    <3>1. run \in Runs /\ state # "running"
      BY <1>5, <2>1, JobAssumption DEF Check, Runs
    <3>2. Len(history) \in Nat
      BY LenProperties
    <3>3. CASE telemetry[run] = -1
      BY <1>5, <2>1, <3>1, <3>2, <3>3 DEF Check, Exported
    <3>4. CASE telemetry[run] # -1
      BY <1>5, <2>1, <3>1, <3>4 DEF Check, Exported
    <3> QED
      BY <3>3, <3>4
  <2> QED
    BY <1>5, <2>1 DEF Check
<1>6. CASE Return
  BY <1>6 DEF Return
<1>7. ASSUME Worker PROVE ~joined /\ UNCHANGED joined
  <2>1. worker # "dead"
    BY <1>7 DEF Worker, Verify, TrainStep, Test, Save, SetResult, Reload, Finish, Raise, Fail, Exit, WorkerGoes
  <2>2. UNCHANGED joined
    BY <1>7 DEF Worker, Verify, TrainStep, Test, Save, SetResult, Reload, Finish, Raise, Fail, Exit
  <2> QED
    BY <2>1, <2>2
<1>8. CASE UNCHANGED vars
  BY <1>8 DEF vars
<1> QED
  BY <1>1, <1>2, <1>3, <1>4, <1>5, <1>6, <1>7, <1>8 DEF Next, Client, Polls

-----------------------------------------------------------------------------
LEMMA InvStep == Inv /\ [Next]_vars => Inv'
<1> SUFFICES ASSUME Inv, [Next]_vars PROVE Inv'
  OBVIOUS
<1>1. TypeOK'
  BY TypeStep
<1>2. Phase' /\ Published'
  BY PhaseStep, PublishedStep
<1>3. EndedRightly' /\ Series' /\ JoinedPoll'
  BY EndedRightlyStep, SeriesStep, JoinedPollStep
<1> QED
  BY <1>1, <1>2, <1>3 DEF Inv

THEOREM Invariance == Spec => []Inv
<1>1. Init => Inv
  BY InitInv
<1>2. Inv /\ [Next]_vars => Inv'
  BY InvStep
<1> QED
  BY <1>1, <1>2, PTL DEF Spec

(* Every field of the controller and of the worker stays within its type:   *)
(* no result or exception of another run, no step beyond those asked for.   *)
THEOREM TypeCorrect == Spec => []TypeOK
<1>1. Inv => TypeOK
  BY DEF Inv
<1> QED
  BY <1>1, Invariance, PTL

(* The invariant puts the outcome, the files and the order of the losses in *)
(* place when the state says so.                                            *)
LEMMA InvPublishes == Inv => FinishedMeansPublished
<1> SUFFICES ASSUME Inv PROVE FinishedMeansPublished
  OBVIOUS
<1>1. ASSUME state = "finished"
      PROVE  /\ result = run /\ failure = 0 /\ saved[run] = Files
             /\ done = steps \/ cancel
  BY <1>1 DEF Inv, Phase, Published, EndedRightly, Busy
<1>2. Cardinality(Of(history, run)) + Cardinality(Of(lossQueue, run)) = done
  BY InOrderCounts, JobAssumption DEF Inv, TypeOK, Series
<1>3. state = "error" => failure = run /\ result = 0
  BY DEF Inv, Phase, Busy
<1>4. adapter # 0 => saved[adapter] = Files
  BY DEF Inv, Published
<1> QED
  BY <1>1, <1>2, <1>3, <1>4 DEF FinishedMeansPublished

(* A status never says "finished" before the run is published: the worker   *)
(* sets the state last (_run_training, _run_native_gpu_training).           *)
THEOREM PublishedWhenFinished == Spec => []FinishedMeansPublished
BY InvPublishes, Invariance, PTL

(* After a stop request the worker completes one step at most, of whichever *)
(* trainer and however many steps are left.                                 *)
THEOREM StopIsPrompt == Spec => []StopBounded
<1>1. Inv => StopBounded
  BY DEF Inv, EndedRightly, StopBounded
<1> QED
  BY <1>1, Invariance, PTL

(* What wait_training promises of a poll after a successful join.           *)
LEMMA ReturnAfterJoin ==
  ASSUME Inv, Return, joined, run # 0
  PROVE  /\ lossQueue = <<>>
         /\ Cardinality(Of(history, run)) = done
         /\ (done > 0 => completed = done)
         /\ telemetry[run] # -1
<1>1. lossQueue = <<>> /\ telemetry[run] # -1
  BY DEF Inv, JoinedPoll, Return
<1>2. history \in Seq(Losses) /\ lossQueue \in Seq(Losses) /\ run \in Nat /\ done \in Nat
  BY JobAssumption DEF Inv, TypeOK
<1>3. InOrder(history, lossQueue, run, done)
  BY DEF Inv, Series
<1>4. Cardinality(Of(history, run)) = done
  <2>1. Cardinality(Of(history, run)) + Cardinality(Of(lossQueue, run)) = done
    BY <1>2, <1>3, InOrderCounts
  <2>2. Of(lossQueue, run) = {}
    BY <1>1 DEF Of
  <2>3. Cardinality(Of(history, run)) \in Nat
    <3>1. Of(history, run) \in SUBSET (1 .. Len(history)) /\ Len(history) \in Nat
      BY <1>2, LenProperties DEF Of
    <3>2. IsFiniteSet(1 .. Len(history))
      BY <3>1, IntervalCount
    <3> QED
      BY <3>1, <3>2, FS_Subset, FS_CardinalityType
  <2> QED
    BY <2>1, <2>2, <2>3, FS_EmptySet
<1>5. ASSUME done > 0 PROVE completed = done
  BY <1>1, <1>2, <1>3, <1>5, InOrderLast DEF Inv, Series
<1> QED
  BY <1>1, <1>4, <1>5

(* A wait that joined the worker returns with every loss of the run.        *)
THEOREM WaitIsComplete == Spec => WaitSeesAll
<1>1. Inv /\ [Next]_vars =>
        [Return /\ joined /\ run # 0 =>
           /\ lossQueue = <<>>
           /\ Cardinality(Of(history, run)) = done
           /\ (done > 0 => completed = done)
           /\ telemetry[run] # -1]_vars
  BY ReturnAfterJoin
<1> QED
  BY <1>1, Invariance, PTL DEF Spec, WaitSeesAll
=============================================================================
