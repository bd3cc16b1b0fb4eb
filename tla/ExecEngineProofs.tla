-------------------------- MODULE ExecEngineProofs --------------------------
(***************************************************************************)
(* Theorems about the execution engine, for every ring size, number of     *)
(* queues and length of run.  The inductive invariant has two layers:      *)
(* StreamInv holds whatever fails; MapInv and RingInv need every call that *)
(* took a value to have submitted it (no fault).                           *)
(***************************************************************************)
EXTENDS ExecEngineTasks, FiniteSetTheorems, WellFoundedInduction, TLAPS

InCall == pc \in {"throttle", "ready"}

(* Values were handed out in increasing order and the one of the call in    *)
(* progress is newer than every submitted one.                              *)
ValuesIncrease ==
  /\ \A i, j \in Submitted : i < j => batches[i].value < batches[j].value
  /\ \A i \in Submitted : batches[i].value < nextValue
  /\ InCall => /\ call.value + 1 = nextValue /\ call.value > 0
               /\ \A i \in Submitted : batches[i].value < call.value

(* The counter of a queue tells exactly which of its batches have retired.  *)
CountersExact ==
  /\ \A i \in Submitted :
       i \in retired <=> counter[batches[i].queue] >= batches[i].value
  /\ \A q \in Queues : counter[q] < nextValue
  /\ InCall => \A q \in Queues : counter[q] < call.value

(* The last signal of a queue bounds the values of its batches, and a drain *)
(* has settled the queues it has passed.                                    *)
LastSignalsBound ==
  /\ \A i \in Submitted : batches[i].value <= queueLastSignal[batches[i].queue]
  /\ pc = "draining" =>
       \A i \in Submitted : batches[i].queue < call.queue => i \in retired

StreamInv == TypeOK /\ ValuesIncrease /\ CountersExact /\ LastSignalsBound

(* Without faults batch i carries value i, and the value -> queue map names *)
(* the queue of every batch.                                                *)
MapInv ==
  /\ Len(valueQueue) = Len(batches)
  /\ pc = "waiting" => Known(call.value)
  /\ \A i \in Submitted : batches[i].value = i /\ valueQueue[i] = batches[i].queue
  /\ nextValue = IF InCall THEN Len(batches) + 2 ELSE Len(batches) + 1

(* A pending batch is the last signal of the slot that guards its command   *)
(* buffer, and past the throttle the slot of the call guards nothing.       *)
RingInv ==
  /\ \A s \in Slots : slotLastSignal[s] <= Len(batches)
  /\ \A i \in Pending : slotLastSignal[GuardSlot(batches[i].cmd)] = i
  /\ \A i \in Submitted : batches[i].cmd \in Slots \cup retained
  /\ InCall => call.slot = GuardSlot(call.cmd) /\ call.cmd \in Slots \cup retained
  /\ pc = "ready" => slotLastSignal[call.slot] \notin Pending

(* The semaphore waits of a batch cover every batch it needs.               *)
WaitsInv ==
  /\ \A i \in Submitted : batches[i].needs \subseteq 1 .. i - 1
  /\ \A i \in Submitted : \A j \in batches[i].needs :
       batches[i].waits[batches[j].queue] >= batches[j].value
  /\ StartAfterDeps

EngineInv == StreamInv /\ MapInv /\ RingInv /\ WaitsInv

-----------------------------------------------------------------------------
(* A set of numbers below a bound has the largest element that Latest       *)
(* chooses: mirrored in the bound, it is the least one.                     *)
LEMMA LatestIsUpperBound ==
  ASSUME NEW n \in Nat, NEW S \in SUBSET (0 .. n)
  PROVE  Latest(S) \in S \cup {0} /\ \A x \in S : x <= Latest(S)
<1> DEFINE T == {n - x : x \in S \cup {0}}
<1>1. T \subseteq Nat /\ T # {}
  OBVIOUS
<1>2. PICK m \in T : \A y \in T : ~(<<y, m>> \in OpToRel(<, Nat))
  BY <1>1, WFMin, NatLessThanWellFounded
<1>3. \A y \in T : ~(y < m)
  BY <1>1, <1>2 DEF OpToRel
<1>4. PICK k \in S \cup {0} : m = n - k
  OBVIOUS
<1>5. \A x \in S : x <= k
  <2>1. SUFFICES ASSUME NEW x \in S PROVE ~(n - x < n - k)
    BY <1>4
  <2>2. n - x \in T
    OBVIOUS
  <2>3. QED
    BY <2>2, <1>3, <1>4
<1>6. QED
  BY <1>4, <1>5 DEF Latest

LEMMA DeviceWaitsBound ==
  ASSUME valueQueue \in Seq(Queues), NEW deps
  PROVE  /\ DeviceWaits(deps) \in [Queues -> Nat]
         /\ \A d \in deps : Known(d) => DeviceWaits(deps)[valueQueue[d]] >= d
<1> DEFINE D(q) == {d \in deps : Known(d) /\ valueQueue[d] = q}
<1>1. ASSUME NEW q
      PROVE  Latest(D(q)) \in Nat /\ \A x \in D(q) : x \in Nat /\ x <= Latest(D(q))
  <2>1. Len(valueQueue) \in Nat /\ D(q) \in SUBSET (0 .. Len(valueQueue))
    BY DEF Known
  <2> HIDE DEF D
  <2>2. Latest(D(q)) \in D(q) \cup {0} /\ \A x \in D(q) : x <= Latest(D(q))
    BY <2>1, LatestIsUpperBound
  <2>3. QED
    BY <2>1, <2>2
<1>2. DeviceWaits(deps) = [q \in Queues |-> Latest(D(q))]
  BY DEF DeviceWaits
<1>3. ASSUME NEW d \in deps, Known(d)
      PROVE  d \in D(valueQueue[d]) /\ valueQueue[d] \in Queues
  BY <1>3 DEF Known
<1> HIDE DEF D
<1>4. \A d \in deps : Known(d) => DeviceWaits(deps)[valueQueue[d]] >= d
  <2>1. SUFFICES ASSUME NEW d \in deps, Known(d)
                 PROVE  DeviceWaits(deps)[valueQueue[d]] >= d
    OBVIOUS
  <2>2. DeviceWaits(deps)[valueQueue[d]] = Latest(D(valueQueue[d]))
    BY <1>2, <1>3, <2>1
  <2>3. QED
    BY <1>1, <1>3, <2>1, <2>2
<1>5. QED
  BY <1>1, <1>2, <1>4

LEMMA StreamInit == Init => StreamInv
  BY EngineAssumption DEF Init, StreamInv, TypeOK, ValuesIncrease, CountersExact,
     LastSignalsBound, InCall, NoCall, Submitted, Queues, Slots, Retainable,
     CommandBuffers, Batch, Locals

LEMMA BatchTypes ==
  ASSUME TypeOK
  PROVE  /\ Len(batches) \in Nat
         /\ Submitted = 1 .. Len(batches)
         /\ \A i \in Submitted :
              /\ batches[i].value \in 1 .. MaxValue
              /\ batches[i].queue \in Queues
              /\ batches[i].cmd \in CommandBuffers
              /\ batches[i].needs \subseteq Nat
              /\ batches[i].waits \in [Queues -> Nat]
<1>1. batches \in Seq(Batch)
  BY DEF TypeOK
<1>2. Len(batches) \in Nat /\ Submitted = 1 .. Len(batches)
  BY <1>1 DEF Submitted
<1>3. \A i \in Submitted : batches[i] \in Batch
  BY <1>1, <1>2
<1>4. QED
  BY <1>2, <1>3 DEF Batch

LEMMA LocalsTypes ==
  ASSUME TypeOK
  PROVE  /\ call.value \in 0 .. MaxValue /\ call.queue \in Queues /\ call.slot \in Slots
         /\ call.cmd \in CommandBuffers /\ call.deps \subseteq Nat
  BY DEF TypeOK, Locals

(* Types.  A step keeps every stored value, slot and queue in range.         *)
LEMMA TypeStep == StreamInv /\ [Next]_vars => TypeOK'
<1> SUFFICES ASSUME TypeOK, ValuesIncrease, [Next]_vars PROVE TypeOK'
  BY DEF StreamInv
<1> USE EngineAssumption
<1>1. 0 \in Queues /\ 0 \in Slots /\ Slots \subseteq CommandBuffers
  BY DEF Queues, Slots, CommandBuffers
<1>2. NoCall \in Locals
  BY <1>1 DEF NoCall, Locals
<1>3. Submitted = 1 .. Len(batches) /\ Len(batches) \in Nat
  BY BatchTypes
<1>4. ASSUME NEW q \in Queues, NEW D \in WaitValueSets, BeginSubmit(q, D)
      PROVE  TypeOK'
  <2>1. (nextValue - 1) % RingSlots \in Slots
    BY DEF TypeOK, Slots
  <2>2. D \in SUBSET Nat
    BY DEF WaitValueSets, TypeOK
  <2>3. call' \in Locals
    BY <1>1, <1>4, <2>1, <2>2 DEF BeginSubmit, TypeOK, Locals
  <2>4. QED
    BY <1>4, <2>3 DEF BeginSubmit, TypeOK, deviceVars, Submitted
<1>5. ASSUME NEW q \in Queues, NEW c \in Retainable, BeginSubmitImmutable(q, c)
      PROVE  TypeOK'
  <2>1. c \in CommandBuffers
    BY DEF CommandBuffers
  <2>2. call' \in Locals
    BY <1>1, <1>5, <2>1 DEF BeginSubmitImmutable, TypeOK, Locals
  <2>3. QED
    BY <1>5, <2>2 DEF BeginSubmitImmutable, TypeOK, deviceVars, Submitted
<1>6. CASE PassThrottle
  BY <1>6 DEF PassThrottle, TypeOK, hostVars, deviceVars, Submitted
<1>7. CASE ThrottleThrows \/ CallFails
  BY <1>2, <1>7 DEF ThrottleThrows, CallFails, Abandon, TypeOK, hostVars, deviceVars, Submitted
<1>8. CASE Enqueue
  <2>1. DeviceWaits(call.deps) \in [Queues -> Nat]
    BY DeviceWaitsBound DEF TypeOK
  <2>2. Named(call.deps) \in SUBSET Nat
    BY <1>3 DEF Named
  <2>3. call.value \in 1 .. MaxValue
    BY <1>8 DEF Enqueue, ValuesIncrease, InCall, TypeOK, Locals
  <2>4. call.queue \in Queues /\ call.cmd \in CommandBuffers /\ call.slot \in Slots
    BY LocalsTypes
  <2> DEFINE b == [value |-> call.value, queue |-> call.queue, cmd |-> call.cmd,
                   needs |-> Named(call.deps), waits |-> DeviceWaits(call.deps)]
  <2>5. b \in Batch
    BY <2>1, <2>2, <2>3, <2>4 DEF Batch
  <2>6. batches' = Append(batches, b)
    BY <1>8 DEF Enqueue
  <2> HIDE DEF b
  <2>7. batches' \in Seq(Batch) /\ Submitted \subseteq Submitted'
    BY <2>5, <2>6, <1>3 DEF TypeOK, Submitted
  <2>8. QED
    BY <1>2, <1>8, <2>3, <2>4, <2>7 DEF Enqueue, TypeOK, deviceVars
<1>9. ASSUME NEW c \in Retainable, RecordImmutable(c) PROVE TypeOK'
  BY <1>9 DEF RecordImmutable, TypeOK, deviceVars, Submitted
<1>10. ASSUME NEW v \in 1 .. MaxValue, BeginWait(v) PROVE TypeOK'
  <2>1. call' \in Locals
    BY <1>1, <1>10 DEF BeginWait, NoCall, Locals
  <2>2. QED
    BY <1>10, <2>1 DEF BeginWait, TypeOK, hostVars, deviceVars, Submitted
<1>11. CASE FinishWait \/ BeginDrain \/ FinishDrain
  BY <1>2, <1>11 DEF FinishWait, BeginDrain, FinishDrain, TypeOK, hostVars, deviceVars, Submitted
<1>12. CASE DrainNextQueue
  <2>1. call.queue + 1 \in Queues
    BY <1>12 DEF DrainNextQueue, TypeOK, Locals, Queues
  <2>2. call' \in Locals
    BY <1>12, <2>1 DEF DrainNextQueue, TypeOK, Locals
  <2>3. QED
    BY <1>12, <2>2 DEF DrainNextQueue, TypeOK, hostVars, deviceVars, Submitted
<1>13. ASSUME NEW i \in Submitted, Start(i) PROVE TypeOK'
  BY <1>13 DEF Start, TypeOK, hostVars, Submitted
<1>14. ASSUME NEW i \in Submitted, Retire(i) PROVE TypeOK'
  <2>1. batches[i].value \in 0 .. MaxValue /\ batches[i].queue \in Queues
    BY BatchTypes
  <2>2. counter' \in [Queues -> 0 .. MaxValue]
    BY <1>14, <2>1 DEF Retire, TypeOK
  <2>3. QED
    BY <1>14, <2>2 DEF Retire, TypeOK, hostVars, Submitted
<1>15. CASE UNCHANGED vars
  BY <1>15 DEF vars, hostVars, deviceVars, TypeOK, Submitted
<1>16. QED
  BY <1>4, <1>5, <1>6, <1>7, <1>8, <1>9, <1>10, <1>11, <1>12, <1>13, <1>14, <1>15
     DEF Next, Host, Device

(* The steps that move only the host's control point, without a submission. *)
Paused == \/ \E v \in 1 .. MaxValue : BeginWait(v)
          \/ \E c \in Retainable : RecordImmutable(c)
          \/ ThrottleThrows \/ CallFails
          \/ FinishWait \/ BeginDrain \/ DrainNextQueue \/ FinishDrain

LEMMA PausedFrame ==
  ASSUME Paused
  PROVE  /\ UNCHANGED <<nextValue, slotLastSignal, queueLastSignal, valueQueue>>
         /\ UNCHANGED <<batches, started, retired, counter>>
         /\ retained \subseteq retained'
         /\ InCall' => InCall /\ UNCHANGED <<pc, call>>
<1>1. CASE \E v \in 1 .. MaxValue : BeginWait(v)
  BY <1>1 DEF BeginWait, hostVars, deviceVars, InCall
<1>2. CASE \E c \in Retainable : RecordImmutable(c)
  BY <1>2 DEF RecordImmutable, deviceVars, InCall
<1>3. CASE ThrottleThrows \/ CallFails
  BY <1>3 DEF ThrottleThrows, CallFails, Abandon, hostVars, deviceVars, InCall
<1>4. CASE FinishWait \/ BeginDrain \/ DrainNextQueue \/ FinishDrain
  BY <1>4 DEF FinishWait, BeginDrain, DrainNextQueue, FinishDrain, hostVars, deviceVars, InCall
<1>5. QED
  BY <1>1, <1>2, <1>3, <1>4 DEF Paused

(* Both ways to begin a submission take the next value and nothing else.    *)
BeginAny == \/ \E q \in Queues, D \in WaitValueSets : BeginSubmit(q, D)
            \/ \E q \in Queues, c \in Retainable : BeginSubmitImmutable(q, c)

LEMMA BeginFrame ==
  ASSUME BeginAny
  PROVE  /\ pc = "idle" /\ pc' = "throttle"
         /\ nextValue' = nextValue + 1 /\ call'.value = nextValue
         /\ UNCHANGED <<slotLastSignal, queueLastSignal, valueQueue, retained>>
         /\ UNCHANGED <<batches, started, retired, counter>>
  BY DEF BeginAny, BeginSubmit, BeginSubmitImmutable, deviceVars

(* Every step is one of these; each invariant is shown case by case.        *)
LEMMA StepCases ==
  ASSUME [Next]_vars
  PROVE  \/ BeginAny \/ PassThrottle \/ Enqueue \/ Paused
         \/ \E i \in Submitted : Start(i)
         \/ \E i \in Submitted : Retire(i)
         \/ UNCHANGED vars
  BY DEF Next, Host, Device, BeginAny, Paused

LEMMA ValuesStep == StreamInv /\ [Next]_vars => ValuesIncrease'
<1> SUFFICES ASSUME TypeOK, ValuesIncrease, [Next]_vars PROVE ValuesIncrease'
  BY DEF StreamInv
<1> USE DEF ValuesIncrease
<1>1. CASE BeginAny
  <2>1. nextValue \in Nat /\ nextValue > 0 /\ Submitted' = Submitted
    BY <1>1, BeginFrame, EngineAssumption DEF TypeOK, Submitted
  <2>2. QED
    BY <1>1, <2>1, BeginFrame, BatchTypes DEF InCall
<1>2. CASE PassThrottle
  BY <1>2 DEF PassThrottle, hostVars, InCall, Submitted
<1>3. CASE Enqueue
  <2>1. ~InCall' /\ InCall /\ nextValue' = nextValue
    BY <1>3 DEF Enqueue, InCall
  <2>2. /\ Submitted' = 1 .. Len(batches) + 1
        /\ batches'[Len(batches) + 1].value = call.value
        /\ \A i \in Submitted : batches'[i] = batches[i]
    BY <1>3, BatchTypes DEF Enqueue, Submitted, TypeOK
  <2>3. QED
    <3>1. call.value \in Nat /\ call.value < nextValue' /\ \A i \in Submitted : batches[i].value < call.value
      BY <2>1, LocalsTypes, EngineAssumption
    <3>2. \A i \in Submitted : batches'[i].value < call.value
      BY <2>2, <3>1
    <3>3. ASSUME NEW i \in Submitted', NEW j \in Submitted', i < j
          PROVE  batches'[i].value < batches'[j].value
      <4>1. i \in Submitted /\ (j \in Submitted \/ j = Len(batches) + 1)
        BY <2>2, <3>3, BatchTypes
      <4>2. QED
        BY <2>2, <3>2, <3>3, <4>1
    <3>4. ASSUME NEW i \in Submitted' PROVE batches'[i].value < nextValue'
      BY <2>1, <2>2, <3>1, BatchTypes
    <3>5. QED
      BY <2>1, <3>3, <3>4
<1>4. CASE Paused
  BY <1>4, PausedFrame DEF Submitted
<1>5. ASSUME NEW i \in Submitted, Start(i) \/ Retire(i) PROVE ValuesIncrease'
  BY <1>5 DEF Start, Retire, hostVars, InCall, Submitted
<1>6. CASE UNCHANGED vars
  BY <1>6 DEF vars, hostVars, InCall, Submitted
<1>7. QED
  BY <1>1, <1>2, <1>3, <1>4, <1>5, <1>6, StepCases

LEMMA CountersStep == StreamInv /\ [Next]_vars => CountersExact'
<1> SUFFICES ASSUME TypeOK, ValuesIncrease, CountersExact, [Next]_vars
             PROVE  CountersExact'
  BY DEF StreamInv
<1> USE DEF CountersExact
<1>1. CASE BeginAny
  <2>1. nextValue \in Nat /\ Submitted' = Submitted /\ counter \in [Queues -> 0 .. MaxValue]
    BY <1>1, BeginFrame, EngineAssumption DEF TypeOK, Submitted
  <2>2. QED
    BY <1>1, <2>1, BeginFrame, EngineAssumption
<1>2. CASE PassThrottle
  BY <1>2 DEF PassThrottle, hostVars, deviceVars, InCall, Submitted
<1>3. CASE Enqueue
  <2>1. ~InCall' /\ InCall /\ nextValue' = nextValue /\ counter' = counter /\ retired' = retired
    BY <1>3 DEF Enqueue, InCall, deviceVars
  <2>2. /\ Submitted' = 1 .. Len(batches) + 1
        /\ batches'[Len(batches) + 1].value = call.value
        /\ batches'[Len(batches) + 1].queue = call.queue
        /\ \A i \in Submitted : batches'[i] = batches[i]
    BY <1>3, BatchTypes DEF Enqueue, Submitted, TypeOK
  <2>3. Len(batches) + 1 \notin retired /\ counter[call.queue] < call.value
    BY <2>1, BatchTypes, LocalsTypes DEF TypeOK
  <2>4. counter[call.queue] \in Nat /\ call.value \in Nat
    BY LocalsTypes, EngineAssumption DEF TypeOK
  <2>5. QED
    BY <2>1, <2>2, <2>3, <2>4, BatchTypes
<1>4. CASE Paused
  BY <1>4, PausedFrame DEF Submitted
<1>5. ASSUME NEW i \in Submitted, Start(i) PROVE CountersExact'
  BY <1>5 DEF Start, hostVars, InCall, Submitted
<1>6. ASSUME NEW i \in Submitted, Retire(i) PROVE CountersExact'
  <2>1. /\ i \notin retired /\ Earlier(i) \subseteq retired
        /\ retired' = retired \cup {i} /\ batches' = batches /\ Submitted' = Submitted
        /\ nextValue' = nextValue /\ (InCall' <=> InCall) /\ call' = call
    BY <1>6 DEF Retire, hostVars, InCall, Submitted
  <2>2. counter' = [counter EXCEPT ![batches[i].queue] = batches[i].value]
    BY <1>6 DEF Retire
  <2>3. counter \in [Queues -> 0 .. MaxValue]
    BY DEF TypeOK
  <2>4. ASSUME NEW j \in Submitted
        PROVE  j \in retired' <=> counter'[batches[j].queue] >= batches[j].value
    <3>1. CASE batches[j].queue # batches[i].queue
      BY <2>1, <2>2, <2>3, <3>1, BatchTypes
    <3>2. CASE batches[j].queue = batches[i].queue /\ j <= i
      <4>1. j = i \/ j \in Earlier(i)
        BY <3>2, BatchTypes DEF Earlier
      <4>2. batches[j].value <= batches[i].value
        BY <3>2, BatchTypes DEF ValuesIncrease
      <4>3. QED
        BY <2>1, <2>2, <2>3, <3>2, <4>1, <4>2, BatchTypes
    <3>3. CASE batches[j].queue = batches[i].queue /\ j > i
      <4>1. batches[i].value < batches[j].value
        BY <3>3, BatchTypes DEF ValuesIncrease
      <4>2. j \notin retired
        BY <2>1, <2>3, <3>3, <4>1, BatchTypes, EngineAssumption
      <4>3. QED
        BY <2>1, <2>2, <2>3, <3>3, <4>1, <4>2, BatchTypes
    <3>4. QED
      BY <3>1, <3>2, <3>3, BatchTypes
  <2>5. batches[i].value < nextValue /\ (InCall => batches[i].value < call.value)
    BY DEF ValuesIncrease
  <2>6. QED
    BY <2>1, <2>2, <2>3, <2>4, <2>5
<1>7. CASE UNCHANGED vars
  BY <1>7 DEF vars, hostVars, deviceVars, InCall, Submitted
<1>8. QED
  BY <1>1, <1>2, <1>3, <1>4, <1>5, <1>6, <1>7, StepCases

(* A queue drain() has waited for holds no batch on the device.             *)
LEMMA SettledQueue ==
  ASSUME TypeOK, CountersExact, LastSignalsBound,
         NEW i \in Submitted, QueueSettled(batches[i].queue)
  PROVE  i \in retired
<1>1. /\ queueLastSignal[batches[i].queue] \in Nat
      /\ counter[batches[i].queue] \in Nat
      /\ batches[i].value \in Nat /\ batches[i].value > 0
  BY BatchTypes, EngineAssumption DEF TypeOK
<1>2. QED
  BY <1>1 DEF QueueSettled, CountersExact, LastSignalsBound

LEMMA LastSignalsStep == StreamInv /\ [Next]_vars => LastSignalsBound'
<1> SUFFICES ASSUME TypeOK, ValuesIncrease, CountersExact, LastSignalsBound, [Next]_vars
             PROVE  LastSignalsBound'
  BY DEF StreamInv
<1> USE DEF LastSignalsBound
<1>1. CASE BeginAny
  BY <1>1, BeginFrame DEF Submitted
<1>2. CASE PassThrottle
  BY <1>2 DEF PassThrottle, hostVars, deviceVars, Submitted
<1>3. CASE Enqueue
  <2>1. pc' = "idle" /\ InCall
        /\ queueLastSignal' = [queueLastSignal EXCEPT ![call.queue] = call.value]
    BY <1>3 DEF Enqueue, InCall
  <2>2. /\ Submitted' = 1 .. Len(batches) + 1
        /\ batches'[Len(batches) + 1].value = call.value
        /\ batches'[Len(batches) + 1].queue = call.queue
        /\ \A i \in Submitted : batches'[i] = batches[i]
    BY <1>3, BatchTypes DEF Enqueue, Submitted, TypeOK
  <2>3. queueLastSignal \in [Queues -> 0 .. MaxValue]
    BY DEF TypeOK
  <2>4. \A i \in Submitted : batches[i].value < call.value
    BY <2>1 DEF ValuesIncrease
  <2>5. QED
    BY <2>1, <2>2, <2>3, <2>4, BatchTypes, LocalsTypes
<1>4. CASE Paused /\ pc' # "draining"
  BY <1>4, PausedFrame DEF Submitted
<1>5. CASE BeginDrain
  <2>1. call'.queue = 0 /\ UNCHANGED <<batches, queueLastSignal, retired>>
    BY <1>5 DEF BeginDrain, NoCall, hostVars, deviceVars
  <2>2. QED
    BY <2>1, BatchTypes DEF Submitted, Queues
<1>6. CASE DrainNextQueue
  <2>1. /\ call'.queue = call.queue + 1 /\ pc = "draining"
        /\ UNCHANGED <<batches, queueLastSignal, retired>>
    BY <1>6 DEF DrainNextQueue, hostVars, deviceVars, TypeOK, Locals
  <2>2. ASSUME NEW i \in Submitted, batches[i].queue = call.queue PROVE i \in retired
    BY <1>6, <2>2, SettledQueue DEF DrainNextQueue
  <2>3. QED
    BY <2>1, <2>2, BatchTypes, LocalsTypes DEF Submitted, Queues
<1>7. CASE Paused /\ pc' = "draining"
  <2>1. (\E c \in Retainable : RecordImmutable(c)) => pc' = "idle"
    BY DEF RecordImmutable
  <2>2. CASE BeginDrain \/ DrainNextQueue
    BY <1>5, <1>6, <2>2
  <2>3. QED
    BY <1>7, <2>1, <2>2 DEF Paused, BeginWait, ThrottleThrows, CallFails, Abandon, FinishWait, FinishDrain
<1>8. ASSUME NEW i \in Submitted, Start(i) \/ Retire(i) PROVE LastSignalsBound'
  BY <1>8 DEF Start, Retire, hostVars, Submitted
<1>9. CASE UNCHANGED vars
  BY <1>9 DEF vars, hostVars, deviceVars, Submitted
<1>10. QED
  BY <1>1, <1>2, <1>3, <1>4, <1>7, <1>8, <1>9, StepCases

(* The stream invariant holds whatever fails.                               *)
THEOREM StreamInvariant == Spec => []StreamInv
<1>1. StreamInv /\ [Next]_vars => StreamInv'
  BY TypeStep, ValuesStep, CountersStep, LastSignalsStep DEF StreamInv
<1>2. QED
  BY StreamInit, <1>1, PTL DEF Spec

(* Every value, slot and queue index the engine stores stays in range, for  *)
(* every ring size, number of queues and pattern of failed calls.           *)
THEOREM TypeCorrect == Spec => []TypeOK
  BY StreamInvariant, PTL DEF StreamInv

(* No signal lowers or repeats a timeline: batches of one queue retire in   *)
(* submission order and carry increasing values, whatever failed meanwhile. *)
THEOREM SignalsOnlyAdvance == Spec => SignalsIncrease
<1>1. StreamInv /\ [Next]_vars =>
        [\A q \in Queues : counter'[q] # counter[q] => counter'[q] > counter[q]]_vars
  <2> DEFINE Advance == \A q \in Queues : counter'[q] # counter[q] => counter'[q] > counter[q]
  <2> SUFFICES ASSUME TypeOK, CountersExact, [Next]_vars PROVE Advance
    BY DEF StreamInv
  <2>1. CASE UNCHANGED counter
    BY <2>1
  <2>2. ASSUME NEW i \in Submitted, Retire(i) PROVE Advance
    <3>1. /\ counter' = [counter EXCEPT ![batches[i].queue] = batches[i].value]
          /\ i \notin retired
      BY <2>2 DEF Retire
    <3>2. counter[batches[i].queue] < batches[i].value
      BY <3>1, BatchTypes, EngineAssumption DEF CountersExact, TypeOK
    <3>3. QED
      BY <3>1, <3>2, BatchTypes DEF TypeOK
  <2>3. QED
    BY <2>1, <2>2, StepCases, BeginFrame, PausedFrame
       DEF PassThrottle, Enqueue, Start, vars, deviceVars
<1>2. QED
  BY StreamInvariant, <1>1, PTL DEF Spec, SignalsIncrease

(* drain() leaves the device empty, although it looks at one queue at a     *)
(* time and at one value per queue, and although calls failed before it.    *)
THEOREM DrainEmptiesDevice == Spec => DrainLeavesIdle
<1>1. StreamInv /\ FinishDrain => Pending = {}
  <2> SUFFICES ASSUME TypeOK, CountersExact, LastSignalsBound, FinishDrain,
                      NEW i \in Submitted
               PROVE  i \in retired
    BY DEF StreamInv, Pending
  <2>1. pc = "draining" /\ call.queue + 1 = NumQueues /\ QueueSettled(call.queue)
    BY DEF FinishDrain
  <2>2. batches[i].queue < call.queue \/ batches[i].queue = call.queue
    BY <2>1, BatchTypes, LocalsTypes, EngineAssumption DEF Queues
  <2>3. CASE batches[i].queue < call.queue
    BY <2>1, <2>3 DEF LastSignalsBound
  <2>4. CASE batches[i].queue = call.queue
    BY <2>1, <2>4, SettledQueue
  <2>5. QED
    BY <2>2, <2>3, <2>4
<1>2. QED
  BY StreamInvariant, <1>1, PTL DEF DrainLeavesIdle

-----------------------------------------------------------------------------
(* From here on no call fails: a value that is taken is submitted.          *)

LEMMA EngineInit == Init => EngineInv
<1> SUFFICES ASSUME Init PROVE MapInv /\ RingInv /\ WaitsInv
  BY StreamInit DEF EngineInv
<1>1. Submitted = {} /\ Len(batches) = 0 /\ started = {} /\ Len(valueQueue) = 0
  BY DEF Init, Submitted
<1>2. QED
  BY <1>1, EngineAssumption DEF Init, MapInv, RingInv, WaitsInv, StartAfterDeps, Pending, InCall, Slots

(* Nothing throws: the throttle always waits for a value the map covers.    *)
LEMMA NoThrow ==
  ASSUME Faults = FALSE, TypeOK, MapInv, RingInv
  PROVE  ~ThrottleThrows /\ ~CallFails
<1>1. slotLastSignal[call.slot] \in 0 .. Len(valueQueue)
  BY LocalsTypes, BatchTypes, EngineAssumption DEF TypeOK, MapInv, RingInv
<1>2. ~ThrottleThrows
  BY <1>1 DEF ThrottleThrows, Known
<1>3. QED
  BY <1>2 DEF CallFails

LEMMA PausedNoFault ==
  ASSUME Faults = FALSE, TypeOK, MapInv, RingInv, Paused
  PROVE  /\ InCall <=> InCall'
         /\ InCall => UNCHANGED <<pc, call>>
         /\ pc' = "waiting" => Known(call'.value)
<1>1. ~ThrottleThrows /\ ~CallFails
  BY NoThrow
<1>2. ASSUME NEW v \in 1 .. MaxValue, BeginWait(v) PROVE ~InCall /\ ~InCall' /\ Known(call'.value)
  BY <1>2 DEF BeginWait, NoCall, InCall
<1>3. ASSUME NEW c \in Retainable, RecordImmutable(c) PROVE ~InCall /\ ~InCall' /\ pc' # "waiting"
  BY <1>3 DEF RecordImmutable, InCall
<1>4. ASSUME FinishWait \/ BeginDrain \/ DrainNextQueue \/ FinishDrain
      PROVE ~InCall /\ ~InCall' /\ pc' # "waiting"
  BY <1>4 DEF FinishWait, BeginDrain, DrainNextQueue, FinishDrain, InCall
<1>5. QED
  BY <1>1, <1>2, <1>3, <1>4 DEF Paused

(* What Enqueue appends.                                                    *)
LEMMA EnqueueFrame ==
  ASSUME TypeOK, Enqueue
  PROVE  /\ pc = "ready" /\ pc' = "idle" /\ nextValue' = nextValue
         /\ Submitted' = 1 .. Len(batches) + 1 /\ Len(batches') = Len(batches) + 1
         /\ \A i \in Submitted : batches'[i] = batches[i]
         /\ batches'[Len(batches) + 1] =
              [value |-> call.value, queue |-> call.queue, cmd |-> call.cmd,
               needs |-> Named(call.deps), waits |-> DeviceWaits(call.deps)]
         /\ Len(valueQueue') = Len(valueQueue) + 1
         /\ \A v \in 1 .. Len(valueQueue) : valueQueue'[v] = valueQueue[v]
         /\ valueQueue'[Len(valueQueue) + 1] = call.queue
         /\ slotLastSignal' = [slotLastSignal EXCEPT ![call.slot] = call.value]
         /\ UNCHANGED <<started, retired, retained, counter>>
<1> DEFINE b == [value |-> call.value, queue |-> call.queue, cmd |-> call.cmd,
                 needs |-> Named(call.deps), waits |-> DeviceWaits(call.deps)]
<1>1. batches' = Append(batches, b) /\ valueQueue' = Append(valueQueue, call.queue)
  BY DEF Enqueue
<1> HIDE DEF b
<1>2. batches \in Seq(Batch) /\ valueQueue \in Seq(Queues)
  BY DEF TypeOK
<1>3. /\ Submitted' = 1 .. Len(batches) + 1 /\ Len(batches') = Len(batches) + 1
      /\ \A i \in Submitted : batches'[i] = batches[i]
      /\ batches'[Len(batches) + 1] = b
  BY <1>1, <1>2 DEF Submitted
<1>4. /\ Len(valueQueue') = Len(valueQueue) + 1
      /\ \A v \in 1 .. Len(valueQueue) : valueQueue'[v] = valueQueue[v]
      /\ valueQueue'[Len(valueQueue) + 1] = call.queue
  BY <1>1, <1>2
<1>5. QED
  BY <1>3, <1>4 DEF Enqueue, b, deviceVars

LEMMA MapStep ==
  ASSUME Faults = FALSE, EngineInv, [Next]_vars
  PROVE  MapInv'
<1>1. TypeOK /\ ValuesIncrease /\ MapInv /\ RingInv
  BY DEF EngineInv, StreamInv
<1>2. nextValue \in Nat /\ Len(batches) \in Nat /\ Len(valueQueue) \in Nat
  BY <1>1, BatchTypes, EngineAssumption DEF TypeOK
<1>3. CASE BeginAny
  BY <1>1, <1>2, <1>3, BeginFrame DEF MapInv, InCall, Submitted
<1>4. CASE PassThrottle
  BY <1>1, <1>4 DEF PassThrottle, hostVars, MapInv, InCall, Submitted
<1>5. CASE Enqueue
  <2>1. call.value = Len(batches) + 1 /\ InCall /\ ~InCall'
    BY <1>1, <1>2, <1>5, EnqueueFrame, LocalsTypes, EngineAssumption DEF MapInv, ValuesIncrease, InCall
  <2>2. \A i \in Submitted' : batches'[i].value = i /\ valueQueue'[i] = batches'[i].queue
    <3>1. SUFFICES ASSUME NEW i \in Submitted'
                   PROVE  batches'[i].value = i /\ valueQueue'[i] = batches'[i].queue
      OBVIOUS
    <3>2. i \in Submitted \/ i = Len(batches) + 1
      BY <1>1, <1>2, <1>5, <3>1, EnqueueFrame, BatchTypes
    <3>3. CASE i \in Submitted
      BY <1>1, <1>5, <3>3, EnqueueFrame, BatchTypes DEF MapInv
    <3>4. CASE i = Len(batches) + 1
      BY <1>1, <1>5, <2>1, <3>4, EnqueueFrame DEF MapInv
    <3>5. QED
      BY <3>2, <3>3, <3>4
  <2>3. QED
    BY <1>1, <1>2, <1>5, <2>1, <2>2, EnqueueFrame DEF MapInv
<1>6. CASE Paused
  BY <1>1, <1>6, PausedFrame, PausedNoFault DEF MapInv, Submitted, Known
<1>7. ASSUME NEW i \in Submitted, Start(i) \/ Retire(i) PROVE MapInv'
  BY <1>1, <1>7 DEF Start, Retire, hostVars, MapInv, InCall, Submitted, Known
<1>8. CASE UNCHANGED vars
  BY <1>1, <1>8 DEF vars, hostVars, MapInv, InCall, Submitted, Known
<1>9. QED
  BY <1>3, <1>4, <1>5, <1>6, <1>7, <1>8, StepCases

(* The throttle waited for the last batch of the slot of the call.          *)
LEMMA ThrottlePassed ==
  ASSUME TypeOK, CountersExact, MapInv, RingInv, PassThrottle
  PROVE  slotLastSignal[call.slot] \notin Pending
<1> DEFINE last == slotLastSignal[call.slot]
<1>1. last \in Nat /\ last <= Len(batches)
  BY LocalsTypes, EngineAssumption DEF TypeOK, RingInv
<1>2. CASE last = 0
  BY <1>2, BatchTypes DEF Pending
<1>3. CASE last # 0
  <2>1. last \in Submitted
    BY <1>1, <1>3, BatchTypes
  <2>2. counter[batches[last].queue] >= batches[last].value
    BY <1>3, <2>1 DEF PassThrottle, Reached, MapInv
  <2>3. QED
    BY <2>1, <2>2 DEF CountersExact, Pending
<1>4. QED
  BY <1>2, <1>3

LEMMA RingStep ==
  ASSUME Faults = FALSE, EngineInv, [Next]_vars
  PROVE  RingInv'
<1>1. TypeOK /\ ValuesIncrease /\ CountersExact /\ MapInv /\ RingInv
  BY DEF EngineInv, StreamInv
<1>2. CASE BeginAny
  <2>1. call'.slot = GuardSlot(call'.cmd) /\ call'.cmd \in Slots \cup retained
    <3>1. ASSUME NEW q \in Queues, NEW D \in WaitValueSets, BeginSubmit(q, D)
          PROVE  call'.slot = call'.cmd /\ call'.cmd \in Slots
      BY <1>1, <3>1, EngineAssumption DEF BeginSubmit, Slots, TypeOK
    <3>2. ASSUME NEW q \in Queues, NEW c \in Retainable, BeginSubmitImmutable(q, c)
          PROVE  call'.slot = 0 /\ call'.cmd \in retained /\ call'.cmd \notin Slots
      BY <3>2, EngineAssumption DEF BeginSubmitImmutable, Slots, Retainable
    <3>3. QED
      BY <1>2, <3>1, <3>2 DEF BeginAny, GuardSlot
  <2>2. QED
    BY <1>1, <1>2, <2>1, BeginFrame DEF RingInv, Submitted, Pending, InCall
<1>3. CASE PassThrottle
  <2>1. UNCHANGED <<slotLastSignal, retained, batches, retired, call>> /\ InCall
    BY <1>3 DEF PassThrottle, hostVars, deviceVars, InCall
  <2>2. QED
    BY <1>1, <1>3, <2>1, ThrottlePassed DEF RingInv, Submitted, Pending
<1>4. CASE Enqueue
  <2>1. /\ call.value = Len(batches) + 1 /\ call.slot = GuardSlot(call.cmd)
        /\ call.cmd \in Slots \cup retained /\ slotLastSignal[call.slot] \notin Pending
        /\ call.slot \in Slots /\ Len(batches) \in Nat
    BY <1>1, <1>4, EnqueueFrame, LocalsTypes, BatchTypes, EngineAssumption, SMTT(30)
       DEF MapInv, RingInv, ValuesIncrease, InCall, TypeOK
  <2>2. slotLastSignal \in [Slots -> 0 .. MaxValue] /\ Pending \subseteq Submitted
    BY <1>1 DEF TypeOK, Pending
  <2>3. \A s \in Slots : slotLastSignal'[s] <= Len(batches')
    BY <1>1, <1>4, <2>1, <2>2, EnqueueFrame, EngineAssumption DEF RingInv
  <2>4. ASSUME NEW i \in Pending'
        PROVE  slotLastSignal'[GuardSlot(batches'[i].cmd)] = i
    <3>1. i \in Pending \/ i = Len(batches) + 1
      BY <1>1, <1>4, EnqueueFrame, BatchTypes DEF Pending
    <3>2. CASE i \in Pending
      <4>1. slotLastSignal[GuardSlot(batches[i].cmd)] = i /\ batches'[i] = batches[i]
        BY <1>1, <1>4, <2>2, <3>2, EnqueueFrame DEF RingInv
      <4>2. GuardSlot(batches[i].cmd) # call.slot
        BY <2>1, <3>2, <4>1
      <4>3. GuardSlot(batches[i].cmd) \in Slots
        BY EngineAssumption DEF GuardSlot, Slots
      <4>4. QED
        BY <1>1, <1>4, <2>2, <4>1, <4>2, <4>3, EnqueueFrame
    <3>3. CASE i = Len(batches) + 1
      BY <1>1, <1>4, <2>1, <2>2, <3>3, EnqueueFrame
    <3>4. QED
      BY <3>1, <3>2, <3>3
  <2>5. ASSUME NEW i \in Submitted' PROVE batches'[i].cmd \in Slots \cup retained'
    <3>1. i \in Submitted \/ i = Len(batches) + 1
      BY <1>1, <1>4, EnqueueFrame, BatchTypes
    <3>2. QED
      BY <1>1, <1>4, <2>1, <3>1, EnqueueFrame DEF RingInv
  <2>6. QED
    BY <1>1, <1>4, <2>3, <2>4, <2>5, EnqueueFrame DEF RingInv, InCall
<1>5. CASE Paused
  BY <1>1, <1>5, PausedFrame, PausedNoFault DEF RingInv, Submitted, Pending, InCall
<1>6. ASSUME NEW i \in Submitted, Start(i) \/ Retire(i) PROVE RingInv'
  <2>1. /\ UNCHANGED <<slotLastSignal, retained, batches, call, pc>>
        /\ retired \subseteq retired'
    BY <1>6 DEF Start, Retire, hostVars
  <2>2. QED
    BY <1>1, <2>1 DEF RingInv, Submitted, Pending, InCall
<1>7. CASE UNCHANGED vars
  BY <1>1, <1>7 DEF vars, hostVars, deviceVars, RingInv, InCall, Submitted, Pending
<1>8. QED
  BY <1>2, <1>3, <1>4, <1>5, <1>6, <1>7, StepCases

LEMMA WaitsStep ==
  ASSUME Faults = FALSE, EngineInv, [Next]_vars
  PROVE  WaitsInv'
<1>1. TypeOK /\ CountersExact /\ MapInv /\ WaitsInv
  BY DEF EngineInv, StreamInv
<1> USE DEF WaitsInv, StartAfterDeps
<1>2. CASE BeginAny
  BY <1>1, <1>2, BeginFrame DEF Submitted
<1>3. CASE PassThrottle
  BY <1>1, <1>3 DEF PassThrottle, deviceVars, Submitted
<1>4. CASE Enqueue
  <2> DEFINE n == Len(batches) + 1
  <2>1. /\ batches'[n].needs = Named(call.deps) /\ batches'[n].waits = DeviceWaits(call.deps)
        /\ Submitted' = 1 .. n /\ \A i \in Submitted : batches'[i] = batches[i]
        /\ Submitted = 1 .. n - 1 /\ n \in Nat
        /\ started' = started /\ retired' = retired
    BY <1>1, <1>4, EnqueueFrame, BatchTypes
  <2> HIDE DEF n
  <2>2. Named(call.deps) \subseteq 1 .. n - 1
    BY <2>1 DEF Named
  <2>3. ASSUME NEW j \in Named(call.deps)
        PROVE  DeviceWaits(call.deps)[batches[j].queue] >= batches[j].value
    <3>1. j \in Submitted /\ batches[j].value = j /\ valueQueue[j] = batches[j].queue
      BY <1>1 DEF Named, MapInv
    <3>2. j \in call.deps /\ Known(j)
      BY <1>1, <2>1, <3>1 DEF Named, MapInv, Known, n
    <3>3. QED
      BY <1>1, <3>1, <3>2, DeviceWaitsBound DEF TypeOK
  <2>4. \A i \in Submitted' : i \in Submitted \/ i = n
    BY <2>1
  <2>5. \A i \in Submitted' : batches'[i].needs \subseteq 1 .. i - 1
    BY <1>1, <2>1, <2>2, <2>4
  <2>6. ASSUME NEW i \in Submitted', NEW j \in batches'[i].needs
        PROVE  batches'[i].waits[batches'[j].queue] >= batches'[j].value
    <3>1. j \in Submitted
      BY <2>1, <2>5
    <3>2. QED
      BY <1>1, <2>1, <2>3, <2>4, <3>1
  <2>7. \A i \in started' : batches'[i].needs \subseteq retired'
    BY <1>1, <2>1 DEF TypeOK
  <2>8. QED
    BY <2>5, <2>6, <2>7
<1>5. CASE Paused
  BY <1>1, <1>5, PausedFrame DEF Submitted
<1>6. ASSUME NEW i \in Submitted, Start(i) PROVE WaitsInv'
  <2>1. batches[i].needs \subseteq retired
    <3>1. SUFFICES ASSUME NEW j \in batches[i].needs PROVE j \in retired
      OBVIOUS
    <3>2. j \in Submitted
      BY <1>1, BatchTypes
    <3>3. batches[i].waits[batches[j].queue] >= batches[j].value
      BY <1>1
    <3>4. counter[batches[j].queue] >= batches[i].waits[batches[j].queue]
      BY <1>1, <1>6, <3>2, BatchTypes DEF Start, WaitsReached
    <3>5. /\ counter[batches[j].queue] \in Nat /\ batches[j].value \in Nat
          /\ batches[i].waits[batches[j].queue] \in Nat
      BY <1>1, <3>2, BatchTypes, EngineAssumption DEF TypeOK
    <3>6. QED
      BY <1>1, <3>2, <3>3, <3>4, <3>5 DEF CountersExact
  <2>2. QED
    BY <1>1, <1>6, <2>1 DEF Start, Submitted
<1>7. ASSUME NEW i \in Submitted, Retire(i) PROVE WaitsInv'
  BY <1>1, <1>7 DEF Retire, Submitted
<1>8. CASE UNCHANGED vars
  BY <1>1, <1>8 DEF vars, deviceVars, Submitted
<1>9. QED
  BY <1>2, <1>3, <1>4, <1>5, <1>6, <1>7, <1>8, StepCases

(* The inductive invariant of the engine while no call fails.               *)
THEOREM EngineInvariant == ASSUME Faults = FALSE PROVE Spec => []EngineInv
<1>1. EngineInv /\ [Next]_vars => EngineInv'
  BY TypeStep, ValuesStep, CountersStep, LastSignalsStep, MapStep, RingStep, WaitsStep
     DEF EngineInv, StreamInv
<1>2. QED
  BY EngineInit, <1>1, PTL DEF Spec

-----------------------------------------------------------------------------
(* No command buffer is reset, re-recorded or resubmitted while a batch     *)
(* that uses it is on the device.                                           *)
THEOREM BuffersAreFree == ASSUME Faults = FALSE PROVE Spec => []BufferFree
<1>1. EngineInv => BufferFree
  <2> SUFFICES ASSUME TypeOK, RingInv PROVE BufferFree
    BY DEF EngineInv, StreamInv
  <2>1. ASSUME pc = "ready", NEW i \in Pending PROVE call.cmd # batches[i].cmd
    BY <2>1 DEF RingInv, InCall
  <2>2. ASSUME NEW i \in Pending, batches[i].cmd \in Retainable
        PROVE  batches[i].cmd \in retained
    BY <2>2, EngineAssumption DEF RingInv, Pending, Retainable, Slots
  <2>3. QED
    BY <2>1, <2>2 DEF BufferFree, PendingBuffers
<1>2. QED
  BY EngineInvariant, <1>1, PTL

(* Distinct pending batches occupy distinct slots: slotLastSignal inverts   *)
(* the map from a batch to the slot that guards its buffer.                 *)
LEMMA PendingInSlots ==
  ASSUME TypeOK, RingInv, NEW S, \A i \in Pending : GuardSlot(batches[i].cmd) \in S,
         IsFiniteSet(S)
  PROVE  IsFiniteSet(Pending) /\ Cardinality(Pending) <= Cardinality(S)
<1> DEFINE f == [i \in Pending |-> GuardSlot(batches[i].cmd)]
<1>1. \A i, j \in Pending : f[i] = f[j] => i = j
  BY DEF RingInv
<1>2. f \in Injection(Pending, S)
  BY <1>1 DEF Injection, IsInjective
<1> HIDE DEF f
<1>3. QED
  BY <1>2, FS_Injection

LEMMA SlotsFinite == IsFiniteSet(Slots) /\ Cardinality(Slots) = RingSlots
<1>1. RingSlots - 1 \in Int /\ ~(0 > RingSlots - 1) /\ RingSlots - 1 - 0 + 1 = RingSlots
  BY EngineAssumption
<1>2. QED
  BY <1>1, FS_Interval DEF Slots

LEMMA GuardSlotType == \A c : GuardSlot(c) \in Slots
  BY EngineAssumption DEF GuardSlot, Slots

(* The device never holds more than RingSlots batches, the resubmissions of *)
(* retained buffers included.                                               *)
THEOREM RingBoundsPending == ASSUME Faults = FALSE PROVE Spec => []ThrottleBound
<1>1. EngineInv => ThrottleBound
  BY PendingInSlots, SlotsFinite, GuardSlotType DEF EngineInv, StreamInv, ThrottleBound
<1>2. QED
  BY EngineInvariant, <1>1, PTL

(* A batch starts only after every batch its caller named has retired.      *)
THEOREM DependenciesRespected == ASSUME Faults = FALSE PROVE Spec => []StartAfterDeps
<1>1. EngineInv => StartAfterDeps
  BY DEF EngineInv, WaitsInv
<1>2. QED
  BY EngineInvariant, <1>1, PTL

(* wait(v) returns only when the batch that carries v has retired.          *)
THEOREM WaitMeansRetired == ASSUME Faults = FALSE PROVE Spec => WaitReturnsRetired
<1>1. EngineInv /\ FinishWait => \E i \in retired : batches[i].value = call.value
  <2> SUFFICES ASSUME TypeOK, CountersExact, MapInv, FinishWait
               PROVE  \E i \in retired : batches[i].value = call.value
    BY DEF EngineInv, StreamInv
  <2>1. call.value \in Submitted /\ Reached(call.value)
    BY BatchTypes DEF FinishWait, MapInv, Known
  <2>2. call.value \in retired /\ batches[call.value].value = call.value
    BY <2>1 DEF Reached, MapInv, CountersExact
  <2>3. QED
    BY <2>2
<1>2. QED
  BY EngineInvariant, <1>1, PTL DEF WaitReturnsRetired

(* inFlight() counts exactly the batches the device has not retired.        *)
THEOREM InFlightCounts == ASSUME Faults = FALSE PROVE Spec => []InFlightExact
<1>1. EngineInv => InFlightExact
  <2> SUFFICES ASSUME TypeOK, CountersExact, MapInv, ~InCall
               PROVE  InFlight = Cardinality(Pending)
    BY DEF EngineInv, StreamInv, InFlightExact, InCall
  <2>1. 1 .. nextValue - 1 = Submitted /\ IsFiniteSet(Submitted) /\ retired \subseteq Submitted
    <3>1. Submitted = 1 .. Len(batches) /\ Len(batches) \in Nat /\ nextValue - 1 = Len(batches)
      BY BatchTypes DEF MapInv
    <3>2. IsFiniteSet(1 .. Len(batches))
      BY <3>1, FS_Interval
    <3>3. QED
      BY <3>1, <3>2 DEF TypeOK
  <2>2. {v \in Submitted : counter[valueQueue[v]] >= v} = retired
    BY <2>1 DEF CountersExact, MapInv
  <2>3. Cardinality(Submitted \ retired) = Cardinality(Submitted) - Cardinality(retired)
    <3>1. Submitted \cap retired = retired
      BY <2>1
    <3>2. QED
      BY <2>1, <3>1, FS_Difference
  <2>4. QED
    BY <2>1, <2>2, <2>3 DEF InFlight, Pending
<1>2. QED
  BY EngineInvariant, <1>1, PTL

-----------------------------------------------------------------------------
(* The engine implements the abstract executor.                             *)
tasks == [i \in 1 .. Len(batches) |-> batches[i].needs]

LEMMA TaskTypes ==
  ASSUME TypeOK
  PROVE  /\ DOMAIN tasks = Submitted
         /\ Tasks!Accepted = Submitted
         /\ \A i \in Submitted : tasks[i] = batches[i].needs
  BY BatchTypes DEF tasks, Tasks!Accepted

LEMMA EnqueueAccepts ==
  ASSUME Faults = FALSE, EngineInv, Enqueue
  PROVE  \E D \in SUBSET Tasks!Accepted : Tasks!Accept(D)
<1>1. TypeOK /\ MapInv /\ RingInv
  BY DEF EngineInv, StreamInv
<1> SUFFICES ASSUME NEW D, D = Named(call.deps)
             PROVE  \E C \in SUBSET Tasks!Accepted : Tasks!Accept(C)
  OBVIOUS
<1>2. D \in SUBSET Tasks!Accepted
  BY <1>1, TaskTypes DEF Named
<1>3. Cardinality(Pending) < RingSlots
  <2> DEFINE S == Slots \ {call.slot}
  <2>1. IsFiniteSet(S) /\ Cardinality(S) = RingSlots - 1
    BY <1>1, SlotsFinite, FS_RemoveElement, LocalsTypes
  <2>2. \A i \in Pending : GuardSlot(batches[i].cmd) \in S
    BY <1>1, GuardSlotType, EnqueueFrame DEF RingInv
  <2> HIDE DEF S
  <2>3. IsFiniteSet(Pending) /\ Cardinality(Pending) <= Cardinality(S)
    BY <1>1, <2>1, <2>2, PendingInSlots
  <2>4. Cardinality(Pending) \in Nat
    BY <2>3, FS_CardinalityType
  <2>5. QED
    BY <2>1, <2>3, <2>4, EngineAssumption
<1>4. tasks' = Append(tasks, D)
  <2>1. /\ Len(batches') = Len(batches) + 1 /\ Len(batches) \in Nat
        /\ \A i \in 1 .. Len(batches) : batches'[i].needs = batches[i].needs
        /\ batches'[Len(batches) + 1].needs = D
    <3>1. Submitted = 1 .. Len(batches) /\ Len(batches) \in Nat
      BY <1>1, BatchTypes
    <3>2. \A i \in Submitted : batches'[i] = batches[i]
      BY <1>1, EnqueueFrame
    <3>3. batches'[Len(batches) + 1].needs = Named(call.deps)
      BY <1>1, EnqueueFrame
    <3>4. Len(batches') = Len(batches) + 1
      BY <1>1, EnqueueFrame
    <3>5. QED
      BY <3>1, <3>2, <3>3, <3>4
  <2>2. tasks \in Seq(SUBSET Nat) /\ Len(tasks) = Len(batches)
    BY <1>1, BatchTypes DEF tasks
  <2>3. QED
    BY <2>1, <2>2 DEF tasks
<1>5. Tasks!Cardinality(Tasks!Accepted \ retired) < RingSlots
  BY <1>1, <1>3, TaskTypes DEF Pending, Cardinality, Tasks!Cardinality
<1>6. started' = started /\ retired' = retired
  BY <1>1, EnqueueFrame
<1>7. Tasks!Accept(D)
  BY <1>4, <1>5, <1>6 DEF Tasks!Accept, tasks
<1>8. QED
  BY <1>2, <1>7

THEOREM Refinement == ASSUME Faults = FALSE PROVE Spec => ImplementsTasks
<1>1. Init => Tasks!Init
  BY DEF Init, Tasks!Init
<1>2. EngineInv /\ [Next]_vars => [Tasks!Next]_(Tasks!taskVars)
  <2> SUFFICES ASSUME EngineInv, [Next]_vars
               PROVE  [Tasks!Next]_(Tasks!taskVars)
    OBVIOUS
  <2>1. TypeOK /\ WaitsInv
    BY DEF EngineInv, StreamInv
  <2>2. CASE Enqueue
    BY <2>2, EnqueueAccepts DEF Tasks!Next
  <2>3. CASE BeginAny \/ PassThrottle \/ Paused \/ UNCHANGED vars
    <3>1. UNCHANGED <<batches, started, retired>>
      BY <2>3, BeginFrame, PausedFrame DEF PassThrottle, vars, deviceVars
    <3>2. QED
      BY <3>1 DEF Tasks!taskVars
  <2>4. ASSUME NEW i \in Submitted, Start(i) PROVE Tasks!Begin(i)
    <3>1. batches[i].needs \subseteq retired
      <4>1. EngineInv'
        BY TypeStep, ValuesStep, CountersStep, LastSignalsStep, MapStep, RingStep, WaitsStep
           DEF EngineInv, StreamInv
      <4>2. batches' = batches /\ retired' = retired /\ i \in started'
        BY <2>4 DEF Start
      <4>3. QED
        BY <4>1, <4>2 DEF EngineInv, WaitsInv, StartAfterDeps
    <3>2. /\ UNCHANGED <<batches, retired>> /\ started' = started \cup {i}
          /\ i \notin started
      BY <2>4 DEF Start, hostVars
    <3>3. i \in Tasks!Accepted /\ tasks[i] = batches[i].needs
      BY <2>1, TaskTypes
    <3>4. QED
      BY <3>1, <3>2, <3>3 DEF Tasks!Begin, tasks
  <2>5. ASSUME NEW i \in Submitted, Retire(i) PROVE Tasks!Finish(i)
    BY <2>5 DEF Retire, Tasks!Finish
  <2>6. QED
    BY <2>1, <2>2, <2>3, <2>4, <2>5, StepCases, TaskTypes DEF Tasks!Next
<1>3. QED
  BY EngineInvariant, <1>1, <1>2, PTL DEF Spec, ImplementsTasks, Tasks!Spec

=============================================================================
