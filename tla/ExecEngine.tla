----------------------------- MODULE ExecEngine -----------------------------
(***************************************************************************)
(* The N-slot ring execution engine of the Vulkan runtime                  *)
(* (vulkan-runtime/src/exec/engine.{h,cpp}) together with the device it    *)
(* drives.                                                                 *)
(*                                                                         *)
(* Host.  One thread calls submit, submitImmutable, recordImmutable, wait  *)
(* and drain.  A call that waits on the device is split where it blocks,   *)
(* so that the device can advance in between; `pc' says where the calling  *)
(* thread stands and `call' holds the locals of the call in progress.      *)
(*                                                                         *)
(* Device.  A batch handed to vkQueueSubmit starts once every timeline     *)
(* semaphore it waits on has reached the given value, and retires by       *)
(* advancing the timeline of its own queue.  Batches of one queue may run  *)
(* at the same time but signal in the order they were submitted; nothing   *)
(* orders the batches of different queues.                                 *)
(***************************************************************************)
EXTENDS Integers, Sequences, FiniteSets

CONSTANTS
  RingSlots,  \* command buffers in the ring (the constructor turns 0 into 1)
  NumQueues,  \* compute queues really created (never 0, see the constructor)
  MaxValue,   \* bound: the largest timeline value a run hands out
  MaxDeps,    \* bound: the number of wait values passed to one submit
  Faults      \* whether a Vulkan call or a record callback may throw

ASSUME EngineAssumption ==
  /\ RingSlots \in Nat \ {0}
  /\ NumQueues \in Nat \ {0}
  /\ MaxValue \in Nat
  /\ MaxDeps \in Nat
  /\ Faults \in BOOLEAN

VARIABLES
  nextValue,        \* nextValue_
  slotLastSignal,   \* slotLastSignal_: last value submitted through a slot
  queueLastSignal,  \* queueLastSignal_: last value submitted to a queue
  valueQueue,       \* valueQueue_ without its sentinel: valueQueue[v] is entry v
  retained,         \* the retained command buffers already recorded
  pc,               \* where the host thread stands
  call,             \* locals of the call in progress
  batches,          \* everything handed to vkQueueSubmit, in submission order
  started,          \* indices of the batches the device has started
  retired,          \* indices of the batches that have signaled
  counter           \* counter of each queue's timeline semaphore

hostVars   == <<nextValue, slotLastSignal, queueLastSignal, valueQueue, retained>>
deviceVars == <<started, retired, counter>>
vars       == <<hostVars, pc, call, batches, deviceVars>>

-----------------------------------------------------------------------------
Queues == 0 .. NumQueues - 1
Slots  == 0 .. RingSlots - 1

(* cmdBuffers_ holds one buffer per slot and, behind them, the two retained *)
(* ones.                                                                    *)
Retainable     == {RingSlots, RingSlots + 1}
CommandBuffers == Slots \cup Retainable

(* The slot whose last signal guards a command buffer: retained buffers are *)
(* all serialized through the front slot.                                   *)
GuardSlot(c) == IF c \in Slots THEN c ELSE 0

Submitted == DOMAIN batches
Pending   == Submitted \ retired

NoCall == [value |-> 0, queue |-> 0, slot |-> 0, cmd |-> 0, deps |-> {}]

(* The dependency sets a caller may pass: 0 and values not handed out yet   *)
(* are accepted by submit, which skips them.                                *)
WaitValueSets == {D \in SUBSET (0 .. nextValue) : Cardinality(D) <= MaxDeps}

Init ==
  /\ nextValue = 1
  /\ slotLastSignal = [s \in Slots |-> 0]
  /\ queueLastSignal = [q \in Queues |-> 0]
  /\ valueQueue = <<>>
  /\ retained = {}
  /\ pc = "idle"
  /\ call = NoCall
  /\ batches = <<>>
  /\ started = {}
  /\ retired = {}
  /\ counter = [q \in Queues |-> 0]

-----------------------------------------------------------------------------
(* Values the value -> queue map covers, and whether wait() on one of them  *)
(* returns: the counter of the queue the map names has reached it.          *)
Known(v) == v \in 1 .. Len(valueQueue)

ReachedOnFirstQueue(v) == counter[0] >= v             \* mutant: one timeline
ReachedStrictly(v) == counter[valueQueue[v]] > v      \* mutant: off by one

Reached(v) == counter[valueQueue[v]] >= v

Latest(S) == CHOOSE m \in S \cup {0} : \A x \in S : x <= m

(* Mutants: the smallest value of each queue; waits on unassigned values.   *)
DeviceWaitsSmallest(deps) ==
  [q \in Queues |->
     LET D == {d \in deps : Known(d) /\ valueQueue[d] = q}
     IN  IF D = {} THEN 0 ELSE CHOOSE m \in D : \A x \in D : m <= x]

DeviceWaitsUnfiltered(deps) ==
  [q \in Queues |->
     Latest({d \in deps : (IF Known(d) THEN valueQueue[d] ELSE 0) = q})]

(* The device-side waits of a submit: one value per queue, the largest of   *)
(* the requested values the map assigns to it.                              *)
DeviceWaits(deps) ==
  [q \in Queues |-> Latest({d \in deps : Known(d) /\ valueQueue[d] = q})]

(* The batches already submitted that a set of values names: recorded with  *)
(* each batch so that properties can speak of what the caller asked for.    *)
Named(deps) == {j \in Submitted : batches[j].value \in deps}

(* Mutant: the slot index is not wrapped around the ring.                   *)
BeginSubmitUnwrapped(q, deps) ==
  /\ pc = "idle"
  /\ nextValue <= MaxValue
  /\ nextValue' = nextValue + 1
  /\ pc' = "throttle"
  /\ call' = [value |-> nextValue, queue |-> q, slot |-> nextValue - 1,
              cmd |-> nextValue - 1, deps |-> deps]
  /\ UNCHANGED <<slotLastSignal, queueLastSignal, valueQueue, retained>>
  /\ UNCHANGED <<batches, deviceVars>>

(* submit up to the throttle: the value is taken before anything can fail.  *)
BeginSubmit(q, deps) ==
  /\ pc = "idle"
  /\ nextValue <= MaxValue
  /\ nextValue' = nextValue + 1
  /\ pc' = "throttle"
  /\ LET slot == (nextValue - 1) % RingSlots
     IN  call' = [value |-> nextValue, queue |-> q, slot |-> slot,
                  cmd |-> slot, deps |-> deps]
  /\ UNCHANGED <<slotLastSignal, queueLastSignal, valueQueue, retained>>
  /\ UNCHANGED <<batches, deviceVars>>

(* Mutant: a resubmission is guarded by the slot its value falls on.        *)
BeginSubmitImmutableRotating(q, c) ==
  /\ pc = "idle"
  /\ c \in retained
  /\ nextValue <= MaxValue
  /\ nextValue' = nextValue + 1
  /\ pc' = "throttle"
  /\ call' = [value |-> nextValue, queue |-> q, cmd |-> c, deps |-> {},
              slot |-> (nextValue - 1) % RingSlots]
  /\ UNCHANGED <<slotLastSignal, queueLastSignal, valueQueue, retained>>
  /\ UNCHANGED <<batches, deviceVars>>

(* submitImmutable up to the throttle.                                      *)
BeginSubmitImmutable(q, c) ==
  /\ pc = "idle"
  /\ c \in retained
  /\ nextValue <= MaxValue
  /\ nextValue' = nextValue + 1
  /\ pc' = "throttle"
  /\ call' = [value |-> nextValue, queue |-> q, slot |-> 0, cmd |-> c, deps |-> {}]
  /\ UNCHANGED <<slotLastSignal, queueLastSignal, valueQueue, retained>>
  /\ UNCHANGED <<batches, deviceVars>>

(* Mutant: the throttle is skipped.                                         *)
PassThrottleUnchecked ==
  /\ pc = "throttle"
  /\ pc' = "ready"
  /\ UNCHANGED <<hostVars, call, batches, deviceVars>>

(* The host wait on the slot's own last value.  From "ready" on, the slot's *)
(* command buffer is reset and recorded (or the retained one resubmitted).  *)
PassThrottle ==
  /\ pc = "throttle"
  /\ LET last == slotLastSignal[call.slot]
     IN  last # 0 => Known(last) /\ Reached(last)
  /\ pc' = "ready"
  /\ UNCHANGED <<hostVars, call, batches, deviceVars>>

(* The exception leaves the call; nothing done before it is undone.         *)
Abandon ==
  /\ pc' = "idle"
  /\ call' = NoCall
  /\ UNCHANGED <<hostVars, batches, deviceVars>>

(* wait() refuses a value the map does not cover.                           *)
ThrottleThrows ==
  /\ pc = "throttle"
  /\ slotLastSignal[call.slot] # 0
  /\ ~Known(slotLastSignal[call.slot])
  /\ Abandon

(* waitSemaphores, reset, begin, the record callback, end or vkQueueSubmit  *)
(* throws.                                                                  *)
CallFails ==
  /\ Faults
  /\ pc # "idle"
  /\ Abandon

(* The tail of submit and submitImmutable: vkQueueSubmit and bookkeeping.   *)
Enqueue ==
  /\ pc = "ready"
  /\ batches' = Append(batches, [value |-> call.value, queue |-> call.queue,
                                 cmd |-> call.cmd, needs |-> Named(call.deps),
                                 waits |-> DeviceWaits(call.deps)])
  /\ slotLastSignal' = [slotLastSignal EXCEPT ![call.slot] = call.value]
  /\ queueLastSignal' = [queueLastSignal EXCEPT ![call.queue] = call.value]
  /\ valueQueue' = Append(valueQueue, call.queue)
  /\ pc' = "idle"
  /\ call' = NoCall
  /\ UNCHANGED <<nextValue, retained, deviceVars>>

(* recordImmutable: refused once the buffer is recorded.                    *)
RecordImmutable(c) ==
  /\ pc = "idle"
  /\ c \notin retained
  /\ retained' = retained \cup {c}
  /\ UNCHANGED <<nextValue, slotLastSignal, queueLastSignal, valueQueue>>
  /\ UNCHANGED <<pc, call, batches, deviceVars>>

(* wait(v): 0 returns at once and an uncovered value throws, both without   *)
(* any effect.                                                              *)
BeginWait(v) ==
  /\ pc = "idle"
  /\ Known(v)
  /\ pc' = "waiting"
  /\ call' = [NoCall EXCEPT !.value = v]
  /\ UNCHANGED <<hostVars, batches, deviceVars>>

FinishWait ==
  /\ pc = "waiting"
  /\ Reached(call.value)
  /\ pc' = "idle"
  /\ call' = NoCall
  /\ UNCHANGED <<hostVars, batches, deviceVars>>

(* drain(): one host wait per queue, in queue order.                        *)
BeginDrain ==
  /\ pc = "idle"
  /\ pc' = "draining"
  /\ call' = NoCall
  /\ UNCHANGED <<hostVars, batches, deviceVars>>

(* Mutant: only the queue of the newest submission is waited for.           *)
QueueSettledNewestOnly(q) ==
  (\A p \in Queues : queueLastSignal[p] <= queueLastSignal[q])
     => counter[q] >= queueLastSignal[q]

QueueSettled(q) == queueLastSignal[q] # 0 => counter[q] >= queueLastSignal[q]

DrainNextQueue ==
  /\ pc = "draining"
  /\ call.queue + 1 < NumQueues
  /\ QueueSettled(call.queue)
  /\ call' = [call EXCEPT !.queue = @ + 1]
  /\ UNCHANGED <<hostVars, pc, batches, deviceVars>>

FinishDrain ==
  /\ pc = "draining"
  /\ call.queue + 1 = NumQueues
  /\ QueueSettled(call.queue)
  /\ pc' = "idle"
  /\ call' = NoCall
  /\ UNCHANGED <<hostVars, batches, deviceVars>>

-----------------------------------------------------------------------------
(* The device.                                                              *)
WaitsReached(b) == \A q \in Queues : counter[q] >= b.waits[q]

Start(i) ==
  /\ i \notin started
  /\ WaitsReached(batches[i])
  /\ started' = started \cup {i}
  /\ UNCHANGED <<hostVars, pc, call, batches, retired, counter>>

Earlier(i) == {j \in 1 .. i - 1 : batches[j].queue = batches[i].queue}

(* Mutant: one timeline semaphore shared by all queues.                     *)
RetireOnSharedTimeline(i) ==
  /\ i \in started \ retired
  /\ Earlier(i) \subseteq retired
  /\ retired' = retired \cup {i}
  /\ counter' = [counter EXCEPT ![0] = batches[i].value]
  /\ UNCHANGED <<hostVars, pc, call, batches, started>>

Retire(i) ==
  /\ i \in started \ retired
  /\ Earlier(i) \subseteq retired
  /\ retired' = retired \cup {i}
  /\ counter' = [counter EXCEPT ![batches[i].queue] = batches[i].value]
  /\ UNCHANGED <<hostVars, pc, call, batches, started>>

-----------------------------------------------------------------------------
Submitting == PassThrottle \/ ThrottleThrows \/ Enqueue
Waiting    == FinishWait \/ DrainNextQueue \/ FinishDrain

Host ==
  \/ \E q \in Queues, D \in WaitValueSets : BeginSubmit(q, D)
  \/ \E q \in Queues, c \in Retainable : BeginSubmitImmutable(q, c)
  \/ PassThrottle
  \/ ThrottleThrows
  \/ CallFails
  \/ Enqueue
  \/ \E c \in Retainable : RecordImmutable(c)
  \/ \E v \in 1 .. MaxValue : BeginWait(v)
  \/ FinishWait
  \/ BeginDrain
  \/ DrainNextQueue
  \/ FinishDrain

Device ==
  \/ \E i \in Submitted : Start(i)
  \/ \E i \in Submitted : Retire(i)

Next == Host \/ Device

Spec == Init /\ [][Next]_vars

(* A queue begins its oldest unstarted batch once it can, every running     *)
(* batch finishes (kernels are bounded loops), and a host thread inside a   *)
(* call goes on when it can.  Nothing obliges the host to make a call.      *)
StartOldest(i) == (\A j \in Earlier(i) : j \in started) /\ Start(i)

Fairness ==
  /\ WF_vars(Submitting)
  /\ WF_vars(Waiting)
  /\ \A i \in 1 .. MaxValue : WF_vars(i \in Submitted /\ StartOldest(i))
  /\ \A i \in 1 .. MaxValue : WF_vars(i \in Submitted /\ Retire(i))

FairSpec == Spec /\ Fairness

-----------------------------------------------------------------------------
(* Mutant: a value counts as completed only once it has been passed.       *)
InFlightStrict ==
  LET assigned  == 1 .. nextValue - 1
      completed == {v \in assigned : counter[valueQueue[v]] > v}
  IN  Cardinality(assigned) - Cardinality(completed)

(* inFlight() as the code computes it: assigned values minus those whose    *)
(* queue, according to the map, has signaled them.                          *)
InFlight ==
  LET assigned  == 1 .. nextValue - 1
      completed == {v \in assigned : counter[valueQueue[v]] >= v}
  IN  Cardinality(assigned) - Cardinality(completed)

-----------------------------------------------------------------------------
Batch == [value : 1 .. MaxValue, queue : Queues, cmd : CommandBuffers,
          needs : SUBSET Nat, waits : [Queues -> Nat]]

Locals == [value : 0 .. MaxValue, queue : Queues, slot : Slots,
           cmd : CommandBuffers, deps : SUBSET Nat]

(* Types of the state, with the ranges the code's indexing relies on: every *)
(* stored value was handed out, every queue and slot index is in bounds.    *)
TypeOK ==
  /\ nextValue \in 1 .. MaxValue + 1
  /\ slotLastSignal \in [Slots -> 0 .. MaxValue]
  /\ queueLastSignal \in [Queues -> 0 .. MaxValue]
  /\ valueQueue \in Seq(Queues)
  /\ retained \subseteq Retainable
  /\ pc \in {"idle", "throttle", "ready", "waiting", "draining"}
  /\ call \in Locals
  /\ batches \in Seq(Batch)
  /\ retired \subseteq started
  /\ started \subseteq Submitted
  /\ counter \in [Queues -> 0 .. MaxValue]

(* A command buffer is reset, re-recorded or resubmitted only when no batch *)
(* that uses it is still on the device: when a submission has passed its    *)
(* throttle, and as long as a retained buffer may still be recorded         *)
(* (engine.h: "guarantees the slot's command buffer is no longer in flight, *)
(* so it is safe to reset and re-record").                                  *)
PendingBuffers == {batches[i].cmd : i \in Pending}

BufferFree ==
  /\ pc = "ready" => call.cmd \notin PendingBuffers
  /\ Retainable \cap PendingBuffers \subseteq retained

(* The ring throttles the host to at most RingSlots batches on the device,  *)
(* retained resubmissions included (engine.h: "throttles the host to at     *)
(* most `ringSlots' in-flight submissions").                                *)
ThrottleBound == Cardinality(Pending) <= RingSlots

(* A batch starts only after every earlier batch among its wait values has  *)
(* retired, on whichever queue that batch ran: grouping the waits by queue  *)
(* and keeping the largest loses none of them.                              *)
StartAfterDeps ==
  \A i \in started : batches[i].needs \subseteq retired

(* wait(v) returns only when the batch that carries v has retired: the      *)
(* value -> queue map sent the host to the semaphore that batch signals.    *)
WaitReturnsRetired ==
  [][FinishWait =>
       \E i \in retired : batches[i].value = call.value]_vars

(* Outside a submission, inFlight() is the number of batches the device has *)
(* not retired; it never exceeds the ring.                                  *)
InFlightExact ==
  pc \in {"idle", "waiting", "draining"} => InFlight = Cardinality(Pending)

(* A timeline is only ever advanced: whatever the interleaving of queues,   *)
(* and whatever submission failed halfway, no signal lowers or repeats the  *)
(* counter of its semaphore.                                                *)
SignalsIncrease ==
  [][\A q \in Queues : counter'[q] # counter[q] => counter'[q] > counter[q]]_vars

(* drain() returns only when the device holds no batch at all, although it  *)
(* waits for one value per queue and one queue after another.  It reads     *)
(* queueLastSignal_ and not the map, so it holds after failed calls too.    *)
DrainLeavesIdle == [][FinishDrain => Pending = {}]_vars

(* No call blocks the host forever: whatever a throttle, a wait or a drain  *)
(* waits for has been submitted and gets its turn on the device.            *)
CallsReturn == pc # "idle" ~> pc = "idle"

=============================================================================
