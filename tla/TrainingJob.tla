----------------------------- MODULE TrainingJob -----------------------------
(***************************************************************************)
(* A training run of the desktop shell                                     *)
(* (python/spaceslug/desktop/controller.py, and app.py for the polling).   *)
(*                                                                         *)
(* A worker thread trains, publishes one loss per step on a queue, writes  *)
(* checkpoint, artifact and experiment, and sets the outcome and then the  *)
(* state of the run.  The client's thread starts and stops runs and polls: *)
(* a poll drains the queue one loss at a time, exports the telemetry once  *)
(* the run is no longer running, and returns a status.  The two threads    *)
(* share the fields of the controller without a lock, so a poll is split   *)
(* at each of its reads of them.                                           *)
(*                                                                         *)
(* Two clients are modelled: the app polls from a timer, which each poll   *)
(* re-arms, until a status is no longer "running"; a script (headless use, *)
(* the tests) also calls wait_training, which joins the worker first.      *)
(***************************************************************************)
EXTENDS Integers, Sequences, FiniteSets

CONSTANTS
  MaxRuns,   \* bound: training runs started
  MaxSteps   \* bound: steps requested of a run

ASSUME JobAssumption == MaxRuns \in Nat /\ MaxSteps \in Nat \ {0}

VARIABLES
  client,     \* "app" or "script"
  run,        \* number of the current run (its _training_paths), 0 before any
  mode,       \* "cpu" or "native": the trainer of the current run
  steps,      \* steps requested of it
  state,      \* _training_state
  result,     \* the run _training_result is of, 0 if None
  failure,    \* the run _training_error is of, 0 if None
  cancel,     \* _cancel_event
  worker,     \* where the worker thread stands, "dead" when none is alive
  done,       \* steps the worker has completed
  saved,      \* files on disk, per run
  adapter,    \* run whose native adapter the responder holds, 0 if none
  lossQueue,  \* _loss_queue
  history,    \* the retained loss series
  completed,  \* completed_steps
  telemetry,  \* losses in the exported telemetry, per run; -1 if not exported
  ui,         \* where the client's thread stands
  joined,     \* whether the poll in progress follows a successful join
  polling,    \* _polling: the app has a run to poll, its start buttons are disabled
  timer,      \* the app's poll timer is armed
  overrun     \* steps completed since cancellation was requested

shared  == <<run, mode, steps, state, result, failure, cancel>>
output  == <<saved, adapter>>
series  == <<history, completed, telemetry>>
uiVars  == <<ui, joined, polling, timer>>
vars    == <<client, shared, worker, done, output, lossQueue, series, uiVars, overrun>>

-----------------------------------------------------------------------------
Runs  == 1 .. MaxRuns
Files == {"checkpoint", "artifact", "experiment"}

Alive == worker # "dead"

(* The losses of run r in a sequence of [run, step] records.                *)
Of(s, r) == {i \in DOMAIN s : s[i].run = r}

(* A native run stopped before its first step has a result without losses   *)
(* (None); _refresh_training_status and refresh format them and raise.      *)
NoLossToShow == result # 0 /\ mode = "native" /\ done = 0

Init ==
  /\ client \in {"app", "script"}
  /\ run = 0 /\ mode = "cpu" /\ steps = 1
  /\ state = "idle" /\ result = 0 /\ failure = 0 /\ cancel = FALSE
  /\ worker = "dead" /\ done = 0
  /\ saved = [r \in Runs |-> {}] /\ adapter = 0
  /\ lossQueue = <<>> /\ history = <<>> /\ completed = 0
  /\ telemetry = [r \in Runs |-> -1]
  /\ ui = "idle" /\ joined = FALSE /\ polling = FALSE /\ timer = FALSE
  /\ overrun = 0

-----------------------------------------------------------------------------
(* The client's thread.                                                     *)

(* _schedule_training_poll, of the app alone: nothing is armed if the flag  *)
(* is still set.                                                            *)
SchedulePoll ==
  /\ polling' = (client = "app")
  /\ timer' = (timer \/ (client = "app" /\ ~polling))

(* Mutant: a start leaves the previous outcome in place.                    *)
StartKeepsResult(m, n) ==
  /\ ui = "idle" /\ ~Alive /\ run < MaxRuns
  /\ client = "app" => state # "running" /\ ~NoLossToShow
  /\ run' = run + 1 /\ mode' = m /\ steps' = n
  /\ state' = "running" /\ cancel' = FALSE
  /\ worker' = "verify" /\ done' = 0 /\ overrun' = 0
  /\ history' = <<>> /\ completed' = 0
  /\ SchedulePoll
  /\ UNCHANGED <<client, result, failure, output, lossQueue, telemetry, ui, joined>>

(* start_training and start_native_gpu_training; a start is refused while   *)
(* the thread of the last run is alive, even if that run is over.  The      *)
(* app's start buttons are enabled again by a poll or a refresh that finds  *)
(* the run no longer "running" and does not raise before it gets there.     *)
Start(m, n) ==
  /\ ui = "idle" /\ ~Alive /\ run < MaxRuns
  /\ client = "app" => state # "running" /\ ~NoLossToShow
  /\ run' = run + 1 /\ mode' = m /\ steps' = n
  /\ state' = "running" /\ result' = 0 /\ failure' = 0 /\ cancel' = FALSE
  /\ worker' = "verify" /\ done' = 0 /\ overrun' = 0
  /\ history' = <<>> /\ completed' = 0
  /\ SchedulePoll
  /\ UNCHANGED <<client, output, lossQueue, telemetry, ui, joined>>

Stop ==
  /\ ui = "idle" /\ Alive
  /\ client = "app" => polling
  /\ cancel' = TRUE
  /\ UNCHANGED <<client, run, mode, steps, state, result, failure>>
  /\ UNCHANGED <<worker, done, output, lossQueue, series, uiVars, overrun>>

Poll ==
  /\ ui = "idle"
  /\ client = "app" => timer
  /\ ui' = "drain" /\ timer' = FALSE
  /\ UNCHANGED <<client, shared, worker, done, output, lossQueue, series, joined, polling, overrun>>

(* wait_training: join, with or without a timeout, then poll.               *)
Wait ==
  /\ client = "script" /\ ui = "idle"
  /\ ui' = "join"
  /\ UNCHANGED <<client, shared, worker, done, output, lossQueue, series, joined, polling, timer, overrun>>

Join ==
  /\ ui = "join" /\ ~Alive
  /\ ui' = "drain" /\ joined' = TRUE
  /\ UNCHANGED <<client, shared, worker, done, output, lossQueue, series, polling, timer, overrun>>

JoinTimesOut ==
  /\ ui = "join" /\ Alive
  /\ ui' = "drain"
  /\ UNCHANGED <<client, shared, worker, done, output, lossQueue, series, joined, polling, timer, overrun>>

(* Export, unless it was done for this run or there is none.                *)
Exported(losses) ==
  telemetry' = IF state # "running" /\ run # 0 /\ telemetry[run] = -1
               THEN [telemetry EXCEPT ![run] = losses] ELSE telemetry

DrainOne ==
  /\ ui = "drain" /\ lossQueue # <<>>
  /\ lossQueue' = Tail(lossQueue)
  /\ history' = Append(history, Head(lossQueue))
  /\ completed' = Head(lossQueue).step
  /\ Exported(Len(history) + 1)
  /\ UNCHANGED <<client, shared, worker, done, output, uiVars, overrun>>

(* Mutant: the drain ends as soon as the telemetry is out.                  *)
DrainEndsEarly ==
  /\ ui = "drain" /\ (lossQueue = <<>> \/ (run # 0 /\ telemetry[run] # -1))
  /\ ui' = "check"
  /\ UNCHANGED <<client, shared, worker, done, output, lossQueue, series, joined, polling, timer, overrun>>

DrainEnds ==
  /\ ui = "drain" /\ lossQueue = <<>>
  /\ ui' = "check"
  /\ UNCHANGED <<client, shared, worker, done, output, lossQueue, series, joined, polling, timer, overrun>>

Check ==
  /\ ui = "check"
  /\ Exported(Len(history))
  /\ ui' = "status"
  /\ UNCHANGED <<client, shared, worker, done, output, lossQueue, history, completed>>
  /\ UNCHANGED <<joined, polling, timer, overrun>>

(* training_status, and the rest of _poll_training: the status is shown     *)
(* first; if that does not raise, the app polls again after a "running"     *)
(* status and releases its buttons after any other.                         *)
Return ==
  /\ ui = "status"
  /\ ui' = "idle" /\ joined' = FALSE
  /\ polling' = (polling /\ (NoLossToShow \/ state = "running"))
  /\ timer' = (polling /\ ~NoLossToShow /\ state = "running")
  /\ UNCHANGED <<client, shared, worker, done, output, lossQueue, series, overrun>>

-----------------------------------------------------------------------------
(* The worker thread: _run_training and run_projected_training, or          *)
(* _run_native_gpu_training and run_native_training.                        *)
WorkerGoes(here, there) == worker = here /\ worker' = there

(* Verifying the bundle and building the model.  The native trainer looks   *)
(* at the cancel event before a step, the CPU trainer after it.             *)
Verify ==
  /\ WorkerGoes("verify", IF mode = "cpu" THEN "step" ELSE "test")
  /\ UNCHANGED <<client, shared, done, output, lossQueue, series, uiVars, overrun>>

TrainStep ==
  /\ WorkerGoes("step", "test")
  /\ done' = done + 1
  /\ lossQueue' = Append(lossQueue, [run |-> run, step |-> done + 1])
  /\ overrun' = IF cancel THEN overrun + 1 ELSE overrun
  /\ UNCHANGED <<client, shared, output, series, uiVars>>

(* Mutant: cancellation is noticed only after the second step.              *)
TestLate ==
  /\ WorkerGoes("test", IF (cancel /\ done > 1) \/ done = steps THEN "save" ELSE "step")
  /\ UNCHANGED <<client, shared, done, output, lossQueue, series, uiVars, overrun>>

Test ==
  /\ WorkerGoes("test", IF cancel \/ done = steps THEN "save" ELSE "step")
  /\ UNCHANGED <<client, shared, done, output, lossQueue, series, uiVars, overrun>>

(* Checkpoint, artifact and experiment, in this order.                      *)
Save ==
  /\ worker = "save"
  /\ \E f \in Files :
       /\ f = IF "checkpoint" \notin saved[run] THEN "checkpoint"
              ELSE IF "artifact" \notin saved[run] THEN "artifact" ELSE "experiment"
       /\ saved' = [saved EXCEPT ![run] = @ \cup {f}]
       /\ worker' = IF f = "experiment" THEN "result" ELSE "save"
  /\ UNCHANGED <<client, shared, done, adapter, lossQueue, series, uiVars, overrun>>

SetResult ==
  /\ WorkerGoes("result", IF mode = "native" THEN "reload" ELSE "state")
  /\ result' = run
  /\ UNCHANGED <<client, run, mode, steps, state, failure, cancel>>
  /\ UNCHANGED <<done, output, lossQueue, series, uiVars, overrun>>

(* The trained adapter becomes the responder's, if an inference backend is  *)
(* there and the reload succeeds.                                           *)
Reload ==
  /\ WorkerGoes("reload", "state")
  /\ adapter' \in {adapter, run}
  /\ UNCHANGED <<client, shared, done, saved, lossQueue, series, uiVars, overrun>>

Finish ==
  /\ WorkerGoes("state", "exit")
  /\ state' = "finished"
  /\ UNCHANGED <<client, run, mode, steps, result, failure, cancel>>
  /\ UNCHANGED <<done, output, lossQueue, series, uiVars, overrun>>

(* Mutant: an exception while saving is swallowed.                          *)
RaiseSwallowed ==
  /\ worker \in {"verify", "step", "save"}
  /\ worker' = IF worker = "save" THEN "result" ELSE "error"
  /\ failure' = IF worker = "save" THEN failure ELSE run
  /\ UNCHANGED <<client, run, mode, steps, state, result, cancel>>
  /\ UNCHANGED <<done, output, lossQueue, series, uiVars, overrun>>

(* Anything the trainer does may raise; the exception is kept first, then   *)
(* the state set.                                                           *)
Raise ==
  /\ worker \in {"verify", "step", "save"}
  /\ worker' = "error"
  /\ failure' = run
  /\ UNCHANGED <<client, run, mode, steps, state, result, cancel>>
  /\ UNCHANGED <<done, output, lossQueue, series, uiVars, overrun>>

(* Mutant: the thread dies of the exception without setting the state.      *)
FailSilently ==
  /\ WorkerGoes("error", "exit")
  /\ UNCHANGED <<client, shared, done, output, lossQueue, series, uiVars, overrun>>

Fail ==
  /\ WorkerGoes("error", "exit")
  /\ state' = "error"
  /\ UNCHANGED <<client, run, mode, steps, result, failure, cancel>>
  /\ UNCHANGED <<done, output, lossQueue, series, uiVars, overrun>>

Exit ==
  /\ WorkerGoes("exit", "dead")
  /\ UNCHANGED <<client, shared, done, output, lossQueue, series, uiVars, overrun>>

-----------------------------------------------------------------------------
Polls  == DrainOne \/ DrainEnds \/ Check \/ Return
Client ==
  \/ \E m \in {"cpu", "native"}, n \in 1 .. MaxSteps : Start(m, n)
  \/ Stop \/ Poll \/ Wait \/ Join \/ JoinTimesOut \/ Polls

Worker ==
  \/ Verify \/ TrainStep \/ Test \/ Save \/ SetResult \/ Reload \/ Finish
  \/ Raise \/ Fail \/ Exit

Next == Client \/ Worker

Spec == Init /\ [][Next]_vars

(* The worker keeps running, a poll that has begun runs to its end, a join  *)
(* ends when the worker is gone, and the app's timer fires.                 *)
Fairness ==
  /\ WF_vars(Worker)
  /\ WF_vars(Polls)
  /\ WF_vars(Join)
  /\ WF_vars(client = "app" /\ Poll)

FairSpec == Spec /\ Fairness

-----------------------------------------------------------------------------
Losses == [run : Runs, step : 1 .. MaxSteps]

TypeOK ==
  /\ client \in {"app", "script"} /\ run \in 0 .. MaxRuns
  /\ mode \in {"cpu", "native"} /\ steps \in 1 .. MaxSteps
  /\ state \in {"idle", "running", "finished", "error"}
  /\ result \in {0, run} /\ failure \in {0, run} /\ cancel \in BOOLEAN
  /\ worker \in {"dead", "verify", "step", "test", "save", "result", "reload",
                 "state", "error", "exit"}
  /\ done \in 0 .. steps
  /\ saved \in [Runs -> SUBSET Files] /\ adapter \in 0 .. run
  /\ lossQueue \in Seq(Losses) /\ history \in Seq(Losses)
  /\ completed \in 0 .. MaxSteps
  /\ telemetry \in [Runs -> Int]
  /\ ui \in {"idle", "join", "drain", "check", "status"}
  /\ joined \in BOOLEAN /\ polling \in BOOLEAN /\ timer \in BOOLEAN
  /\ overrun \in 0 .. MaxSteps

(* A run that reads "finished" is published: its result is in place, its    *)
(* files are on disk, all its losses are in the series or on the queue, and *)
(* it ended of itself or was asked to; a run that reads "error" has its     *)
(* exception and no result (training_status reads the fields one by one     *)
(* while the worker writes them).                                           *)
FinishedMeansPublished ==
  /\ state = "finished" =>
       /\ result = run /\ failure = 0 /\ saved[run] = Files
       /\ Cardinality(Of(history, run)) + Cardinality(Of(lossQueue, run)) = done
       /\ done = steps \/ cancel
  /\ state = "error" => failure = run /\ result = 0
  /\ adapter # 0 => saved[adapter] = Files

(* After a stop request the worker completes at most the step it is in or   *)
(* about to begin, whichever trainer runs and however the request falls.    *)
StopBounded == overrun <= 1

(* A wait that joined the worker returns with every loss of the run in the  *)
(* series, an empty queue and the telemetry on disk ("Join the worker       *)
(* thread (best-effort) and drain remaining callbacks").                    *)
WaitSeesAll ==
  [][Return /\ joined /\ run # 0 =>
       /\ lossQueue = <<>>
       /\ Cardinality(Of(history, run)) = done
       /\ (done > 0 => completed = done)
       /\ telemetry[run] # -1]_vars

(* The app comes to rest after a start, unless it has a result without      *)
(* losses to show: the run ends, whatever raises in it and whenever it is   *)
(* stopped, a poll sees it, and the buttons are released.  The timer is     *)
(* re-armed by the poll itself, so that one poll too few is the last.       *)
AppReleasedOnceTrained == polling ~> (~polling \/ NoLossToShow)

(* The user guide has the main thread poll every 200 ms and the Stop button *)
(* cancel between steps (docs/USER_GUIDE_PHASE1.md, section 6), and a test  *)
(* has a run cancelled before its first step end like any other             *)
(* (tests/test_native_desktop_training.py,                                  *)
(* test_cancellation_stops_before_dispatch): the app comes to rest after    *)
(* every start.                                                             *)
AppReleased == polling ~> ~polling

(* The user guide has one loss point per step and the authoritative losses  *)
(* in the status readout (docs/USER_GUIDE_PHASE1.md, section 6), and the    *)
(* test of a background run asserts as much of its final status: a status   *)
(* that says "finished" counts every step and holds every loss of the run.  *)
FinishedStatusComplete ==
  [][Return /\ state = "finished" => completed = done /\ Len(history) = done]_vars

=============================================================================
