# Spaceslug: a verification development in TLA+

Spaceslug is a local model lab: a Python host application (desktop shell, TUI,
command line, local API) that imports text, builds dataset bundles, trains tiny
models and serves them, and a Vulkan runtime in C++ that does the training and
inference on old GPUs. The modules here model the parts of it whose behaviour
over time is hard to test, check them with TLC on small instances and prove the
most important properties with TLAPS for every value of the constants.

## Inventory

| component | source | state it keeps | operations | what makes it hard |
|---|---|---|---|---|
| Execution engine | `vulkan-runtime/src/exec/engine.{h,cpp}` | next value, last signal per ring slot and per queue, value-to-queue map, retained buffers | `submit`, `submitImmutable`, `recordImmutable`, `wait`, `drain`, `inFlight` | the device runs beside the host; queues retire out of order; a call can throw half way |
| Ingest store | `python/spaceslug/workspace.py` | `raw`, `provenance.json`, `records.jsonl` per content hash; `sources.jsonl` | `import_bytes`, `list_imports`, folder import over a thread pool | equal bytes imported at once, kills between writes, failing extractors |
| Desktop training job | `desktop/controller.py`, `desktop/app.py`, the two trainers | run state, result, error, cancel event, loss queue and series, telemetry | start, stop, poll, wait, status; the worker thread | fields shared without a lock; a poll reads several of them one after another |
| Dataset bundles | `dataset.py`, `desktop/controller.py` | bundle directories, created and training bundle of the controller | create, verify, reuse, derive | creation is not atomic; names outlive their contents |
| Inference responders, GPU readiness | `desktop/controller.py`, `desktop/gpu_readiness.py` | responder, backend, readiness, placement | initialise, refresh, install a trained adapter | three threads write the responder |
| Local API | `openai_api.py` | server, thread, responder | start, stop, serve | stop and start overlap |
| Documentation crawler | `documentation_crawler.py` | queue, fetched, rejected, errors, session file | start, run, resume | budgets, resumption |
| Settings | `desktop/settings.py` | one JSON file | load, save | written in place |
| Persistent Tiny graph | `vulkan-runtime/src/api/tiny_forward_persistent.{h,cpp}` | some 70 device buffers (weights, moments, gradients, activations), one AdamW step, the accumulation flag, a checkpoint of the client | train a group, infer, accumulate and finalise LoRA, staged kernels, read back, restore | one hand-recorded command program per operation; long legal call sequences; partial updates |
| LoRA session, dataset batch buffer | `lora_session_api.cpp`, `dataset_batch_buffer.cpp` | device buffers and one staging buffer | create, step, read back; upload, process | layout of the staging buffer, barriers |
| Standalone trainers | `tiny_base_training_api.cpp`, `output_projection_training_api.cpp`, `embedding_training_api.cpp`, `qkv_projection_training_api.cpp` | weight, gradient, moments, step, and what the staging buffer holds | step, AdamW step, update, update and read back the moments, read back | a readback is answered from what an earlier call left in the staging buffer |
| Kernel APIs | the other `src/api/*_api.cpp` | none between calls | upload, one kernel, read back | barriers, offsets |
| Cactus kernels, reduced precision, Vulkan setup, tokenizer, CPU trainers, CLI, TUI | `src/cactus`, `src/core`, `python/spaceslug` | none between calls | pure computation | floating point |

How they interact. The desktop controller is the hub: the UI thread calls it,
the training worker and the readiness thread are its own, and it calls the
workspace service, the bundles and the trainers. A native training run goes
from the worker thread through the Python backend session to the Tiny graph,
which submits its kernels to the execution engine; the LoRA session and the
dataset batch buffer are clients of an engine of their own. The API server
answers with the responder that was there when it was started.

`PROJECT.json` lists under `hazards` what can go wrong in each, at its line.

## Modules

### ExecEngine — the ring engine and its device

One action per operation, split where the host blocks: `BeginSubmit` /
`BeginSubmitImmutable` take the value and the slot, `PassThrottle` is the host
wait on the slot's last value, `Enqueue` is `vkQueueSubmit` with the three
bookkeeping assignments behind it; `BeginWait` / `FinishWait`, `BeginDrain` /
`DrainNextQueue` / `FinishDrain`; `RecordImmutable`. `call` holds the locals of
the call in progress. The variables `nextValue`, `slotLastSignal`,
`queueLastSignal`, `valueQueue`, `retained` are the fields of the class (the
sentinel at index 0 of `valueQueue_` is dropped, TLA+ sequences start at 1).

The device is external code and modelled from how `vkQueueSubmit` is used:
`Start` needs the timeline values a batch waits for, `Retire` advances the
timeline of its queue, in submission order within a queue. Batches of one queue
may overlap, which is all that Vulkan promises.

`Faults` says whether calls may throw. A throw leaves the call (`CallFails`,
`ThrottleThrows`) and undoes nothing.

`AsyncTasks` is the abstract specification: tasks accepted while fewer than a
window are unfinished, each run once, after what it depends on.
`ExecEngineTasks` maps the engine to it (batch i is task i) and states the
refinement as `ImplementsTasks` and, with fairness, `ImplementsFairTasks`.
`ExecEngineProofs` holds the theorems.

### IngestStore — the content-addressed store, folder imports and crawls

An import has a source, its bytes, the kind its name suggests and, if it was
fetched, a time, for which the number of its future ledger line stands
(`Stamped`), since no two fetches share it. Every write of a file is two steps,
`Open...` (which truncates) and `Write...`; a second writer of the same file may
leave a mixture. Pool threads run `Take`, `CheckRaw`, ..., `AppendLedger`
independently; the controller hands out files (`ImportFolder`) and collects the
futures in order (`Collect`). A crawl (`BeginCrawl`) imports page after page
(`FetchPage`, `PageDone`) through the same steps and then reads the ledger back
and adds to the list of imports what is not in it as it was read (`ListLedger`,
`ListNext`). The list holds what was imported together with the records, which
is what the code compares. `Crash` keeps the disk and forgets the rest.
Extraction is one outcome per content and kind. `MCIngestStore` gives the
instance, `IngestStoreProofs` holds the theorems.

### DocumentationCrawl — the crawler and its session file

One action per outcome of a round of the crawler's loop: the url was seen
(`Skip`), is refused (`Reject`), cannot be fetched (`FetchFails`) or imported
(`ImportFails`), has a link that is no HTTP URL (`LinkBreaks`: the page is on
the ledger by then, but counts as failed), or is a page like any other
(`Visit`). `Truncate` and `Write` are the save at the end of a round, `End` the
last save; `CrawlResume` rebuilds what was seen and how much was read from the
session file, `Kill` leaves only that file and the ledger. `site` is chosen at
the start: what each page links to. New links go to the end of the queue one at
a time, each compared with what was seen and with those before it (`Grown`).
`DocumentationCrawlProofs` holds the theorems.

### DatasetBundles — bundles on disk and the controller's choice among them

A bundle is absent, partial (a directory without a manifest) or whole.
`CreateDataset` and `BuildTrainingBundle` make the directory, `Complete` writes
the manifest and sets the controller's path, `MakeFails` and `KillShell` leave
the directory; `ReuseDataset` and `ReuseTrainingBundle` are the branches that
find a bundle of the name. `StartTraining` takes the training bundle in place.
A dataset id is a name and the number of "-train" suffixes that deriving and
importing again appended to it. `trained` is what the last run was started
with; `kept` is a history variable: the training bundle was in place before the
created one. `WorkspaceProofs` holds the theorems. Neither the store nor the
crawler reads or writes anything of a bundle but the list of imports, from which
`sources` abstracts, so that bundles are not composed with them.

### Workspace — a crawl into the store

`DocumentationCrawl` takes the import of a page for one step and the ledger for
a set of urls. `Workspace` joins it to the store: `PageFetched` calls
`import_bytes`, the page goes through the steps of `IngestStore` on the disk
that folder imports share, and `PageImported` or `PageRefused` is its return;
`CrawlEnds` saves the session for the last time and begins the listing. All of it
is called by the UI thread, so that a folder is imported only when no crawl is
under way. `Killed` takes store, controller and crawler at once, between any two
steps. A resumed crawl is a script's (`run` with a loaded session), which lists
nothing. `MCWorkspace` gives the instances, one of the bundles alone among them;
`WorkspaceProofs` shows that a workspace, seen on the variables of one part, is
a behaviour of that part, and carries its theorems over.

### TrainingJob — a run of the desktop shell

The client's thread (`Start`, `Stop`, `Poll`, `Wait`, `Join`, `DrainOne`,
`DrainEnds`, `Check`, `Return`) and the worker's (`Verify`, `TrainStep`,
`Test`, `Save`, `SetResult`, `Reload`, `Finish`, `Raise`, `Fail`, `Exit`)
share the controller's fields. The app shows a status before it decides to poll
again: `Return` leaves timer and buttons as they are when that raises, which it
does for a result without losses (`NoLossToShow`). A poll is split at each read of a shared field:
emptying the queue, the check before the export, the state that
`training_status` returns. `mode` chooses the CPU or the native trainer, which
look at the cancel event after and before a step respectively. `client` is the
app, which polls from a timer as long as a status says running, or a script,
which may also wait. The responder's part of a native run is `adapter`.
`TrainingJobProofs` holds the theorems.

### The native runtime — programs, the device that runs them, sessions of calls

Every native operation does its work by recording one command program: copies,
kernels and pipeline barriers, submitted to the engine and waited for. These
programs are data here, written once and read twice.

| module | what it holds | in the code |
|---|---|---|
| `CommandStream` | commands, barriers, ranges of buffers, and what Vulkan says a program orders (`Ordered`), makes available (`Released`) and visible (`Visible`) | `pipelineBarrier`, `copyBuffer`, `dispatch` |
| `TinyKernels` | for each pipeline, the buffers its descriptor set lets it read and write | the constructor's descriptor writes |
| `TinyPrograms`, `TinyReadbacks` | the programs of the graph, with the offsets and sizes of its staging buffer | the lambda of each `engine_.submit` and `recordImmutable` |
| `ApiPrograms` | the programs of the kernel APIs, the LoRA session, the batch buffer and the standalone trainers | the C ABI functions |
| `NativePrograms` | the table of all operations, with the program each submits and the sizes of its host buffers | the C ABI |
| `DeviceQueue` | the device executing any one of the programs it is given (`Submissions`) | `ExecEngine::submit`, `wait`, and Vulkan |
| `TinyGraph` | each operation of the graph as a sequence of effects, each of which may fail | the methods of `ForwardResourceGraph` |
| `GraphSession` | a client making calls on a graph | the C ABI |
| `Trainers` | the four standalone trainers and a client of one of them | the trainer classes and their C ABI |
| `NativeSessions` | a client of a graph or of a trainer | |

`DeviceQueue` takes a program and lets the device execute its commands in every
order the barriers leave open. `seen` records which earlier command each read
may have found: a missing or misnamed barrier shows as a read that can find
something else than the last command recorded before it wrote. A place in a
host buffer is an interval of bytes, so that the layout of the staging buffers
is checked with the offsets and sizes the code computes; device buffers are
whole. The arithmetic of a kernel is abstracted to what it reads and writes.

`TinyGraph` and `GraphSession` take the same programs for what they compute:
`memory` says for each buffer what its value was computed from - this call's
arguments (`now`), an earlier call's (`old`), a restored checkpoint, or memory
that was never written. An operation is the sequence of its effects in the
order of the code (map the staging buffer, count the step, submit, set a flag),
and `Outcomes` are its ends: after all effects, or before any one that may
fail. A map that fails returns 2, a submission that throws is caught by the C
ABI, and where the method is `noexcept` the process ends instead, so that
nothing follows. `Reject` is the early return of a check on the state
(`Accepted`); the checks of arguments are taken to succeed. The step is the
64-bit counter of the code and not bounded: `MaxStep` is the largest value its
kernels can be given (`UINT32_MAX`), with which most optimizers compare it for
equality: past it the code goes on counting, and so does the model.
`token_step_training_backward` is called outside an accumulation only: within
one it does what `token_step_training_backward_accumulate` does, which calls it.

`Trainers` gives each value the number of the call that made it (`clock`), so
that a readback that mixes moments shows. `NativeSessionsProofs` holds the
theorems about graphs, trainers and sessions; the lemmas on kernels, programs and
operations that those about graphs rest on are in `TinyGraphProofs`.
`DeviceQueueProofs` holds the theorems about the device and, for every shape and
rank, about the programs it is given.

Tables of kernels and programs are merged with `f ++ g`, the function that is f
on the domain of f and g elsewhere.

## Runs

| run | question | bounds | distinct states |
|---|---|---|---|
| `engine` | do buffers, ring, dependencies, waits and the backlog count hold when nothing fails; is it a task executor, does every call return | 2 slots, 2 queues, 3 submissions, 2 dependencies each | 56 k |
| `engine_faults` | what survives calls that throw anywhere | 2 slots, 2 queues, 4 submissions, 1 dependency each, faults | 728 k |
| `engine_fault_buffers` | does the buffer guarantee survive them | faults, no dependencies | violated |
| `workspace`, "store" | are ledger, files, sessions and the controller's list consistent under threads, folders, crawls and a kill | 2 contents, 2 kinds, 2 threads, 4 files, 2 pages (one of which may change its kind), 2 folders or crawls of up to 2 pages, 1 kill | 1.1 M in all |
| "sites" | does a crawl lose links, take detours or exceed limits | 16 sites of 4 pages, the same store, 2 runs of a session, 1 kill | |
| "bundles" | do runs train on whole bundles of what was selected | 2 sources, 2 names, 2 directories, 3 bundles, 1 kill | |
| `ingest_kinds` | is each ledger line read back as imported | the files of "store", no kill | violated |
| `training_job` | are runs published in order, stopped in time and waited for, and is the app released once there is a loss to show | 2 runs of up to 2 steps, both trainers, both clients | 693 k |
| `training_status` | is a finished status complete | 1 run of up to 2 steps | violated |
| `training_release` | is it always released | 1 run of 1 step | violated |
| `device_queue` | do barriers, result places and staging layouts of the native programs hold | every program but five with known races and one known overrun, ranks 4 and 8 | 11 k |
| `metrics_race` | do those of `forward_loss_fixed_metrics` | one program, rank 4 | violated |
| `native_sessions` | where do updates come from, what do failures leave, what does a checkpoint restore, who counts past the largest step | 3 calls on a graph, 4 on a trainer, largest step 2 | 202 k |
| `stale_doutput` | does every training call learn from its own window alone | 2 calls, steps up to 2 | violated |

Why the bounds are enough. The ring needs a slot to be used twice (2 slots, 3
submissions) and two queues to retire out of order; a fourth submission
lets a map that is shifted by a failed call be consulted, which the runs with
faults have. Two threads on two
contents are every race of the store: a thread interacts with another only
through one directory and the ledger. Two folder imports or crawls put an import
behind a finished one, and one kill can fall between any two steps of either. Four pages
are the least that have a page found at two depths, a cycle, a page of another
origin and one that is too large; two crawls and a kill are a crawl and its
resumption. Three bundles are a canonical one, its training bundle and a
namesake in another directory, and a training bundle that is imported and whose
id then has a suffix. Two runs
show what a run leaves to the next; two steps let a stop fall before, between
and after steps. A program of the native API is finite and explored whole: the
two ranks are all the code accepts, the batch buffer is run at its largest
shape and the kernels at the largest and some small ones; a dataset window is
followed by one more, which is what one window can disturb. Programs are run
one at a time because each call waits for its own. Three calls on a graph are a
checkpoint, a call that may fail in the middle, and a restore; or a begin, an
accumulation and a finalise; or a step set to its largest value, a begin and a
finalise that passes it. A trainer adds one: two steps, an upload and a
readback. The run `workspace` has three instances, and a behaviour is of one of
them: store and crawler step together in "store", with few pages and many ways
to import, and in "sites", with crawls only and many sites, where the limit of
bytes lets no crawl import more than two pages; "bundles" shares no state with
them.

Deadlock is checked for the engine and the device queue, which can always go
on. It is not checked for the workspace, the training job and the sessions, which
stop when their bounds are used up.

What the properties of the native runtime leave out, because the code does not
keep it, is named in them: `DrawsOnEarlierCalls` (see the findings), `Unread`
(the position moments are in no checkpoint), `finalize_lora_adamw`, which
counts its step before it submits and past the largest value
(`OnlyLoraPassesMaxStep`), operations of several uploads, which a failure leaves half done
(`SeveralWrites`), and readbacks of a standalone trainer after an upload, which
are answered with older weights.

What the properties of the workspace leave out in the same way:
`TrainsOnSelection` excepts a training bundle that was in place before the
dataset was created (`create_dataset` does not clear `training_bundle_path`,
though the app then says that Build & Train can use the new dataset), and one
that was derived from a namesake in another directory. `ShortestDepth` excepts
pages that failed, which a resumed crawl may find again on a longer way.
`RawStaged`, `SingleKindRehydrates` and `LedgerMatchesImports` speak of
histories without a kill: after one, a raw or records file may be cut off for
good, and the list of imports starts empty. `LedgerMatchesImports` counts the
lines of local files only: the pages of a crawl that a script resumed are not
listed. An import whose records were rewritten under another kind since it was
listed is not recognised by the next crawl and listed again, with those records.

Of the app `AppReleasedOnceTrained` excepts a native run that was stopped before
its first step, see the findings.

The six violated runs are findings, quoted in `PROJECT.json`:

* a submission that throws shifts the value-to-queue map by one, so that the
  ring's throttle can watch the wrong queue and a command buffer still on the
  device is reset;
* the same bytes imported under two kinds share one records file, so that the
  ledger reads the older import back with the newer one's records;
* a poll that finds the run finished only after it drained the queue returns a
  finished status without the last losses, and the app stops polling on it;
* a native run that is stopped before its first step has no losses; showing its
  status raises before the poll re-arms its timer or releases the buttons, and
  every refresh raises likewise;
* `forward_loss_fixed_metrics` copies the projected rows behind a barrier that
  orders kernels only, so that the copy may come before the forward kernel;
  `train_dataset_batch`, `readback_graph_dstate` and the LoRA backward program
  lack orderings of the same kind;
* `train_qkv_sgd` and `train_embeddings_sgd` run the attention backward kernels
  on an output gradient they never wrote.

Three more things that the code does were met on the way; the properties except
them, and no run shows them:

* `create_dataset` leaves the training bundle of an older dataset in place, and
  training prefers it to the dataset just created (`TrainsOnSelection` excepts
  `kept`);
* a LoRA session with more than 4 * rank rows, which its creation accepts, copies
  the delta of a step past the end of its staging buffer (`KnownOverruns`, which
  `FittingCalls` leaves out; `SessionDeltaFits` proves that it does);
* `finalize_lora_adamw` counts the shared step past the largest 32-bit value
  without a check and then hands its kernel a step of zero; the others compare for
  equality with that value, so that beyond it nothing stops them
  (`OnlyLoraPassesMaxStep`).

### Fairness

The native sessions state no liveness: a call returns when its engine wait
does, which `CallsReturn` is about.

`engine` assumes weak fairness of the host inside a call (a thread that
can go on does), and of each batch: the oldest unstarted batch of a queue
starts when its waits are reached, and a running batch finishes, since kernels
are bounded loops. Nothing obliges the host to make a call. `training_job`
assumes that the worker thread keeps running, that a poll once begun ends, that
a join returns when the thread is dead, and that the app's timer fires
(`root.after`). `AppReleasedOnceTrained` depends on the bound on runs: a user who restarts
for ever keeps the app polling for ever.

## Proofs

`ExecEngineProofs` proves, for any number of slots, queues, submissions and
dependencies:

* with or without failing calls (`StreamInvariant`): `TypeOK`,
  `SignalsIncrease` and `DrainLeavesIdle`. The invariant `StreamInv` says that
  values grow along the submissions, that each counter is the value of the last
  batch its queue retired and that batches of a queue retire in order, and that
  `queueLastSignal` is the last value submitted to each queue.
* without failing calls (the theorems assume `Faults = FALSE`, as the violated
  run shows they must): `BufferFree`, `ThrottleBound`, `StartAfterDeps`,
  `WaitReturnsRetired`, `InFlightExact`, and `Refinement`, that `Spec`
  implements `ImplementsTasks`. The invariant `EngineInv` adds to `StreamInv`
  that entry v of the map is the queue of the batch with value v (`MapInv`),
  that the last signal of a slot is the newest batch guarded by it and all older
  ones have retired (`RingInv`), and that the waits of a batch cover everything
  it was asked to wait for (`WaitsInv`).

Why the invariants are needed: `BufferFree` says nothing of how the throttle
knows that the slot is free. That takes the map (which queue to look at), the
counters (what a value reached means for the batches behind it) and the ring
(which batches can still use the slot's buffer). `ThrottleBound` follows because
every pending batch is the newest one of its slot, so that pending batches map
one to one into slots.

`TrainingJobProofs` proves, for any number of runs and steps, `TypeOK`,
`FinishedMeansPublished`, `StopBounded` and `WaitSeesAll`. What a status may say
depends on where the worker is, so that `Inv` adds what each of its positions
means: which of state, result and error are set (`Phase`), which files are on
disk, those of the adapter the responder uses included (`Published`), and that a
worker past its steps has done all of them or saw a request to stop
(`EndedRightly`). For the series, losses of a run have to follow those of earlier
runs and be complete from the first step, in the order of the series followed
by the queue (`Series`): that a poll after a join has seen all then follows from
the queue being empty, which `JoinedPoll` follows through the steps of the poll.

`IngestStoreProofs` proves, for any contents, a finite set of kinds and any
numbers of threads, folders, crawls and kills, `TypeOK`, `LedgerResolvable`,
`RawStaged`, `SingleKindRehydrates` and `LedgerMatchesImports`; the last three, and
the second half of `LedgerResolvable`, say something of histories without a kill
only. None is inductive. The invariant is `StoreInv`. A ledger line has its files
because the thread that appended it had passed its writes, and files are never
removed (`Staged`); what it finds in them is due to the threads that opened them
since: while no process was killed, a truncated file has its writer, and a
records file is of a kind that some import of these bytes has (`Written`). That
outcomes match the ledger needs that a job is in the hands of one thread and has
no outcome before that thread ends (`Jobs`). For the list of imports, lines, list
entries and successes still held balance (`Balanced`), also while a crawl lists the
ledger line by line (`Listed`): a line of a user's file is found in the list
because its entry is what was imported (`AsImported`).

`DocumentationCrawlProofs` proves, for any set of pages and limits, any
site and any number of crawls and kills, `NoLinkLost`, `ShortestDepth` and
`WithinLimits`. `ShortestDepth`, that a page is taken at most
one link deeper than any page that links to it, is why breadth first search is
right: the queue is ordered by depth, its ends differ by at most one, and pages
that were taken are no deeper than those that wait (`SessionInv`, of the session
in memory and of the one in the file, which a resumed crawl takes up). `LocalsInv`
ties what `run` keeps to itself, the urls seen and the bytes read, to the session,
from which a resumed crawl restores them. `Grown` and `BytesOf` are recursive functions; what
they compute is proved by least counterexample, from the well-foundedness of the
naturals in the library, for which no theorem with an operator as parameter is
needed.

`NativeSessionsProofs` proves, for every `MaxStep`, any number of calls in any
order and each ending in any of its failures, of the graph: its types,
`CheckpointRoundTrip`, `AccumulatedSinceBegin`, `OnlyLoraPassesMaxStep`,
`FailedCallChangesNothing` and `UpdatesFromThisWindowElsewhere`. The last two
are facts of single operations: all of the tables of `TinyGraph` are gone through,
and what their effects add up to, at every place they may stop, is established
once (`Known`). The flow of a program is a recursion over its commands, and is
bounded by an invariant over the positions of the program. A program that at
each command reads only parameters, the call's arguments, or what it wrote
before (`SelfFed`) has nothing but `now` in its flow, which is why
`UpdatesFromThisWindowElsewhere` holds; `DrawsOnEarlierCalls` are the operations
with a program that is not. The others need history, `GraphInv`: LoRA gradients
leave no trace in any other buffer of the device but the parameters
(`GradientsApart`), so that once they are cleared, what they were allocated with
cannot come back while they accumulate (`GradientsCleared`); and a checkpoint is
complete only if every group but the moments of the positions was read
(`CheckpointIsWhole`), which are the groups a restore writes. That only `finalize_lora_adamw` passes
the largest step (`OnlyLoraPassesMaxStep`) is a fact of the table as well: the
step an effect leaves is the one before it, one more behind a check, or one that
a check let be restored.

Of a standalone trainer, for any number of calls and any width of the step, it
proves that it stays in its types (`TrainerTypes`), answers readbacks from one
moment (`TrainerReadbacks`) and changes nothing when it fails
(`TrainerFailures`). The invariant ties the staging buffer to the device: unless
a weight was uploaded since the last step, what is staged is what is on the
device, which a readback's own answer does not say. `SessionsRunTrainers` shows
that a session on a graph and a trainer, seen on the trainer's variables, is a
behaviour of the trainer's own specification, and `SessionReadbacks` carries the
two guarantees over to sessions. `SessionTypes` is `TypeOK` of sessions.

`DeviceQueueProofs` proves, for programs of any length on any buffers, that
barriers that satisfy `Fenced` suffice (`FencedProgramsRead`): `Fenced` looks
only at the program text, and `ReadsRecordedWriter` at every order in which the
device may run it. `NativeProgramsFenced` below has that `Fenced` holds of
the native programs; `KnownRaces` are the operations it does not hold for.
`QueueInv` says that the device holds a submitted program with the waits of its
barriers and executes a command only after them; `FencedInv` that what was seen
came from a command already executed and was the recorded writer. A read can
find nothing older because the last writer before it covers the place and every
older write was released to that writer, and nothing newer because later
writers wait for the read. The proof takes the largest number of a set of
writers by well-founded induction on the naturals, from the library.

It then proves of the native programs themselves `ProgramsFenced`,
`ReadsRecordedWriter`, `ResultsSurvive` and `StagingInBounds`
(`NativeProgramsFenced`, `NativeReadsRecorded`, `NativeResultsSurvive`,
`NativeStagingInBounds`), if what is submitted is a `NativeSubmission`: an
operation of the graph with any LoRA rank from 1 to 8, but for `KnownRaces`; or a
call of a kernel API, the LoRA session, the batch buffer or a trainer with a
shape that its argument checks let through (`OneShotCall`, `SessionCall`,
`TrainerCall`, which name the lines of the checks). `NativeStagingInBounds` alone
excepts what these checks let through and the code does not keep in bounds: the
step of a LoRA session with more than 4 * rank rows that returns its delta
(`Overruns`). The run takes two ranks and
one shape per call; `FittingCalls`, which it submits, are native submissions. The
argument:

* A program is `Good` with host buffers of given sizes when of any two of its
  commands the later one reads what the earlier one wrote only behind a barrier
  that makes it visible, overwrites it only behind one that releases it, and
  writes what it read only after it (`Apart`, for all pairs: `Safe`); when copies
  into host buffers are not overwritten (`Final`); and when places in host
  buffers end inside them (`Fits`). `Safe` says more than `Fenced`
  (`SafeFenced`): it speaks of every earlier writer, not of the last one, so that
  nothing has to be known of which is last.
* `Good` is put together from parts. What a program leaves open at its end
  (`Closed`: kernels may read and overwrite what it wrote; `Drained`: its copies
  may be overwritten; `Settled`: both, for copies too) has to meet what the next
  part has settled by its first barriers (`Opened`, `Fetched`). Lemmas join a
  program to one kernel (a run of kernels with a barrier behind each), to copies
  within the device, and to the copies back to the host. This is where each
  barrier of the source is used.
* The offsets of a staging buffer are the sums of the sizes before them. That
  packed places do not overlap and end at the sum of all sizes (`PlacesPacked`)
  is proved for any list of parts, from functions of partial sums of which the
  recursive definition is shown to be one. What is left is arithmetic: that the
  layout of each operation adds up to at most what the constructor allocated
  for the rank.
* `ResultsSurvive` and `StagingInBounds` speak of commands that have executed, so
  that neither is inductive: the next command is not known to be within bounds.
  `OrderlyInv` and `SoundInv` say of the program on the device, with all that it
  has still to execute, that its commands are ordered, and that it is `Good` for
  the buffers it was submitted with.

`SessionDeltaFits` is the converse for the one call that needs an assumption: a
session step that returns its delta stays inside the session's staging buffer
if and only if there are at most four rows per unit of rank. No check of the
session asks for that.

Of the bundles `WorkspaceProofs` proves, for any sources, names, directories and number of
bundles and kills, that the controller's paths verify (`BundlesVerify`), that a
training bundle holds what a canonical bundle of its name holds
(`BundlesDerive`), that runs train on the selection (`BundlesTrain`) and that
bundles are immutable (`BundlesStay`). The last carries the others: whatever was
true of a whole bundle stays true. `MakingInv` says what the bundle being
written will be (its path is partial until then, its records those of the
created bundle), and `ChosenInv` why the training bundle in place fits the
created one, which `TrainsOnSelection` says only of runs that were started.
`WorkspaceKeepsStore` and `WorkspaceKeepsCrawl`
show that a workspace, seen on the variables of the store or of the crawler, is a
behaviour of that part, so that all that is proved of either holds in a
workspace (`WorkspaceLedger`, `WorkspaceCrawl`). `FetchedIsStaged` takes both and
`WorkspaceInv`, which says that the crawler and the store agree on the page being
imported and that the crawler's set of ledgered urls is among the sources of the
ledger: what a session calls fetched is on the ledger, where `LedgerResolvable`
finds its records.

Assumptions. The constants are typed and as little restricted as the code allows:
the kinds of files are finitely many (`StoreAssumption`), sites say for each page
what it links to (`CrawlAssumption`), there is a ring slot, a queue and a step.
The proofs of the engine that assume `Faults = FALSE` say so in their statement.

Every invariant and action property that a passing run checks is the subject of a
theorem. Only model-checked: `CallsReturn`,
`AppReleasedOnceTrained` and the liveness half of the refinement stay with TLC, because
liveness under fairness and ENABLED are beyond the prover. The properties of the
violated runs have counterexamples and no theorems.

## What is not modelled

Floating-point arithmetic, shaders and kernels; text extraction, HTML and PDF
parsing; HTTP; rendering. In the native runtime: the constructors' creation of
pipelines and the destructors, profile and capability queries, accessors of a
checkpoint's fields, `train_dataset_batch_full` (which only refuses), the
Cactus kernels. Argument checks are not steps: what they let through is a
hypothesis of the theorems about native programs, and the shapes of the run
pass them. A LoRA session step that returns its delta is proved in bounds with
at most 4 * rank rows; with more it leaves the buffer (`SessionDeltaFits`).
`KnownRaces`, which the theorems leave out, are the
finding of the run `metrics_race` and the operations with a missing barrier of
the same kind. Operating-system write errors other than a kill, except while a bundle
is created; a ledger line torn in the middle. Process exit while the worker (a daemon thread)
runs. `waitExternal` and `semaphoreForValue`, which read one field, and the
engine's destructor, whose callers drain first. The bound on the retained loss
series (100000 points). Of the dataset bundles: a bundle path given to
`start_training`, the split, and the prompt, which a reused training bundle
keeps from when it was derived. The crawler is given the same limits whenever it
is resumed. The responders, the GPU readiness and the local API: the readiness
thread, the training worker and the UI thread write `responder` and
`inference_status` one after the other without a lock, each refresh of the
readiness initialises inference again, and no guarantee about the two together
survives that; the hazard is listed.

## Plan

1. (done) `ExecEngine`, its abstract specification, refinement and proofs;
   `IngestStore`; `TrainingJob`.
2. (done) The native runtime: command programs and the device, the Tiny graph,
   the LoRA session, the batch buffer, the kernel APIs and the standalone
   trainers, with the proofs of the trainers and of the device.
3. (done) `DocumentationCrawl`, `DatasetBundles` with its proofs, and
   `Workspace`, which composes the crawler with the store.
4. (done) Proofs of the safety properties of `TrainingJob`, `IngestStore`,
   `DocumentationCrawl` and `GraphSession`, and of what a `Workspace` inherits.
5. (done) Proofs of `ProgramsFenced`, `ResultsSurvive` and `StagingInBounds` for
   the programs of the native API, at every rank and shape it accepts.
6. (open) `Responders` with the readiness thread, the worker and the API server.
