# Rehearse in TLA+

Rehearse runs a declared pipeline of agent stages against a clone of a target
repository, grades each stage with a Judge, records everything under
`.benchmark-runs/`, and lets a server and a CLI read those records. This
directory models the part of it that is hard to test: a run that is executing,
the signals, crashes and failed writes that end it, what the rest of the program
reads of it afterwards, the stores that several processes share, and the server
and browser that start commands, edit the corpus and watch a run while all of
them go on.

Source paths below are relative to the repository; `benchmark/` stands for
`src/benchmark/`, `server/` for `src/server/` and `cli/` for `src/cli/`.

## Inventory

| Component | State it keeps | Operations | Hard behaviour |
| --- | --- | --- | --- |
| Run abort (`benchmark/run-abort*.ts`) | the chain of writes, the pending stage, the ceiling stop, the pending artifact, the memoised abort record | `writePendingStage`, `writeStageProgress`, `completeStage`, `stopAtCeiling`, `updatePendingStage`, the four artifact calls, `markAborted` | a signal lands while a write is in flight; a call comes after the abort; a write fails |
| Pipeline run (`benchmark/run.ts`, `run-execution.ts`, `run-lifetime.ts`, `run-stage-*.ts`, `run-final-judgment.ts`, `run-review*.ts`, `run-pause.ts`) | where the main flow is, the checkpoints, the pins, the pause request | clone, prepare, checkpoint, one round of steps per stage, the final judgment, calibration, failure, pause, close | main flow, signal handler and chain interleave at every await |
| Signals and teardown (`benchmark/run-abort-signals.ts`, `run-workspace.ts`, `run-checkout.ts`, `target-clone.ts`) | whether a stop and a teardown began, the clone and its claim | kill the commands, mark the abort, copy the commits, remove the clone, exit | the main flow is still running while the handler tears down |
| Run readings (`benchmark/run-ending.ts`, `run-liveness.ts`, `run-outcome.ts`) | none: they read the files, the event stream and the claim | `runEnding` | one reading is up to nine reads across awaits, while the run writes its end and deletes its claim |
| Reconciliation (`benchmark/run-reconciliation.ts`) | none | one pass over the runs at server start | it reads, awaits three times and then appends |
| Spend ceiling (`benchmark/spend-ceiling.ts`) | dollars spent by a rep and by its group | `budgetFor`, `charge`, `reached` | a budget is granted before the spending it depends on is charged |
| Judge attempts and sessions (`benchmark/judge-attempt.ts`, `workflow.ts`, `session-call-accounting.ts`) | the calls made and what they cost | invoke, retry, charge | a call that fails may have spent |
| Commands (`benchmark/command.ts`) | the running child processes | run, time out, kill | a kill races a command that is starting |
| Session attempts and groups (`cli/session-*.ts`, `benchmark/session-attempt*.ts`, `session-confirmation-*.ts`, `stop-on-signal.ts`) | the attempts in flight, their claims, whether they are closed and commands refused; attempt and rep records and stop files | claim, prepare, run the session, its scorer and Judge, clean up, record; close, record the stop, refuse, kill, wait, exit | a stop meets several attempts, each at a step of its own; what a kill causes must not be recorded as an outcome; an attempt hangs |
| Corpus version store (`benchmark/corpus-version*.ts`, `corpus-layout.ts`) | blobs, manifests and one append-only log per source, shared by processes | `measureCorpusVersion`: list, store, write the manifest, append | measurements race for a log position; the source is edited while it is read; a process dies between two writes |
| Short ids (`benchmark/short-id*.ts`, `replay-recording.ts`) | claims and bindings of a case, shared by processes | `claimShortId`, `bindReplay`, `resolveShortId` | two commands claim at once; a process dies between create and write, or between binding and record |
| Corpus edits (`benchmark/corpus-edit*.ts`, `server/corpus-edit-gate.ts`, `client/src/corpus`) | the linked directory, the gate, the editor's file, draft and review | open, type, review, apply, discard | a change between the check and the write; a draft that changes while a request is in flight; an edit while a launch starts; a server that dies half way |
| Launches (`server/launch*.ts`, `process-launcher.ts`, `run-history-live-launches.ts`) | launch records, the gate's count, the runs whose analysis is starting | start, stop, list | a process exists before its record; two requests at once; a reused pid; a record that does not read; a restarted server |
| Run events and the page that watches a run (`server/api-event-stream.ts`, `client/src/monitor`, `client/src/run-detail`) | the stream's offset; the page's row, record and connection | stream, poll, refetch, reconnect | events, refetches, retries and a lost connection in any order |
| The rest of the server, the CLI and the client; comparisons, staleness, context evidence, session history | none that is shared | derive and print | none |

`PROJECT.json` lists the same components with their status, and under
`hazards` the places in the code where a test would hardly reach.

## Modules

* `RunAbort` models the run-abort component alone. `queue` is the promise chain
  of `RunAbortTransitions`; `phase` and `io` say which await the first
  transition is at and what became of its file write. A call appends a
  transition and changes what is pending at once, as the code does before its
  first await; `StartTransition`, `WriteLands`, `WriteFails`, `FinishTransition`
  and `FailTransition` are the turns in which the transition continues. The
  callers are unconstrained: any operation at any time.
* `PipelineRun` extends it with the run that calls it. `pc` is the await at
  which the main flow stands, `cmd` the child process it awaits, `handler` the
  signal handler, `teardown` the memoised teardown. What a session, a Judge, git
  or docker answers is left open, so every grade, refusal and failure occurs.
  `CallReturns` ties the end of a transition to the step of the main flow that
  awaited it.
* `RunReport` extends that with the readers of a run and the server's startup
  pass, at any time during and after the run. Each read of either is a step:
  `reader` and `pass` say which comes next, so that a reading may see one record
  before the run's end and another after it. `runEnding` is what a reading
  answers when nothing is written between its reads; the properties of ended
  runs are stated of it.
* `SpendCeiling` models the budget of the reps of a group, with sessions in
  flight in any number of reps at once. An answered envelope may lack its total,
  which the schema allows: the call is then charged nothing and the rep goes on
  (`omitted` counts such answers). `billed` is what the provider billed a rep
  apart from those.
* `CorpusStore` models concurrent calls of `measureCorpusVersion` on one source.
  `pc` is the await of each; `todo`, `listed` and `files` are what it has listed
  and stored, `names` and `latest` what it has read of the log. `EditSource`
  changes the source between any two of its reads, `Fail` stops it at any of
  them, and `RemoveEntry` deletes a log entry, which `appendToLog` is written to
  survive. `VersionLog` is the abstract specification it implements: each
  measurement takes effect at one moment, and adds its version only when the
  latest entry holds another. The moment is the listing of a log that ends in
  that version, or the link that succeeds (`TookEffect`).
* `ShortIds` models the commands that claim a number in one case's registry and,
  for replays, bind it and write the record. `createClaim` and `writeClaim` are
  the two halves of `createExclusively`, so a claim is `Torn` in between, and
  stays so when the command dies there.
* `EditGate` is the abstract specification of the gate between corpus edits and
  launch starts: while an edit is past its check, no launch is starting, and none
  runs unless its record did not read at the check (`"blind"`), which the code
  lets refuse nothing. It is what one side may assume of the other.
* `Launches` models the server's launches: `start` is the await of each start
  request, `stop` of each stop request, `holder` the process that has each pid.
  It implements `EditGate` (`ImplementsGate`), with `launching` as a start that
  holds the gate and `alive` as a running process of a recorded launch. `Restart`
  drops the server's requests and leaves its processes running, as
  `process-launcher.ts` does; foreign processes take pids that are free. Each
  time the records are read, any of them may not read (`unread`): the launch is
  then listed as unreadable and counts as live for nobody. `overlooked` notes
  which running analyses a new one was planned beside in this way.
* `CorpusEditing` extends `EditGate` with the editor in the browser and the
  server's review and apply. `opened`, `draft`, `reviewed` and `watching` are the
  editor's state, `fetch`, `review` and `apply` its requests in flight, each
  split at the awaits of its handler. Launches appear as the gate's own steps
  only, so this module relies on exactly what `Launches` was shown to implement.
* `SessionStop` models one session command: `main` is the await of
  `executeSessionRun`, `at` of each attempt, `stop` of the signal's stop.
  `tainted` marks the attempts whose outcome the stop had a hand in, `unremoved`
  those whose cleaning kept files or could not remove them: the session's
  directory stays unless the record holds its sub-agents' files.
* `RunMonitor` models the run detail page on a live run: two queries with
  retries and the refetch rules of the query library, the effect on a phase
  change, the EventSource and the server's batches. The run is a counter of
  record versions, the last one its end.
* `RunProofs` holds the theorems of the first three modules; `SpendCeilingProofs`,
  `CorpusStoreProofs`, `ShortIdsProofs`, `LaunchesProofs`, `CorpusEditingProofs`,
  `SessionStopProofs` and `RunMonitorProofs` those of the module each is named
  after. `MC*` modules add what only model checking needs.

The first three modules are layers of one system: `RunReport` extends
`PipelineRun`, which extends `RunAbort`. `Launches` and `CorpusEditing` meet in
`EditGate`. The other components meet a run only through a call that returns a
value (a budget, a version, a number) or through its records, and are modelled on
their own, with several processes at once.

A record is abstracted to its status, a stage to its number (0 for none), a
commit to its place in the run's history, money to whole units, a file's body
and a version to themselves in place of their hashes, and a record's name to
the command that makes it.

Definitions whose names end in `_<Word>` after the name of another definition
are mutants: the same definition with a plausible mistake in it. Each checked
property is shown to fail when one of them replaces the definition it is a
mutant of; nothing else refers to them.

## Runs

| Run | Instance | Shows |
| --- | --- | --- |
| `pipeline_run` | 2 stages, `--pause`, no faults | `AbortIsFinal`: no queued or late transition overwrites the abort's record; `OneStoppedStage`: at most one stage reads as stopped; `JudgedStageIsPending`: a Judge that runs has its stage recorded as pending |
| `run_report` | 2 stages, no faults, no `--pause` | `AbortRecordsPending`: the finished record says of everything pending at the request that it failed; `StopRewritesNothing`: a stop rewrites neither a stage accepted nor an artifact released before it; `LiveRunNotInterrupted`, `StopReadsAsStop`, `PassKeepsReading`: how a live, a stopped and a dead run read, with readings that race the run's end |
| `pipeline_run_faulty` | 1 stage, any write, append or command may fail | `RunEnds`: main flow, handler and chain never wait for one another for ever, and a failed transition releases the chain; `CommitsKeptWithoutSignal` |
| `spend_ceiling` | 3 reps, ceiling 2, one stage of two turns, two Judge attempts, 1 answer without a total | `RunOverrun`: a rep is billed at most one call's overrun past its ceiling, also when a failed call reports nothing, but for answers without a total; `HaltedReadsCeiling`: a halt at a clamped budget reads as the ceiling's; `NoStartPastGroup`: no call starts once the reps' charges reach the group's total |
| `corpus_store` | 3 measurements, 1 path, 1 body, 2 edits, 1 deleted entry | `MeasuredAtOnce`: until an entry is deleted the measurements implement `VersionLog`, so two of one new state add one entry; `LoggedIsKept`: a logged version has its manifest and its bodies; `MeasurementEnds`: a missing entry stalls no writer |
| `short_ids` | a run, a group and two replays | `ToldNamesOwn`: a number told to a command names its own record; `NameIsKept`: and for good; `ClaimEnds` |
| `launches` | 2 analyses of one run, 1 case launch, 2 pids, 1 restart | `ImplementsGate`; `GateCountsStarts`: however a start ends, the gate stops counting it; `SoleAnalysis`: two requests together start one paid analysis, and a later one starts beside a running one only if that one's record did not read; `StopWins`: a stop that was answered reads as a stop, whatever the process wrote as its ending |
| `corpus_editing` | 1 editor, 2 texts, 2 changes by another program, 1 restart | `WrittenUnderGate`: from its check to its answer an apply holds the gate and no launch starts, and none runs but one whose record did not read at the check; `AppliedIsReviewed`: what is written is the text the server reviewed; `OldVersionKept`: what an apply replaces is in the version log, with the two exceptions below; `GateIsReleased` |
| `session_stop` | 1 attempt or 2 reps, 2 Judge attempts | `StopNotRecorded`: no record tells an outcome a kill, a refused command or a closed command brought about; `NothingOutlivesExit`: no command is left and, short of the bound, no file of an attempt but what its cleaning keeps or cannot remove; `StopOrRecord`: a claimed attempt has its record or the stop's; `StopEnds` |
| `run_monitor` | 2 steps, 1 retry, 2 faults | `EventsInOrder`: on one connection every event once and in order; `RecordNotBehindRow`; `RecordCatchesUp`: a page that showed the run live comes to show its end, or its refetch was given up and the older record stays; `StreamCloses`: and stops reconnecting |
| `command_after_stop` | 1 stage | refutes a sentence of the documentation; see Findings |
| `draft_kept` | as `corpus_editing` | refutes a sentence the editor shows; see Findings |

The type invariants `TypeOK`, `RunTypeOK`, `StoreTypeOK`, `SpendTypeOK` and
`ShortIdTypeOK` are proved, on their own or as parts of an inductive invariant,
and are not checked a second time by the runs. The refinement of `RunAbort` by a
run is proved too (`RunImplementsAbort`), and so is what `RunAbort` guarantees
to callers that call any operation at any time: the runs explore it under the
calls a run makes.

Bounds. Two stages are the fewest with a boundary at which a run may pause, an
accepted stage that a later stop could rewrite, and two stages a stop could
confuse. `PipelineRun` needs no other bound: the main flow awaits each call
before the next and each loop moves to a later stage; consecutive progress
reports of a Judge are one report. Faulty instances use one stage because the
questions asked of them do not distinguish stages. Three reps let one overrun
while two others hold grants of the same dollars; one answer without a total
(`MaxOmitted`) is enough for a session to go on after it, and for the next total
of the same session to make up for it. Three measurements let one win a
position, one lose it and a third come after both; two edits (the file is made
and removed, or the reverse) let the source return to an earlier state, so that
a version is logged twice with another in between. A deleted entry below the
highest needs two entries and a third writer. `CorpusStore` and `ShortIds` need
no bound on the log or the registry: each call adds one entry at most. Two
replays and two other commands make every pair of kinds race for a number.

Two analyses and one other launch let two starts of one kind race, a stop be
asked while an analysis starts, and an edit meet either; two pids are the fewest
with which a process of another program takes the pid of a launch that ended
while a second launch runs. The two analyses and the pids are interchangeable
(`SYMMETRY`; the run checks no liveness). Which records do not read is chosen
anew at each reading, without a bound. Two texts and two changes by another
program let the directory change and change back under an apply. A second editor
is seen by the first as another holder of the gate and as a program that writes
the file; an instance with two editors is beyond what one run can explore. Two
reps let one store its record or settle while the other is killed; the proofs
are for any number. `MaxJudge = 2` gives the Judge one retry. Two versions after
the first give a run a step between its start and its end; two faults let a
fetch fail on each of its two attempts, or once beside a lost connection.

Deadlock is checked in `run_monitor`, whose page never stops polling. It is not
in the others: a run, a rep, a measurement and a command end, and a bounded
caller stops. `RunEnds`, `MeasurementEnds`, `ClaimEnds`, `GateIsReleased` and
`StopEnds` are what exclude one that hangs.

## Fairness

`PipelineRun` assumes weak fairness of the chain's turns and of the file system:
a write settles, and a settled promise runs its continuation. It also assumes
that commands end (each has a wall or a silence limit in `command.ts`), that the
teardown's git work ends and that the handler's turns are taken. Strong fairness
of the main flow says that a step which makes finitely many commands ends:
between two commands it is enabled, during one it is not. No signal, pause
request or kill is obliged to come. A prompt for the reviewer is assumed to be
answered or its input closed. `CorpusStore` assumes that a measurement that
lives goes on or fails, and `ShortIds` that a claim goes on; neither obliges
anyone to edit, to delete or to die, nor a replay's session to end.

`CorpusEditing` assumes of each apply that the server goes on with it (it awaits
file operations only); the editor, the launches and the other programs are free.
`SessionStop` assumes that the stop's own continuations run and that a process
that was sent SIGKILL ends; an attempt may hang in any of its steps, which is the
case the bound is for. `RunMonitor` assumes that a request is answered or fails,
that the poll timer fires, and that React runs the effects of a changed row; the
run and the faults are free, and nothing is assumed of the stream.

## Proofs

`RunProofs` has three parts, one per layer of a run.

*The abort.* For every number of stages and every order of calls: type
correctness, `OneStoppedStage`, `AbortRecordsPending` and `AbortIsFinal`. None
is inductive. `IInv` adds: a transition that has begun is the first of the chain
and its phase says what it is (`ChainInv`); the abort's record is queued once
and only failed artifacts may follow it (`QueueInv`); a stop in a stage record
is the abort's own, of the stage its snapshot names (`StopInv`); and what the
record has written by the time it reaches each of its phases, when no write
fails (`ProgressInv`). The last is what carries `AbortRecordsPending`: an
interrupted transition writes before the record and the record writes last. The
proof classifies the steps of `Next` by what they do to the chain, so that each
conjunct is shown once per kind of step.

*The run.* Every step of a run is a step of `RunAbort` or leaves it alone
(`RunImplementsAbort`), so the guarantees above hold of runs; the judged stage
is the pending one and no pinned commit is lost without a signal. `RunInv`
relates `pc` to the transition it awaits and to the pending stage.

*What the run reads as.* `ReportType`, `LiveRun`, `SignalReadsAsStop`,
`NothingRewritten` and `ReadingKept` state the five properties of `RunReport`.
The readers see files only, so `ReportInv` says what the files hold when the
main flow is at each of its places:

* `EndInv`: a run that no abort reached tears down only after a terminal event,
  its last, or `paused.json` (`UnabortedEnd`); one that failed has its record
  queued alone and ends when it is done (`FailedEnd`); the store stays open until
  the end (`StoreInv`).
* `ReaderInv` and `TerminalInv`: what a reading has passed tells what it had not
  seen. One that began after the recorded end finds it before it comes to the
  claim; one that finds the claim of a live run gone answers after the end was
  recorded, since the teardown comes later. With `EndInv` they carry `LiveRun`:
  only a reading that raced the end calls a live run interrupted, and the next
  one does not.
* `AcceptInv`: the stages accepted before the abort are the checkpointed ones,
  each recorded as JUDGED, and nothing queued, pending or in the snapshot names
  one of them. It carries the first half of `NothingRewritten`.
* `ReleaseInv`: once `run-completed` is recorded, nothing is left in the chain,
  in the snapshot or in the main flow that would write the artifact. It carries
  the second half.
* `PassInv`, `SeenInv` and `InterruptInv`: what a reconciliation pass that began
  after the end has read still holds when it goes on, what any pass has seen
  that never changes again, and that no pass calls a live run interrupted. They
  carry `ReadingKept`, which also speaks of a pass that read before the end: of
  the readings, its late append changes only those of a run that reads as
  failed or as completed without artifact.
* `FlowInv`, `HandlerInv` and `CommitInv`: what the place of the main flow says of
  the checkout, and that the handler tears down after the record. With them
  `SignalReadsAsStop` follows from `ProgressInv`.

`SpendCeilingProofs` proves `RunOverrun` and `HaltedReadsCeiling` for any number
of reps, any amounts and any number of answers without a total. `SpendInv` adds
that a call in flight was granted at
most what its rep has left and, when its budget was clamped, that it spends at
least what is left to the rep or to the group by then (`GrantInv`), and that a
rep that goes on was charged all that `billed` counts (`BilledInv`): a retry of a
failed call that told no cost is what would let a rep spend without bound. The
answers without a total are outside `billed`, and so outside the bound: the code
charges them nothing, and a rep may pass its ceiling by each of them.

`CorpusStoreProofs` proves `LoggedIsKept` and, until an entry is deleted, the
refinement of `VersionLog`, for any number of measurements, paths, bodies and
edits. After a deletion the log is no longer a sequence, a writer that listed
the deleted entry may fill its position, and only `LoggedIsKept` and
`MeasurementEnds` are claimed. `LogInv` says that, before, the log is a sequence
and that the entry a measurement read last is still there; so a link that finds
the next position free adds to the end of the log, after an entry that is not
its own version. `KeptInv` says that a measurement holds only bodies it stored,
and reaches the log only with a version whose manifest it wrote.

`ShortIdsProofs` proves `ToldNamesOwn` and `NameIsKept` for any number of
commands. `ClaimInv` says that a living command that created its claim holds its
number alone, and `BindInv` that only the replay that holds a number binds it,
so that `bindReplay` never finds it bound.

`LaunchesProofs` proves all that the run `launches` checks, for any launches,
any pids and any number of restarts: type correctness, `GateCountsStarts`,
`SoleAnalysis`, `StopWins` and the refinement of `EditGate`. `LaunchInv` adds
that the process of a launch that runs holds the pid the launch was given, and
that nobody else does (`ChildInv`); that one analysis at most is between its
check and its record, and that it overlooked any that is recorded and running
beside it (`AnalysisInv`); and that a stop is answered only after it is in the
launch's record (`StopInv`). `NoEditMeetsLaunch` draws the conclusion the gate
is for from the refinement: what `EditGate` promises holds of the launches, with
its exception for a launch whose record did not read.

`CorpusEditingProofs` proves the other side, for any number of editors (the
instance has one), texts, restarts and changes by other programs: `EditTypeOK`,
`WrittenUnderGate`, `AppliedIsReviewed` and `OldVersionKept`, and that the edits
use the gate by its operations only (`EditsUseGate`). `GateInv` says that one
apply at most is past its check and that it holds the gate; `ReviewInv` that an
answered review stands for the text the server saw; `HashInv` what an apply
knows of the directory from its hashes: it holds the starting version until
another program writes, does not after one such write, and that version is
logged by the last hash unless another program wrote twice in between.

`SessionStopProofs` proves `SessionTypeOK`, `StopNotRecorded`, `StopOrRecord`
and `NothingOutlivesExit` for any number of reps and any Judge limit.
`SessionInv` says where an attempt may be while the command is at each of its
awaits (`PlaceInv`), when a Judge may be asked again (`TurnInv`), at which steps
an attempt has a command, or files other than those its cleaning left
(`UseInv`), how far the stop has come by what it has closed, refused and killed
(`StopInv`) and by the stop files it has written (`FileInv`), that an outcome
the stop had a hand in comes after the attempts were closed (`TaintInv`), that a
claimed attempt is the stop's to record until it settles (`ClaimInv`), and what
holds when the process exits (`ExitInv`).

`RunMonitorProofs` proves `MonitorTypeOK`, `EventsInOrder` and
`RecordNotBehindRow` for a run of any length, any number of faults and any retry
limit. `WireInv` says that what was sent on the connection is a beginning of the
run's events, in their order; `ServerInv` up to which event the request has sent
them all, while it polls and while it writes a batch; `RecordInv` that the phase
the page acted on is not ahead of the run, and that a record read anew is read
after the phase that asked for it.

Two proofs failed at first, each at a step that the instances had not reached.
`OldVersionKept` was false with two changes by another program, one that writes
and one that writes back between the two hashes of one apply: `applyCorpusEdit`
then logs the text in between and replaces the first one. Its statement has that
exception now, and the instance has the two changes. And a rep's record could be
written in the model after the storing of another had failed, which
`storeSessionReps` excludes by throwing; `storeRep` has the guard now.

The proofs assume what the constants are and nothing else: `RunAbortAssumption`,
`PauseAssumption`, `SpendAssumption`, `StoreAssumption`, `ShortIdAssumption`,
`LaunchAssumption`, `EditingAssumption`, `SessionAssumption` and
`MonitorAssumption`. They say that numbers are numbers, that Boolean options are
Boolean and that the model values which stand for different things differ. The
runs evaluate each of them on their instance.

Model-checked only:

* liveness (`RunEnds`, `MeasurementEnds`, `ClaimEnds`, `GateIsReleased`,
  `StopEnds`, `RecordCatchesUp`, `StreamCloses`): the prover does not reason about
  fairness or ENABLED;
* `NoStartPastGroup`, which is about a sum over the reps: that adding to one
  charge adds as much to the sum needs induction over the set of reps, which the
  prover's backends cannot instantiate;
* `NoCommandOutlivesStop` and `DraftKept`, which the code does not have (see
  Findings).

## Findings

* `command_after_stop`: the run's handler kills the running commands but does
  not refuse later ones, as the handler of session attempts does; the main flow
  can start one that outlives the process.
* `draft_kept`: the editor says that unapplied drafts stay until they are
  discarded; the answer of an apply discards the draft as it is by then, also
  text typed while the apply was in flight.

## Not modelled

The provider is external: a call is taken to cost its budget and at most
`Overrun` more. Rejudging for calibration spends as a Judge does and is left out
of `SpendCeiling`. A measurement's temporary files, which no reader takes for an
entry, and the caches of a report's read scope are left out of `CorpusStore`;
deleting a whole registry, which the documentation says restarts its numbers, is
left out of `ShortIds`. Turn-completed events and the progress file, which no
reader here depends on. The two places where a run has several commands at once
(`target-snapshot.ts`, `run-initial-corpus.ts`): `cmd` is one. The evidence that
`updatePendingStage` adds to the pending stage. The claims of runs older than
clones, and the startup pass over a target whose marker cannot be read, which
leaves the run alone (the readers have that case). Readings of a page that the
browser asks for when its window regains focus. A clone left behind by a signal
that lands before `RunWorkspace.source` is set is modelled, but no property is
stated of it.

Some behaviours are in the models and no property is stated of them, since the
code or its comments accept them: a commit pinned between the copy and the
removal of a teardown that a signal started; `run-interrupted` appended after a
terminal event that came while the startup pass was reading (a failed run may
read as interrupted from then on, which `PassKeepsReading` states as the one
change a pass makes); a launch record that does not read, under which an edit or
a second analysis goes ahead (the properties of the gate state it as their
exception); a version measured during two edits, which mixes two states
of the source; a process that takes a launch's pid between the check of its start
time and the signal, or keeps an ended launch listed as alive; a launch whose
record could not be written, or whose server died before it; a file whose version
was hashed before and whose bytes were read after a change; a page opened just as
its run ends, whose phase change joins the record's first reading.

Left out: why a launch's request is refused, apart from an analysis that runs;
the pause request of a run; what an edit invalidates and the paired rerun it
offers; the distance of the corpus under test from the logged versions; the
readings of stage sessions and Judges, which events refetch beside the record;
the groups of pipeline runs, whose reps are runs as `PipelineRun` models them;
and the stop of replays, rejudges and diagnoses, which use `stopOnSignal` without
attempts in flight. The report routes of the server and most of the client
derive what they show from records and keep no state that two actors share:
model checking would add nothing to their tests.

## Plan

1. Proofs: the refinement `MeasuredAtOnce` with deleted entries, under an abstract
   log whose positions may become free; type correctness of every layer as listed
   theorems.
2. Models, when the code they are about changes: the timeout and the silence
   limit of `command.ts` against a kill; in-flight claims of targets as processes
   start and die; stage grade, lineage and version distance as operators checked
   against reference definitions.
