----------------------------- MODULE PipelineRun ----------------------------
(***************************************************************************)
(* One pipeline run, from its clone to its exit: the main flow of          *)
(* run.ts, run-execution.ts and the run-stage-*.ts files, the signal       *)
(* handler of run-abort-signals.ts beside it, and the teardown they share. *)
(*                                                                         *)
(* A step is one turn of the event loop: the code between two awaits.      *)
(* Paid sessions and Judges, git and docker are commands; what they answer *)
(* is left open, so every grade, failure and refusal is considered.  The   *)
(* run's commits form one history, each an ancestor of the next, and are   *)
(* numbered: 1 for the initial checkpoint, s + 1 for stage s and N + 2 for *)
(* the final candidate.                                                    *)
(***************************************************************************)
EXTENDS RunAbort

CONSTANT Pause    \* the run's --pause flag

ASSUME PauseAssumption == Pause \in BOOLEAN

VARIABLES
    pc,            \* where the main flow is
    stage,         \* 0 while preparing, 1..N in a stage, N + 1 after them
    calibrated,    \* RunReview.calibratedStageFailure
    cmd,           \* the command the main flow awaits
    handler,       \* where the signal handler is
    teardown,      \* RunAbortSignals.teardownStarted
    registered,    \* whether the signal handlers are installed
    source,        \* whether RunWorkspace.source is set
    proc,          \* the run's process
    clone,         \* the run's checkout and the claim in its .git
    manifest,      \* whether <run>.manifest.json is written
    pauseRequest,  \* pause-request.json
    pausedFile,    \* paused.json, the stage it names or NoStage
    checkpoints,   \* the checkpoint records written
    clonePin,      \* refs/rehearse/<run> in the clone
    targetPin      \* refs/rehearse/<run> in the target

flow == <<pc, stage, calibrated>>
process == <<cmd, handler, teardown, registered, source, proc>>
checkout == <<clone, manifest, pauseRequest, pausedFile, checkpoints,
              clonePin, targetPin>>
runVars == <<abortVars, flow, process, checkout>>

(* The points of the main flow at which it is working, in commands and     *)
(* between them.                                                           *)
Work == {"cloning", "prepare", "checkpoint", "pin", "copy", "session",
         "sources", "judge", "finalJudge", "calibrateStage", "calibrate"}

(* The points at which it awaits a transition of RunAbort. *)
AwaitCall == {"writePendingStage", "recordPass", "recordStop",
              "completeStopped", "writeFailedArtifact",
              "writePendingArtifact", "awaitArtifactReview",
              "completeArtifact"}

PCs == Work \cup AwaitCall \cup
         {"claimed", "discarding", "review", "judged", "boundary", "failing",
          "failed", "awaitRecord", "inspect", "pausing", "closing",
          "tearing", "done"}

RunTypeOK ==
    /\ TypeOK
    /\ pc \in PCs
    /\ stage \in 0..(N + 1)
    /\ calibrated \in BOOLEAN
    /\ cmd \in {"none", "running", "killed"}
    /\ handler \in {"idle", "killing", "recording", "tearing", "exited"}
    /\ teardown \in {"none", "services", "copy", "discard", "done", "failed"}
    /\ registered \in BOOLEAN
    /\ source \in BOOLEAN
    /\ proc \in {"running", "exited", "killed"}
    /\ clone \in {"none", "present", "claimed", "removed"}
    /\ manifest \in BOOLEAN
    /\ pauseRequest \in BOOLEAN
    /\ pausedFile \in Stages \cup {NoStage}
    /\ checkpoints \subseteq 0..N
    /\ clonePin \in 0..(N + 2)
    /\ targetPin \in 0..(N + 2)

RunInit ==
    /\ InitAbort
    /\ pc = "cloning"
    /\ stage = 0
    /\ calibrated = FALSE
    /\ cmd = "none"
    /\ handler = "idle"
    /\ teardown = "none"
    /\ registered = TRUE
    /\ source = FALSE
    /\ proc = "running"
    /\ clone = "none"
    /\ manifest = FALSE
    /\ pauseRequest = FALSE
    /\ pausedFile = NoStage
    /\ checkpoints = {}
    /\ clonePin = 0
    /\ targetPin = 0

Commit == stage + 1

(* The main flow is at p, in a live process, with no command under way. *)
At(p) ==
    /\ proc = "running"
    /\ pc = p
    /\ cmd = "none"

Go(p) == pc' = p /\ UNCHANGED <<stage, calibrated>>

-----------------------------------------------------------------------------
(* Commands.  Nothing refuses a command once a stop has begun.              *)

runCommand ==
    /\ proc = "running"
    /\ pc \in Work
    /\ cmd = "none"
    /\ cmd' = "running"
    /\ UNCHANGED <<abortVars, flow, handler, teardown, registered, source,
                   proc, checkout>>

CommandExits ==
    /\ proc = "running"
    /\ cmd = "running"
    /\ cmd' = "none"
    /\ UNCHANGED <<abortVars, flow, handler, teardown, registered, source,
                   proc, checkout>>

(* Work throws.  In a stage's paid steps stoppingAtCeiling records the     *)
(* ceiling against the stage when the spend has reached it.  The failure   *)
(* of a stage that is calibrated may come after its calibration.           *)
CeilingSteps == {"session", "sources", "judge"}

WorkFails ==
    /\ proc = "running"
    /\ cmd = "none"
    /\ pc \in Work \ {"cloning"}
    /\ pc' = "failing"
    /\ \/ UNCHANGED calibrated
       \/ pc = "calibrateStage" /\ calibrated' = TRUE
    /\ UNCHANGED stage
    /\ \/ UNCHANGED abortVars
       \/ pc \in CeilingSteps /\ stopAtCeiling(stage)
    /\ UNCHANGED <<process, checkout>>

-----------------------------------------------------------------------------
(* Preparation: the clone, its claim, the manifest.                         *)

CloneTarget ==
    /\ At("cloning")
    /\ clone = "none"
    /\ clone' = "present"
    /\ UNCHANGED <<abortVars, flow, process, manifest, pauseRequest,
                   pausedFile, checkpoints, clonePin, targetPin>>

claimTarget ==
    /\ At("cloning")
    /\ clone = "present"
    /\ clone' = "claimed"
    /\ Go("claimed")
    /\ UNCHANGED <<abortVars, process, manifest, pauseRequest, pausedFile,
                   checkpoints, clonePin, targetPin>>

(* cloneSource returns to RunWorkspace.clone, which keeps the source. *)
KeepSource ==
    /\ At("claimed")
    /\ source' = TRUE
    /\ Go("prepare")
    /\ UNCHANGED <<abortVars, cmd, handler, teardown, registered, proc,
                   checkout>>

CloneFails ==
    /\ At("cloning")
    /\ Go("discarding")
    /\ UNCHANGED <<abortVars, process, checkout>>

(* discardClone, then the catch of RunLifetime.clone. *)
DiscardClone ==
    /\ At("discarding")
    /\ clone' = IF clone = "none" THEN "none" ELSE "removed"
    /\ registered' = FALSE
    /\ closeStore
    /\ Go("done")
    /\ UNCHANGED <<cmd, handler, teardown, source, proc, manifest,
                   pauseRequest, pausedFile, checkpoints, clonePin,
                   targetPin>>

recordInitialRunManifest ==
    /\ At("prepare")
    /\ manifest' = TRUE
    /\ Go("checkpoint")
    /\ UNCHANGED <<abortVars, process, clone, pauseRequest, pausedFile,
                   checkpoints, clonePin, targetPin>>

-----------------------------------------------------------------------------
(* A checkpoint: its record, its pin in the clone, the copy in the target.  *)

recordCheckpoint ==
    /\ At("checkpoint")
    /\ clone = "claimed"
    /\ checkpoints' = checkpoints \cup {stage}
    /\ Go("pin")
    /\ UNCHANGED <<abortVars, process, clone, manifest, pauseRequest,
                   pausedFile, clonePin, targetPin>>

recordRetentionRef ==
    /\ At("pin")
    /\ clone = "claimed"
    /\ clonePin' = Commit
    /\ Go("copy")
    /\ UNCHANGED <<abortVars, process, clone, manifest, pauseRequest,
                   pausedFile, checkpoints, targetPin>>

retainInTarget ==
    /\ At("copy")
    /\ clone = "claimed"
    /\ targetPin' = clonePin
    /\ Go(IF stage = N + 1 THEN "closing" ELSE "boundary")
    /\ UNCHANGED <<abortVars, process, clone, manifest, pauseRequest,
                   pausedFile, checkpoints, clonePin>>

(* acceptGradedStage reads the pause request after every stage but the     *)
(* last; the next stage is announced whether or not an abort was requested.*)
PauseAtBoundary ==
    /\ At("boundary")
    /\ stage \in 1..(N - 1)
    /\ pauseRequest
    /\ Go("pausing")
    /\ UNCHANGED <<abortVars, process, checkout>>

(* Mutant: the last stage is followed by one more. *)
beginGradedStage_OnePast ==
    /\ At("boundary")
    /\ stage <= N
    /\ stage > 0 => ~pauseRequest
    /\ stage' = stage + 1
    /\ pc' = "session"
    /\ recordStageStarted(stage + 1)
    /\ UNCHANGED calibrated
    /\ UNCHANGED <<process, checkout>>

beginGradedStage ==
    /\ At("boundary")
    /\ stage < N
    /\ stage > 0 => ~pauseRequest
    /\ stage' = stage + 1
    /\ pc' = "session"
    /\ recordStageStarted(stage + 1)
    /\ UNCHANGED calibrated
    /\ UNCHANGED <<process, checkout>>

judgeRunCandidate ==
    /\ At("boundary")
    /\ stage = N
    /\ stage' = N + 1
    /\ pc' = "finalJudge"
    /\ UNCHANGED <<calibrated, abortVars, process, checkout>>

-----------------------------------------------------------------------------
(* A stage: its session, its pending record, its Judge, its verdict.        *)

(* A call RunAbort refuses because an abort was requested returns at once. *)
CallOr(call, waiting, returned) ==
    /\ \/ call /\ pc' = waiting
       \/ aborted /\ pc' = returned /\ UNCHANGED abortVars
    /\ UNCHANGED stage

(* Mutant: the stage is judged without its pending record. *)
publishPendingStage_Skipped ==
    /\ At("session")
    /\ Go("sources")
    /\ UNCHANGED <<abortVars, process, checkout>>

publishPendingStage ==
    /\ At("session")
    /\ CallOr(writePendingStage(stage), "writePendingStage", "sources")
    /\ UNCHANGED <<calibrated, process, checkout>>

prepareStageJudgment ==
    /\ At("sources")
    /\ Go("judge")
    /\ updatePendingStage(stage) \/ (aborted /\ UNCHANGED abortVars)
    /\ UNCHANGED <<process, checkout>>

(* The Judge reports its progress, which no abort silences.  One report    *)
(* stands for any number in a row.  The pending stage its invocation and   *)
(* its failure also update is the same stage, with more evidence.          *)
JudgeProgress ==
    /\ proc = "running"
    /\ pc = "judge"
    /\ cmd # "none"
    /\ events # <<>> => events[Len(events)].kind # "judge-progress"
    /\ recordJudgeProgress(stage)
    /\ UNCHANGED <<flow, process, checkout>>

StagePasses ==
    /\ At("judge")
    /\ CallOr(completeStage, "recordPass", "checkpoint")
    /\ UNCHANGED <<calibrated, process, checkout>>

StageStops ==
    /\ At("judge")
    /\ CallOr(writeStageProgress, "recordStop", "review")
    /\ UNCHANGED <<calibrated, process, checkout>>

reviewStoppedStage ==
    /\ At("review")
    /\ Go(IF Pause THEN "calibrateStage" ELSE "failing")
    /\ updatePendingStage(stage) \/ (aborted /\ UNCHANGED abortVars)
    /\ UNCHANGED <<process, checkout>>

calibrateStageFailure ==
    /\ At("calibrateStage")
    /\ CallOr(completeStage, "completeStopped", "failing")
    /\ calibrated' = TRUE
    /\ UNCHANGED <<process, checkout>>

-----------------------------------------------------------------------------
(* The candidate: the final Judge, its artifact, the review.                *)

FinalJudgeFailsPaid ==
    /\ At("finalJudge")
    /\ writeFailedArtifact
    /\ Go("writeFailedArtifact")
    /\ UNCHANGED <<process, checkout>>

FinalJudgeGrades ==
    /\ At("finalJudge")
    /\ CallOr(writePendingArtifact, "writePendingArtifact", "judged")
    /\ UNCHANGED <<calibrated, process, checkout>>

finishGradedRun ==
    /\ At("judged")
    /\ ~Pause
    /\ CallOr(awaitArtifactReview, "awaitArtifactReview", "pin")
    /\ UNCHANGED <<calibrated, process, checkout>>

finishPausedRun ==
    /\ At("judged")
    /\ Pause
    /\ Go("calibrate")
    /\ UNCHANGED <<abortVars, process, checkout>>

collectCalibration ==
    /\ At("calibrate")
    /\ CallOr(completeArtifact, "completeArtifact", "closing")
    /\ UNCHANGED <<calibrated, process, checkout>>

(* The awaited transition ends, or was skipped: the main flow goes on.     *)
AfterCall ==
    CASE pc = "writePendingStage"    -> "sources"
      [] pc = "recordPass"           -> "checkpoint"
      [] pc = "recordStop"           -> "review"
      [] pc = "completeStopped"      -> "failing"
      [] pc = "writeFailedArtifact"  -> "failing"
      [] pc = "writePendingArtifact" -> "judged"
      [] pc = "awaitArtifactReview"  -> "pin"
      [] pc = "completeArtifact"     -> "closing"

CallReturns ==
    /\ proc = "running"
    /\ pc \in AwaitCall
    /\ SkipTransition \/ RunArtifactReview \/ FinishTransition
    /\ Go(AfterCall)
    /\ UNCHANGED <<process, checkout>>

CallThrows ==
    /\ proc = "running"
    /\ pc \in AwaitCall
    /\ FailTransition
    /\ Go("failing")
    /\ UNCHANGED <<process, checkout>>

(* The turns of the chain in which no await of the main flow ends. *)
ChainStep ==
    /\ proc = "running"
    /\ StartTransition \/ RunRecord \/ WriteLands \/ WriteFails
    /\ UNCHANGED <<flow, process, checkout>>

-----------------------------------------------------------------------------
(* The end of the main flow: a failure, a pause, the close.                 *)

(* output.reportError flushes before the abort is marked. *)
reportError ==
    /\ At("failing")
    /\ Go("failed")
    /\ UNCHANGED <<abortVars, process, checkout>>

Mark(operatorStop) ==
    markAborted(operatorStop) \/ (recorded /\ UNCHANGED abortVars)

reportRunFailure ==
    /\ At("failed")
    /\ Mark(FALSE)
    /\ Go("awaitRecord")
    /\ UNCHANGED <<process, checkout>>

(* Mutant: the failure's record is not awaited. *)
FailureRecorded_NotAwaited ==
    /\ At("awaitRecord")
    /\ Go(IF Pause /\ ~calibrated THEN "inspect" ELSE "closing")
    /\ UNCHANGED <<abortVars, process, checkout>>

FailureRecorded ==
    /\ At("awaitRecord")
    /\ RecordDone
    /\ Go(IF Pause /\ ~calibrated THEN "inspect" ELSE "closing")
    /\ UNCHANGED <<abortVars, process, checkout>>

(* The reviewer answers the prompt, or stdin is closed. *)
pauseForFailureInspection ==
    /\ At("inspect")
    /\ Go("closing")
    /\ UNCHANGED <<abortVars, process, checkout>>

recordPaused ==
    /\ At("pausing")
    /\ \/ pausedFile' = stage
       \/ Faulty /\ UNCHANGED pausedFile
    /\ Go("closing")
    /\ UNCHANGED <<abortVars, process, clone, manifest, pauseRequest,
                   checkpoints, clonePin, targetPin>>

(* RunAbortSignals.teardown runs RunWorkspace.release once; a workspace    *)
(* with no source has only services to stop.                               *)
StartTeardown ==
    teardown' = IF teardown # "none" THEN teardown
                ELSE IF source THEN "copy" ELSE "services"

CloseBegins ==
    /\ At("closing")
    /\ StartTeardown
    /\ Go("tearing")
    /\ UNCHANGED <<abortVars, cmd, handler, registered, source, proc,
                   checkout>>

(* Mutant: a teardown that failed does not release its awaiters. *)
CloseEnds_OnlyDone ==
    /\ At("tearing")
    /\ teardown = "done"
    /\ registered' = FALSE
    /\ closeStore
    /\ Go("done")
    /\ UNCHANGED <<cmd, handler, teardown, source, proc, checkout>>

(* Mutant: the close abandons the transitions still chained. *)
CloseEnds_DropsChain ==
    /\ At("tearing")
    /\ teardown \in {"done", "failed"}
    /\ registered' = FALSE
    /\ storeOpen' = FALSE
    /\ queue' = <<>>
    /\ Go("done")
    /\ UNCHANGED <<aborted, phase, io, pendingStage, ceilingStop,
                   pendingArtifact, terminalRecorded, recorded, snapshot,
                   disk, cmd, handler, teardown, source, proc, checkout>>

CloseEnds ==
    /\ At("tearing")
    /\ teardown \in {"done", "failed"}
    /\ registered' = FALSE
    /\ closeStore
    /\ Go("done")
    /\ UNCHANGED <<cmd, handler, teardown, source, proc, checkout>>

(* With nothing left to await the process ends. *)
MainExits ==
    /\ At("done")
    /\ handler = "idle"
    /\ proc' = "exited"
    /\ UNCHANGED <<abortVars, flow, cmd, handler, teardown, registered,
                   source, checkout>>

-----------------------------------------------------------------------------
(* Teardown.  releaseClone removes the clone only after the target took    *)
(* the run's commits; a failed copy leaves the clone and its claim.        *)

(* Mutant: a copy that failed does not keep the clone. *)
releaseClone_DiscardsAnyway ==
    /\ proc = "running"
    /\ teardown = "copy"
    /\ \/ targetPin' = clonePin
       \/ Faulty /\ UNCHANGED targetPin
    /\ teardown' = "discard"
    /\ UNCHANGED <<abortVars, flow, cmd, handler, registered, source, proc,
                   clone, manifest, pauseRequest, pausedFile, checkpoints,
                   clonePin>>

releaseClone ==
    /\ proc = "running"
    /\ teardown = "copy"
    /\ \/ targetPin' = clonePin /\ teardown' = "discard"
       \/ Faulty /\ UNCHANGED targetPin /\ teardown' = "failed"
    /\ UNCHANGED <<abortVars, flow, cmd, handler, registered, source, proc,
                   clone, manifest, pauseRequest, pausedFile, checkpoints,
                   clonePin>>

discardClone ==
    /\ proc = "running"
    /\ teardown = "discard"
    /\ teardown' = "done"
    /\ clone' = "removed"
    /\ UNCHANGED <<abortVars, flow, cmd, handler, registered, source, proc,
                   manifest, pauseRequest, pausedFile, checkpoints, clonePin,
                   targetPin>>

StopServices ==
    /\ proc = "running"
    /\ teardown = "services"
    /\ teardown' = "done"
    /\ UNCHANGED <<abortVars, flow, cmd, handler, registered, source, proc,
                   checkout>>

-----------------------------------------------------------------------------
(* The signal handler.  With a command under way it kills it first and     *)
(* marks the abort in the turn the exit is seen, a few microtasks later    *)
(* and before the failure of that command can reach RunExecution's catch,  *)
(* which awaits a flush.  A second signal is ignored.                      *)

SignalKills ==
    /\ proc = "running"
    /\ registered
    /\ handler = "idle"
    /\ teardown = "none"
    /\ cmd = "running"
    /\ cmd' = "killed"
    /\ handler' = "killing"
    /\ UNCHANGED <<abortVars, flow, teardown, registered, source, proc,
                   checkout>>

KilledCommandExits ==
    /\ proc = "running"
    /\ handler = "killing"
    /\ cmd' = "none"
    /\ handler' = "recording"
    /\ Mark(TRUE)
    /\ UNCHANGED <<flow, teardown, registered, source, proc, checkout>>

SignalMarks ==
    /\ proc = "running"
    /\ registered
    /\ handler = "idle"
    /\ teardown # "none" \/ cmd = "none"
    /\ Mark(TRUE)
    /\ handler' = "recording"
    /\ UNCHANGED <<flow, cmd, teardown, registered, source, proc, checkout>>

HandlerTearsDown ==
    /\ proc = "running"
    /\ handler = "recording"
    /\ RecordDone
    /\ StartTeardown
    /\ handler' = "tearing"
    /\ UNCHANGED <<abortVars, flow, cmd, registered, source, proc, checkout>>

HandlerExits ==
    /\ proc = "running"
    /\ handler = "tearing"
    /\ teardown \in {"done", "failed"}
    /\ handler' = "exited"
    /\ proc' = "exited"
    /\ UNCHANGED <<abortVars, flow, cmd, teardown, registered, source,
                   checkout>>

-----------------------------------------------------------------------------
(* The operator's pause request, and a hard kill.                          *)

requestPause ==
    /\ proc = "running"
    /\ pauseRequest = FALSE
    /\ pauseRequest' = TRUE
    /\ UNCHANGED <<abortVars, flow, process, clone, manifest, pausedFile,
                   checkpoints, clonePin, targetPin>>

Crash ==
    /\ proc = "running"
    /\ proc' = "killed"
    /\ UNCHANGED <<abortVars, flow, cmd, handler, teardown, registered,
                   source, checkout>>

-----------------------------------------------------------------------------
Preparation ==
    \/ CloneTarget
    \/ claimTarget
    \/ KeepSource
    \/ CloneFails
    \/ DiscardClone
    \/ recordInitialRunManifest
    \/ recordCheckpoint
    \/ recordRetentionRef
    \/ retainInTarget

GradedStages ==
    \/ PauseAtBoundary
    \/ beginGradedStage
    \/ judgeRunCandidate
    \/ publishPendingStage
    \/ prepareStageJudgment
    \/ StagePasses
    \/ StageStops
    \/ reviewStoppedStage
    \/ calibrateStageFailure

Candidate ==
    \/ FinalJudgeFailsPaid
    \/ FinalJudgeGrades
    \/ finishGradedRun
    \/ finishPausedRun
    \/ collectCalibration

Finish ==
    \/ reportError
    \/ reportRunFailure
    \/ FailureRecorded
    \/ pauseForFailureInspection
    \/ recordPaused
    \/ CloseBegins
    \/ CloseEnds
    \/ MainExits

MainFlow ==
    \/ Preparation
    \/ GradedStages
    \/ Candidate
    \/ WorkFails
    \/ CallReturns
    \/ CallThrows
    \/ Finish

Teardown == releaseClone \/ discardClone \/ StopServices

SignalHandler == KilledCommandExits \/ HandlerTearsDown \/ HandlerExits

Signal == SignalKills \/ SignalMarks

RunNext ==
    \/ MainFlow
    \/ runCommand
    \/ CommandExits
    \/ JudgeProgress
    \/ ChainStep
    \/ Teardown
    \/ SignalHandler
    \/ Signal
    \/ requestPause
    \/ Crash

RunSpec == RunInit /\ [][RunNext]_runVars

(* Every command has a wall or a silence limit, every write settles and     *)
(* git's work on the clone ends.  A step of the main flow makes finitely    *)
(* many commands, so it ends if it can go on again and again.  Nothing      *)
(* obliges a signal, a pause request or a kill to come.                     *)
RunFairness ==
    /\ SF_runVars(MainFlow)
    /\ WF_runVars(CommandExits)
    /\ WF_runVars(ChainStep)
    /\ WF_runVars(Teardown)
    /\ WF_runVars(SignalHandler)

FairRunSpec == RunSpec /\ RunFairness

-----------------------------------------------------------------------------
HasEvent(kind) == \E i \in 1..Len(events) : events[i].kind = kind

(* While a stage is judged and no abort was requested, it is the stage      *)
(* RunAbort holds pending: completeStage and writeStageProgress never throw *)
(* "No stage transition is pending", and an abort names the right stage.    *)
JudgedStageIsPending ==
    (pc \in {"writePendingStage", "sources", "judge", "recordPass",
             "recordStop", "review", "calibrateStage", "completeStopped"}
       /\ ~aborted) => pendingStage = stage

(* Without a signal, the checkout is removed only when the target holds     *)
(* every commit the run pinned, whatever failed on the way.                 *)
CommitsKeptWithoutSignal ==
    (clone = "removed" /\ handler = "idle") => targetPin = clonePin

(* The run ends: the main flow, the handler and the chain never wait for    *)
(* one another for ever.                                                    *)
RunEnds == <>(proc # "running")

(* docs/reference.md: the signals stop child process groups, and a command  *)
(* left running would go on spending.                                       *)
NoCommandOutlivesStop == handler = "exited" => cmd = "none"

=============================================================================
