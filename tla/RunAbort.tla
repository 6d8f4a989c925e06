------------------------------ MODULE RunAbort ------------------------------
(***************************************************************************)
(* The records a pipeline run keeps while it executes and the way an abort *)
(* closes them: src/src/benchmark/run-abort*.ts.                           *)
(*                                                                         *)
(* RunAbortTransitions chains every write of a record behind the previous  *)
(* one; RunAbortStageLifecycle and RunAbortArtifactLifecycle keep the      *)
(* stage and the artifact that are pending in memory; RunAbortRecovery     *)
(* takes a snapshot of what is pending and queues the abort's own record.  *)
(*                                                                         *)
(* The module leaves the callers open: any of the operations may be called *)
(* at any time, by any number of callers, as the unit tests of the         *)
(* component do.  PipelineRun composes it with the one caller of the       *)
(* program.                                                                *)
(*                                                                         *)
(* A record is abstracted to its status.  Stages are numbered 1..N in the  *)
(* order of the pipeline, 0 stands for undefined.                          *)
(***************************************************************************)
EXTENDS Naturals, Sequences

CONSTANTS
    N,          \* the number of stages of the pipeline
    Faulty      \* whether a file write or an event append may fail

ASSUME RunAbortAssumption ==
    /\ N \in Nat \ {0}
    /\ Faulty \in BOOLEAN

VARIABLES
    aborted,          \* RunAbortTransitions.aborted
    queue,            \* the transitions chained on RunAbortTransitions.ready
    phase,            \* where the first transition of the queue is
    io,               \* the file write that transition awaits
    pendingStage,     \* RunAbortStageLifecycle.pendingStage
    ceilingStop,      \* RunAbortStageLifecycle.ceilingStop
    pendingArtifact,  \* RunAbortArtifactLifecycle.pendingArtifact
    terminalRecorded, \* RunAbortEvents.terminalRecorded
    recorded,         \* whether RunAbortRecovery.recorded is set
    snapshot,         \* what markAborted found pending
    storeOpen,        \* whether the SQLite event store is open
    artifact,         \* <run>.json
    stageFile,        \* <run>.<stage>.json
    stopFile,         \* operator-stop.json
    events            \* the run's rows of run-events.sqlite

memory == <<aborted, queue, phase, io, pendingStage, ceilingStop,
            pendingArtifact, terminalRecorded, recorded, snapshot, storeOpen>>
disk == <<artifact, stageFile, stopFile, events>>
abortVars == <<memory, disk>>

Stages == 1..N
NoStage == 0

ArtifactStatus == {"none", "AWAITING_HUMAN_REVIEW", "COMPLETE", "FAILED"}
StageStatus == {"none", "AWAITING_STAGE_JUDGE", "JUDGED", "STAGE_JUDGE_FAILED"}

TerminalKinds == {"run-completed", "run-failed", "run-interrupted"}
EventKinds == {"stage-started", "stage-judging", "judge-progress",
               "stage-completed"} \cup TerminalKinds
Events == [kind : EventKinds, stage : Stages \cup {NoStage}]

StageCalls == {"writePendingStage", "writeStageProgress", "completeStage"}
ArtifactCalls == {"writePendingArtifact", "completeArtifact",
                  "awaitArtifactReview"}
NormalCalls == StageCalls \cup ArtifactCalls
Calls == NormalCalls \cup {"writeFailedArtifact", "record"}
Transitions == [call : Calls, stage : Stages \cup {NoStage},
                artifact : ArtifactStatus]

Phases == {"queued", "write", "operatorStop", "stageStop", "artifactStop"}
Snapshots == [stage : Stages \cup {NoStage}, ceiling : Stages \cup {NoStage},
              artifact : ArtifactStatus, operatorStop : BOOLEAN]

TypeOK ==
    /\ aborted \in BOOLEAN
    /\ queue \in Seq(Transitions)
    /\ phase \in Phases
    /\ io \in {"idle", "busy", "landed", "failed"}
    /\ pendingStage \in Stages \cup {NoStage}
    /\ ceilingStop \in Stages \cup {NoStage}
    /\ pendingArtifact \in ArtifactStatus
    /\ terminalRecorded \in BOOLEAN
    /\ recorded \in BOOLEAN
    /\ snapshot \in Snapshots
    /\ storeOpen \in BOOLEAN
    /\ artifact \in ArtifactStatus
    /\ stageFile \in [Stages -> StageStatus]
    /\ stopFile \in BOOLEAN
    /\ events \in Seq(Events)

InitAbort ==
    /\ aborted = FALSE
    /\ queue = <<>>
    /\ phase = "queued"
    /\ io = "idle"
    /\ pendingStage = NoStage
    /\ ceilingStop = NoStage
    /\ pendingArtifact = "none"
    /\ terminalRecorded = FALSE
    /\ recorded = FALSE
    /\ snapshot = [stage |-> NoStage, ceiling |-> NoStage,
                   artifact |-> "none", operatorStop |-> FALSE]
    /\ storeOpen = TRUE
    /\ artifact = "none"
    /\ stageFile = [s \in Stages |-> "none"]
    /\ stopFile = FALSE
    /\ events = <<>>

-----------------------------------------------------------------------------
(* The event recorder: appending is best effort, and an append to a closed  *)
(* store is lost.                                                           *)

Recorded(kind, stage) ==
    \/ /\ storeOpen
       /\ events' = Append(events, [kind |-> kind, stage |-> stage])
    \/ /\ Faulty \/ ~storeOpen
       /\ UNCHANGED events

(* RunAbortEvents.artifactCompleted: it does not ask whether a terminal     *)
(* event was recorded before.                                               *)
artifactCompleted(kind) ==
    /\ Recorded(kind, NoStage)
    /\ terminalRecorded' = TRUE

(* RunAbortEvents.aborted. *)
abortedEvent ==
    /\ IF terminalRecorded
         THEN UNCHANGED events
         ELSE Recorded("run-failed",
                       IF snapshot.stage # NoStage THEN snapshot.stage
                                                   ELSE snapshot.ceiling)
    /\ terminalRecorded' = TRUE

-----------------------------------------------------------------------------
(* The calls.  Each runs to its first await; a call refused because an      *)
(* abort was requested changes nothing.                                     *)

Enqueue(call, stage, status) ==
    queue' = Append(queue, [call |-> call, stage |-> stage,
                            artifact |-> status])

writePendingStage(s) ==
    /\ ~aborted
    /\ pendingStage' = s
    /\ Enqueue("writePendingStage", s, "none")
    /\ UNCHANGED <<aborted, phase, io, ceilingStop, pendingArtifact,
                   terminalRecorded, recorded, snapshot, storeOpen, disk>>

writeStageProgress ==
    /\ ~aborted
    /\ pendingStage # NoStage
    /\ Enqueue("writeStageProgress", pendingStage, "none")
    /\ UNCHANGED <<aborted, phase, io, pendingStage, ceilingStop,
                   pendingArtifact, terminalRecorded, recorded, snapshot,
                   storeOpen, disk>>

completeStage ==
    /\ ~aborted
    /\ pendingStage # NoStage
    /\ Enqueue("completeStage", pendingStage, "none")
    /\ UNCHANGED <<aborted, phase, io, pendingStage, ceilingStop,
                   pendingArtifact, terminalRecorded, recorded, snapshot,
                   storeOpen, disk>>

stopAtCeiling(s) ==
    /\ ~aborted
    /\ ceilingStop' = IF pendingStage = s THEN ceilingStop ELSE s
    /\ UNCHANGED <<aborted, queue, phase, io, pendingStage, pendingArtifact,
                   terminalRecorded, recorded, snapshot, storeOpen, disk>>

updatePendingStage(s) ==
    /\ ~aborted
    /\ pendingStage' = s
    /\ UNCHANGED <<aborted, queue, phase, io, ceilingStop, pendingArtifact,
                   terminalRecorded, recorded, snapshot, storeOpen, disk>>

ArtifactCall(call, status) ==
    /\ pendingArtifact' = status
    /\ Enqueue(call, NoStage, status)
    /\ UNCHANGED <<aborted, phase, io, pendingStage, ceilingStop,
                   terminalRecorded, recorded, snapshot, storeOpen, disk>>

writePendingArtifact ==
    ~aborted /\ ArtifactCall("writePendingArtifact", "AWAITING_HUMAN_REVIEW")

completeArtifact ==
    ~aborted /\ ArtifactCall("completeArtifact", "COMPLETE")

awaitArtifactReview ==
    /\ ~aborted
    /\ Enqueue("awaitArtifactReview", NoStage, "none")
    /\ UNCHANGED <<aborted, phase, io, pendingStage, ceilingStop,
                   pendingArtifact, terminalRecorded, recorded, snapshot,
                   storeOpen, disk>>

(* The one call an abort request does not refuse. *)
writeFailedArtifact == ArtifactCall("writeFailedArtifact", "FAILED")

Snapshot(operatorStop) ==
    [stage |-> pendingStage, ceiling |-> ceilingStop,
     artifact |-> pendingArtifact, operatorStop |-> operatorStop]

(* Mutant: requestAbort is not called, so later calls are not refused. *)
markAborted_WithoutRequest(operatorStop) ==
    /\ ~recorded
    /\ recorded' = TRUE
    /\ snapshot' = Snapshot(operatorStop)
    /\ Enqueue("record", NoStage, "none")
    /\ UNCHANGED <<aborted, phase, io, pendingStage, ceilingStop,
                   pendingArtifact, terminalRecorded, storeOpen, disk>>

(* RunAbortRecovery.markAborted.  Only the first call takes a snapshot;     *)
(* every later one awaits the same record.                                  *)
markAborted(operatorStop) ==
    /\ ~recorded
    /\ aborted' = TRUE
    /\ recorded' = TRUE
    /\ snapshot' = Snapshot(operatorStop)
    /\ Enqueue("record", NoStage, "none")
    /\ UNCHANGED <<phase, io, pendingStage, ceilingStop, pendingArtifact,
                   terminalRecorded, storeOpen, disk>>

-----------------------------------------------------------------------------
(* The chain.  The first transition runs alone, one await at a time.        *)

Current == Head(queue)

Await(p) ==
    /\ phase' = p
    /\ io' = "busy"
    /\ UNCHANGED queue

Resolve ==
    /\ queue' = Tail(queue)
    /\ phase' = "queued"
    /\ io' = "idle"

(* enqueueNormal asks again for an abort when its turn comes. *)
SkipTransition ==
    /\ queue # <<>>
    /\ phase = "queued"
    /\ Current.call \in NormalCalls
    /\ aborted
    /\ Resolve
    /\ UNCHANGED <<aborted, pendingStage, ceilingStop, pendingArtifact,
                   terminalRecorded, recorded, snapshot, storeOpen, disk>>

Runs(call) ==
    /\ queue # <<>>
    /\ phase = "queued"
    /\ Current.call = call
    /\ call \in NormalCalls => ~aborted

StartStageEvent(call, kind) ==
    /\ Runs(call)
    /\ Recorded(kind, Current.stage)
    /\ Await("write")
    /\ UNCHANGED <<aborted, pendingStage, ceilingStop, pendingArtifact,
                   terminalRecorded, recorded, snapshot, storeOpen,
                   artifact, stageFile, stopFile>>

StartPendingStage == StartStageEvent("writePendingStage", "stage-judging")

StartCompleteStage == StartStageEvent("completeStage", "stage-completed")

StartWrite(call) ==
    /\ Runs(call)
    /\ Await("write")
    /\ UNCHANGED <<aborted, pendingStage, ceilingStop, pendingArtifact,
                   terminalRecorded, recorded, snapshot, storeOpen, disk>>

(* Mutant: the artifact stays pending once it awaits its review. *)
RunArtifactReview_StaysPending ==
    /\ Runs("awaitArtifactReview")
    /\ IF pendingArtifact # "none"
         THEN artifactCompleted("run-completed")
         ELSE UNCHANGED <<events, terminalRecorded>>
    /\ Resolve
    /\ UNCHANGED <<aborted, pendingStage, ceilingStop, pendingArtifact,
                   recorded, snapshot, storeOpen, artifact, stageFile,
                   stopFile>>

(* awaitArtifactReview writes no file: its transition ends in its turn. *)
RunArtifactReview ==
    /\ Runs("awaitArtifactReview")
    /\ IF pendingArtifact # "none"
         THEN artifactCompleted("run-completed")
         ELSE UNCHANGED <<events, terminalRecorded>>
    /\ pendingArtifact' = "none"
    /\ Resolve
    /\ UNCHANGED <<aborted, pendingStage, ceilingStop, recorded, snapshot,
                   storeOpen, artifact, stageFile, stopFile>>

-----------------------------------------------------------------------------
(* The abort's record: operator-stop.json, the run-failed event, the stage  *)
(* stop, the artifact.  Each write is attempted whatever became of the      *)
(* previous one.                                                            *)

StoppedStage ==
    IF snapshot.stage # NoStage THEN snapshot.stage ELSE snapshot.ceiling

AwaitArtifactStop ==
    IF snapshot.artifact # "none" THEN Await("artifactStop") ELSE Resolve

RecordAborted ==
    /\ abortedEvent
    /\ IF StoppedStage # NoStage THEN Await("stageStop") ELSE AwaitArtifactStop

(* Mutant: the record begins with its event, without operator-stop.json. *)
StartRecord_NoStopFile ==
    /\ Runs("record")
    /\ RecordAborted
    /\ UNCHANGED <<aborted, pendingStage, ceilingStop, pendingArtifact,
                   recorded, snapshot, storeOpen, artifact, stageFile,
                   stopFile>>

StartRecord ==
    /\ Runs("record")
    /\ IF snapshot.operatorStop
         THEN Await("operatorStop") /\ UNCHANGED <<events, terminalRecorded>>
         ELSE RecordAborted
    /\ UNCHANGED <<aborted, pendingStage, ceilingStop, pendingArtifact,
                   recorded, snapshot, storeOpen, artifact, stageFile,
                   stopFile>>

ContinueRecord ==
    /\ io \in {"landed", "failed"}
    /\ \/ phase = "operatorStop" /\ RecordAborted
       \/ /\ phase = "stageStop"
          /\ AwaitArtifactStop
          /\ UNCHANGED <<events, terminalRecorded>>
       \/ /\ phase = "artifactStop"
          /\ Resolve
          /\ UNCHANGED <<events, terminalRecorded>>
    /\ UNCHANGED <<aborted, pendingStage, ceilingStop, pendingArtifact,
                   recorded, snapshot, storeOpen, artifact, stageFile,
                   stopFile>>

-----------------------------------------------------------------------------
(* The file system, and the end of a transition.                            *)

WrittenStage ==
    IF phase = "stageStop" THEN StoppedStage ELSE Current.stage

WrittenStatus ==
    IF phase = "stageStop" THEN "STAGE_JUDGE_FAILED"
    ELSE IF Current.call = "writePendingStage" THEN "AWAITING_STAGE_JUDGE"
    ELSE "JUDGED"

WritesStage ==
    phase = "stageStop" \/ (phase = "write" /\ Current.call \in StageCalls)

WritesArtifact ==
    \/ phase = "artifactStop"
    \/ phase = "write" /\ Current.call \notin StageCalls

(* Mutant: a stop is written to every stage that has no record yet. *)
WriteLands_Unreached ==
    /\ io = "busy"
    /\ io' = "landed"
    /\ stageFile' = IF WritesStage
                      THEN [s \in Stages |->
                              IF \/ s = WrittenStage
                                 \/ /\ phase = "stageStop"
                                    /\ stageFile[s] = "none"
                              THEN WrittenStatus ELSE stageFile[s]]
                      ELSE stageFile
    /\ artifact' = IF ~WritesArtifact THEN artifact
                   ELSE IF phase = "artifactStop" THEN "FAILED"
                   ELSE Current.artifact
    /\ stopFile' = (stopFile \/ phase = "operatorStop")
    /\ UNCHANGED <<aborted, queue, phase, pendingStage, ceilingStop,
                   pendingArtifact, terminalRecorded, recorded, snapshot,
                   storeOpen, events>>

WriteLands ==
    /\ io = "busy"
    /\ io' = "landed"
    /\ stageFile' = IF WritesStage
                      THEN [stageFile EXCEPT ![WrittenStage] = WrittenStatus]
                      ELSE stageFile
    /\ artifact' = IF ~WritesArtifact THEN artifact
                   ELSE IF phase = "artifactStop" THEN "FAILED"
                   ELSE Current.artifact
    /\ stopFile' = (stopFile \/ phase = "operatorStop")
    /\ UNCHANGED <<aborted, queue, phase, pendingStage, ceilingStop,
                   pendingArtifact, terminalRecorded, recorded, snapshot,
                   storeOpen, events>>

WriteFails ==
    /\ Faulty
    /\ io = "busy"
    /\ io' = "failed"
    /\ UNCHANGED <<aborted, queue, phase, pendingStage, ceilingStop,
                   pendingArtifact, terminalRecorded, recorded, snapshot,
                   storeOpen, disk>>

(* Mutant: a completed stage stays pending. *)
FinishTransition_StageStaysPending ==
    /\ phase = "write"
    /\ io = "landed"
    /\ CASE Current.call = "completeArtifact" ->
              /\ artifactCompleted("run-completed")
              /\ pendingArtifact' = "none"
         [] Current.call = "writeFailedArtifact" ->
              /\ artifactCompleted("run-failed")
              /\ pendingArtifact' = "none"
         [] OTHER -> UNCHANGED <<events, terminalRecorded, pendingArtifact>>
    /\ Resolve
    /\ UNCHANGED <<aborted, pendingStage, ceilingStop, recorded, snapshot,
                   storeOpen, artifact, stageFile, stopFile>>

(* The caller's await returns. *)
FinishTransition ==
    /\ phase = "write"
    /\ io = "landed"
    /\ pendingStage' = IF Current.call = "completeStage" THEN NoStage
                                                         ELSE pendingStage
    /\ CASE Current.call = "completeArtifact" ->
              /\ artifactCompleted("run-completed")
              /\ pendingArtifact' = "none"
         [] Current.call = "writeFailedArtifact" ->
              /\ artifactCompleted("run-failed")
              /\ pendingArtifact' = "none"
         [] OTHER -> UNCHANGED <<events, terminalRecorded, pendingArtifact>>
    /\ Resolve
    /\ UNCHANGED <<aborted, ceilingStop, recorded, snapshot, storeOpen,
                   artifact, stageFile, stopFile>>

(* Mutant: a transition that throws does not resolve its link. *)
FailTransition_KeepsChain ==
    /\ phase = "write"
    /\ io = "failed"
    /\ io' = "idle"
    /\ UNCHANGED <<aborted, queue, phase, pendingStage, ceilingStop,
                   pendingArtifact, terminalRecorded, recorded, snapshot,
                   storeOpen, disk>>

(* The write threw: the caller's await throws, and the chain goes on. *)
FailTransition ==
    /\ phase = "write"
    /\ io = "failed"
    /\ Resolve
    /\ UNCHANGED <<aborted, pendingStage, ceilingStop, pendingArtifact,
                   terminalRecorded, recorded, snapshot, storeOpen, disk>>

StartTransition ==
    \/ StartPendingStage
    \/ StartCompleteStage
    \/ \E call \in {"writeStageProgress", "writePendingArtifact",
                    "completeArtifact", "writeFailedArtifact"} :
          StartWrite(call)

RunRecord == StartRecord \/ ContinueRecord

-----------------------------------------------------------------------------
(* What the run around the component does to the event store it shares: it  *)
(* records the stages it starts and the progress of their Judges, abort or  *)
(* no abort, and closes the store.                                          *)

recordStageStarted(s) ==
    /\ Recorded("stage-started", s)
    /\ UNCHANGED <<memory, artifact, stageFile, stopFile>>

recordJudgeProgress(s) ==
    /\ Recorded("judge-progress", s)
    /\ UNCHANGED <<memory, artifact, stageFile, stopFile>>

closeStore ==
    /\ storeOpen' = FALSE
    /\ UNCHANGED <<aborted, queue, phase, io, pendingStage, ceilingStop,
                   pendingArtifact, terminalRecorded, recorded, snapshot,
                   disk>>

-----------------------------------------------------------------------------
(* Unconstrained callers.                                                   *)

Call ==
    \/ \E s \in Stages : writePendingStage(s)
    \/ writeStageProgress
    \/ completeStage
    \/ writePendingArtifact
    \/ completeArtifact
    \/ awaitArtifactReview
    \/ writeFailedArtifact
    \/ \E s \in Stages : recordStageStarted(s) \/ recordJudgeProgress(s)

Note ==
    \E s \in Stages : stopAtCeiling(s) \/ updatePendingStage(s)

Abort ==
    \E operatorStop \in BOOLEAN : markAborted(operatorStop)

Chain ==
    \/ SkipTransition
    \/ StartTransition
    \/ RunArtifactReview
    \/ RunRecord
    \/ WriteLands
    \/ FinishTransition
    \/ FailTransition

Next == Call \/ Note \/ Abort \/ Chain \/ WriteFails \/ closeStore

Safety == InitAbort /\ [][Next]_abortVars

-----------------------------------------------------------------------------
RecordWaiting ==
    \E i \in 1..Len(queue) : queue[i].call = "record"

RecordBegun ==
    recorded /\ (RecordWaiting => Current.call = "record" /\ phase # "queued")

RecordDone == recorded /\ ~RecordWaiting

(* Once the abort's record has begun, nothing a caller asked for can change *)
(* a stage record or the artifact to anything but a failure: a transition   *)
(* that was queued or called late never overwrites what the abort wrote.    *)
AbortIsFinal ==
    [][RecordBegun =>
         /\ \A s \in Stages :
              stageFile'[s] # stageFile[s] =>
                 stageFile'[s] = "STAGE_JUDGE_FAILED"
         /\ artifact' # artifact => artifact' = "FAILED"]_abortVars

(* When every write succeeds, the finished record says of each thing that   *)
(* was pending when the abort was requested that it failed, whatever        *)
(* transition was in flight at that moment.                                 *)
AbortRecordsPending ==
    (RecordDone /\ ~Faulty) =>
       /\ snapshot.operatorStop => stopFile
       /\ snapshot.stage # NoStage =>
             stageFile[snapshot.stage] = "STAGE_JUDGE_FAILED"
       /\ (snapshot.stage = NoStage /\ snapshot.ceiling # NoStage) =>
             stageFile[snapshot.ceiling] = "STAGE_JUDGE_FAILED"
       /\ snapshot.artifact # "none" => artifact = "FAILED"

(* At most one stage record is a stop, as stoppedStage of run-outcome.ts    *)
(* relies on: it answers the first one it finds.                            *)
OneStoppedStage ==
    \A s, t \in Stages :
       (stageFile[s] = "STAGE_JUDGE_FAILED"
          /\ stageFile[t] = "STAGE_JUDGE_FAILED") => s = t

-----------------------------------------------------------------------------
(* The inductive invariant behind the safety properties, in four parts.     *)

(* A transition that has begun is the first of the chain, and its phase     *)
(* says what it is.                                                         *)
ChainInv ==
    /\ phase = "queued" <=> io = "idle"
    /\ phase # "queued" =>
          /\ queue # <<>>
          /\ (phase = "write") = (Current.call # "record")
          /\ Current.call # "awaitArtifactReview"

(* The abort's record is queued once; only failed artifacts follow it.      *)
OnlyFailedArtifacts == \A i \in 1..Len(queue) :
                          queue[i].call = "writeFailedArtifact"

QueueInv ==
    /\ aborted = recorded
    /\ RecordWaiting => recorded
    /\ RecordDone => OnlyFailedArtifacts
    /\ \A i, j \in 1..Len(queue) :
          (i < j /\ queue[i].call = "record") =>
             queue[j].call = "writeFailedArtifact"
    /\ \A i \in 1..Len(queue) :
          queue[i].call = "writeFailedArtifact" => queue[i].artifact = "FAILED"

(* A stop in a stage record is the abort's, of the stage its snapshot names. *)
StopInv ==
    \A s \in Stages :
       stageFile[s] = "STAGE_JUDGE_FAILED" => recorded /\ s = StoppedStage

(* What the record has written by the time it reaches each of its phases,   *)
(* when no write fails.                                                     *)
StopWritten == snapshot.operatorStop => stopFile
StageWritten ==
    StoppedStage # NoStage => stageFile[StoppedStage] = "STAGE_JUDGE_FAILED"
ArtifactWritten == snapshot.artifact # "none" => artifact = "FAILED"

ProgressInv ==
    ~Faulty =>
       /\ io # "failed"
       /\ (phase = "operatorStop" /\ io = "landed") => StopWritten
       /\ phase \in {"stageStop", "artifactStop"} => StopWritten
       /\ (phase = "stageStop" /\ io = "landed") => StageWritten
       /\ phase = "artifactStop" => StageWritten
       /\ (phase = "artifactStop" /\ io = "landed") => ArtifactWritten
       /\ RecordDone => StopWritten /\ StageWritten /\ ArtifactWritten

IInv == TypeOK /\ ChainInv /\ QueueInv /\ StopInv /\ ProgressInv

=============================================================================
