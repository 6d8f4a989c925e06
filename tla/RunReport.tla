------------------------------ MODULE RunReport -----------------------------
(***************************************************************************)
(* What the rest of the program reads of a run: the ending its records and *)
(* its event stream give it (run-ending.ts, run-liveness.ts,               *)
(* run-outcome.ts) and the server's startup pass that marks the runs whose *)
(* process died (run-reconciliation.ts), beside the run itself.            *)
(*                                                                         *)
(* The program is asynchronous: a reading of the run's ending awaits each  *)
(* file, the manifest and the claim in turn, and the pass awaits the       *)
(* artifact, the manifest and the marker after the latest event, while the *)
(* run goes on.  Each read is a step here.  The server may start at any    *)
(* time, while the run executes and after it, and again; its pass is done  *)
(* before it answers a reader (serve-startup.ts).                          *)
(***************************************************************************)
EXTENDS PipelineRun

VARIABLES
    pass,       \* where the reconciliation pass is with this run
    reader,     \* where a reading of the run's ending is
    unaborted   \* for the properties only: what was accepted and released
                \* before an abort was requested

reportVars == <<runVars, pass, reader, unaborted>>

IsTerminal(kind) == kind \in TerminalKinds

LatestEvent == events[Len(events)]

StageWith(status) == \E s \in Stages : stageFile[s] = status

(* What runClaim answers once the marker is read: the run's own claim in    *)
(* the checkout its manifest names, and a process that runs.                *)
RunClaim ==
    IF ~manifest THEN "unknown"
    ELSE IF clone = "claimed" /\ proc = "running" THEN "live"
    ELSE "gone"

terminalEnding(kind) ==
    CASE kind = "run-interrupted" -> "interrupted"
      [] kind = "run-failed"      -> "failed"
      [] kind = "run-completed"   -> "completed-without-artifact"

claimedEnding(claim) ==
    CASE claim = "live"    -> "running"
      [] claim = "gone"    -> "interrupted"
      [] claim = "unknown" -> "unconfirmed"

withoutEvents ==
    IF StageWith("AWAITING_STAGE_JUDGE") THEN "awaiting-judgment"
                                         ELSE "no-events"

(* What a reading answers when nothing is written between its reads, as is  *)
(* the case once the run's process has ended and no pass is under way.      *)
runEnding ==
    IF artifact # "none" THEN "main-artifact"
    ELSE IF StageWith("STAGE_JUDGE_FAILED") THEN "stopped"
    ELSE IF pausedFile # NoStage THEN "paused"
    ELSE IF stopFile THEN "operator-stopped"
    ELSE IF events = <<>> THEN withoutEvents
    ELSE IF IsTerminal(LatestEvent.kind) THEN terminalEnding(LatestEvent.kind)
    ELSE claimedEnding(RunClaim)

-----------------------------------------------------------------------------
(* interruptionEvent and hasDeadClaim, one await after the other.           *)

Passes == {"idle", "artifact", "manifest", "marker", "alive", "append"}

(* pass.stage is the stage of the event it read.  pass.afterEnd notes, for  *)
(* the properties only, whether the run's process had ended by then.        *)
NoPass == [at |-> "idle", stage |-> NoStage, afterEnd |-> FALSE]

NoReading == [at |-> "idle", ended |-> FALSE]

PassGoes(at) ==
    /\ pass' = IF at = "idle" THEN NoPass ELSE [pass EXCEPT !.at = at]
    /\ UNCHANGED reader

(* The server starts, and an earlier one's reading, if any, is gone. *)
PassBegins ==
    /\ pass' = [at |-> "artifact", stage |-> LatestEvent.stage,
                afterEnd |-> proc # "running"]
    /\ reader' = NoReading

(* Mutant: a run whose latest event is terminal is not left alone. *)
readLatest_AnyEvent ==
    /\ pass.at = "idle"
    /\ events # <<>>
    /\ PassBegins
    /\ UNCHANGED runVars

readLatest ==
    /\ pass.at = "idle"
    /\ events # <<>>
    /\ ~IsTerminal(LatestEvent.kind)
    /\ PassBegins
    /\ UNCHANGED runVars

artifactExists ==
    /\ pass.at = "artifact"
    /\ PassGoes(IF artifact # "none" THEN "idle" ELSE "manifest")
    /\ UNCHANGED runVars

loadManifest ==
    /\ pass.at = "manifest"
    /\ PassGoes(IF manifest THEN "marker" ELSE "idle")
    /\ UNCHANGED runVars

readMarker ==
    /\ pass.at = "marker"
    /\ PassGoes(IF clone = "claimed" THEN "alive" ELSE "idle")
    /\ UNCHANGED runVars

isAlive ==
    /\ pass.at = "alive"
    /\ PassGoes(IF proc = "running" THEN "idle" ELSE "append")
    /\ UNCHANGED runVars

appendInterrupted ==
    /\ pass.at = "append"
    /\ PassGoes("idle")
    /\ events' = Append(events, [kind |-> "run-interrupted",
                                 stage |-> pass.stage])
    /\ UNCHANGED <<memory, artifact, stageFile, stopFile, flow, process,
                   checkout>>

reconcileInterruptedRuns ==
    readLatest \/ artifactExists \/ loadManifest \/ readMarker \/ isAlive
      \/ appendInterrupted

-----------------------------------------------------------------------------
(* A reading of the run's ending, one read after the other: reader.at is    *)
(* the next one.  Of what it answers only "interrupted" is kept, and        *)
(* reader.ended, for the properties only, notes whether the run had         *)
(* recorded its own end when the reading began.                             *)
Reads == {"artifact", "stages", "paused", "stop", "latest", "unjudged",
          "manifest", "marker", "alive"}

EndRecorded ==
    \/ events # <<>> /\ IsTerminal(LatestEvent.kind)
    \/ pausedFile # NoStage

ReaderGoes(at) == reader' = [reader EXCEPT !.at = at]

Answers(ending) ==
    reader' = IF ending = "interrupted" THEN [reader EXCEPT !.at = ending]
                                        ELSE NoReading

beginReading ==
    /\ pass.at = "idle"
    /\ reader.at \in {"idle", "interrupted"}
    /\ reader' = [at |-> "artifact", ended |-> EndRecorded]

ReadRecord(at, found, ending, next) ==
    /\ reader.at = at
    /\ IF found THEN Answers(ending) ELSE ReaderGoes(next)

recordedEnding ==
    \/ ReadRecord("artifact", artifact # "none", "main-artifact", "stages")
    \/ ReadRecord("stages", StageWith("STAGE_JUDGE_FAILED"), "stopped",
                  "paused")
    \/ ReadRecord("paused", pausedFile # NoStage, "paused", "stop")
    \/ ReadRecord("stop", stopFile, "operator-stopped", "latest")

eventEnding ==
    /\ reader.at = "latest"
    /\ IF events = <<>> THEN ReaderGoes("unjudged")
       ELSE IF IsTerminal(LatestEvent.kind)
              THEN Answers(terminalEnding(LatestEvent.kind))
              ELSE ReaderGoes("manifest")

awaitingJudgeStage ==
    /\ reader.at = "unjudged"
    /\ Answers(withoutEvents)

(* ownMarker and runClaim: a target whose marker cannot be read is unknown. *)
ownMarker ==
    \/ ReadRecord("manifest", ~manifest, claimedEnding("unknown"), "marker")
    \/ ReadRecord("marker", clone # "claimed", claimedEnding("gone"), "alive")
    \/ reader.at = "marker" /\ Answers(claimedEnding("unknown"))

runClaim ==
    /\ reader.at = "alive"
    /\ Answers(claimedEnding(IF proc = "running" THEN "live" ELSE "gone"))

readRunEnding ==
    /\ \/ beginReading \/ recordedEnding \/ eventEnding
       \/ awaitingJudgeStage \/ ownMarker \/ runClaim
    /\ UNCHANGED <<runVars, pass>>

-----------------------------------------------------------------------------
ReportInit ==
    /\ RunInit
    /\ pass = NoPass
    /\ reader = NoReading
    /\ unaborted = [accepted |-> {}, released |-> FALSE]

NoteUnaborted ==
    unaborted' = IF aborted' THEN unaborted
                 ELSE [accepted |-> checkpoints' \cap Stages,
                       released |-> HasEvent("run-completed")']

ReportNext ==
    /\ \/ RunNext /\ UNCHANGED <<pass, reader>>
       \/ reconcileInterruptedRuns
       \/ readRunEnding
    /\ NoteUnaborted

ReportSpec == ReportInit /\ [][ReportNext]_reportVars

-----------------------------------------------------------------------------
ReportTypeOK ==
    /\ RunTypeOK
    /\ pass \in [at : Passes, stage : Stages \cup {NoStage}, afterEnd : BOOLEAN]
    /\ reader \in [at : Reads \cup {"idle", "interrupted"}, ended : BOOLEAN]
    /\ unaborted \in [accepted : SUBSET Stages, released : BOOLEAN]

ProcessEnded == proc # "running"

(* A reading that calls a live run interrupted, when no signal reached it,  *)
(* raced the run's own end: the end, by success, failure or pause, was not  *)
(* recorded when the reading began, and it is by the time it answers.  So a *)
(* reading begun after the end never says so, and the next one after the    *)
(* race corrects it (the comment in claimedEnding): the end leaves its      *)
(* record before the teardown deletes the claim.                            *)
LiveRunNotInterrupted ==
    (reader.at = "interrupted" /\ ~ProcessEnded /\ handler = "idle" /\ ~Faulty)
       => ~reader.ended /\ EndRecorded

(* A signal that reached the run before any failure was marked, in a run    *)
(* whose writes succeed, is what the run reads: its stop, the stop of the   *)
(* stage it was in, or the artifact, rewritten if it was pending.  A stop   *)
(* never reads as a failure, an interruption or a run in flight.            *)
StopReadsAsStop ==
    (handler = "exited" /\ snapshot.operatorStop /\ ~Faulty) =>
       /\ runEnding \in {"main-artifact", "stopped", "paused",
                         "operator-stopped"}
       /\ snapshot.artifact # "none" => artifact = "FAILED"
       /\ (runEnding = "stopped") = (artifact = "none" /\ StoppedStage # NoStage)

(* No step of a pass changes what the run reads: reconciliation names an    *)
(* interruption the readers already see and rewrites no other ending.  One  *)
(* case is left open by the code: a pass that read the run before its end   *)
(* and finds its process dead afterwards appends over the terminal event,   *)
(* and a run that reads by that event alone, as a failed one does, reads as *)
(* interrupted from then on.                                                *)
PassKeepsReading ==
    [][pass' # pass =>
          \/ runEnding' = runEnding
          \/ /\ ~pass.afterEnd
             /\ runEnding \in {"failed", "completed-without-artifact"}
             /\ runEnding' = "interrupted"]_reportVars

(* What the run accepted or released before an abort was requested is not   *)
(* rewritten by it: an abort in a later stage never marks an earlier one as *)
(* stopped, and an artifact released for review never becomes FAILED,       *)
(* though the signal handlers stay registered while the checkout is removed *)
(* (completeStage, and the comment on finishGradedRun).                     *)
StopRewritesNothing ==
    /\ \A s \in unaborted.accepted : stageFile[s] = "JUDGED"
    /\ unaborted.released => artifact # "FAILED"
=============================================================================
