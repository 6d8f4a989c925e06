---------------------------- MODULE SessionStop -----------------------------
(***************************************************************************)
(* A session command (src/cli/session-run-execution.ts): one session       *)
(* attempt, or the reps of a confirmation group, each a provider session   *)
(* with its scorer and Judge, and the operator's signal that stops them    *)
(* (session-command-lifetime.ts, stop-on-signal.ts).                       *)
(*                                                                         *)
(* An attempt is a chain of awaited steps; the attempts and the stop       *)
(* interleave between them.  Starting a command and entering it in         *)
(* activeProcesses is one step, since the continuation that enters it runs *)
(* before one queued later.  Commands of the preparation are part of its   *)
(* failures.  The attempt's outcome is "done", "failed" (an invocation     *)
(* error, which is recorded too) or "error"; tainted tells whether the     *)
(* stop had a hand in it.                                                  *)
(***************************************************************************)
EXTENDS Naturals

CONSTANTS
    Reps,       \* the reps of a group
    Single,     \* the attempt of a command without confirmation
    MaxJudge    \* MAX_JUDGE_ATTEMPTS

All == Reps \cup {Single}

(* The command's own provider call, before any attempt, and the group.      *)
Probe == "probe"
Group == "group"

ASSUME SessionAssumption ==
    /\ Single \notin Reps /\ {Probe, Group} \cap All = {}
    /\ MaxJudge \in Nat \ {0}

VARIABLES
    group,      \* config.confirmation is there
    main,       \* where executeSessionRun is
    at,         \* where each attempt is
    outcome,    \* what it came to
    tainted,    \* the attempts whose outcome the stop had a hand in
    turn,       \* the invocations of its Judge
    running,    \* activeProcesses, by who started the command
    killed,     \* those of them that were sent SIGKILL
    closed,     \* SessionAttemptsInFlight.stopSignal is set
    claims,     \* SessionAttemptsInFlight.stopFiles
    refusing,   \* commands are refused
    stop,       \* where the stop is
    stopWrites, \* the stop files that close is writing
    hasty,      \* the wait for the attempts ended at its bound
    unwritten,  \* a stop file could not be written
    inFlight,   \* the attempts whose directory has in-flight.json
    stopFiles,  \* the attempts whose directory has the stop, or the group
    record,     \* the attempts whose record is written
    files,      \* the attempts with files in the user's directories
    unremoved   \* those whose removal kept files or could not remove them

commandVars == <<running, killed, refusing>>
stopVars == <<closed, stop, stopWrites, hasty, unwritten>>
diskVars == <<inFlight, stopFiles, record, files, unremoved>>
attemptVars == <<at, outcome, tainted, turn>>
sessionVars == <<group, main, attemptVars, commandVars, stopVars, claims,
                 diskVars>>

Attempts == IF group THEN Reps ELSE {Single}

(* An attempt that SessionAttemptsInFlight tracks.                          *)
UnderWay == {"resolving", "claiming", "stopping", "preparing", "seeding",
             "starting", "working", "failing", "recording", "scoring",
             "scored", "asking", "judging", "cleaning", "persisting",
             "writing"}

SessionTypeOK ==
    /\ group \in BOOLEAN
    /\ main \in {"approval", "preflight", "probing", "freezing",
                 "attempting", "storing", "finalizing", "done", "exited"}
    /\ at \in [All -> UnderWay \cup
                  {"new", "settled", "storing", "stored", "ended"}]
    /\ outcome \in [All -> {"none", "done", "failed", "error"}]
    /\ tainted \subseteq All
    /\ turn \in [All -> 0..MaxJudge]
    /\ running \subseteq All \cup {Probe} /\ killed \subseteq running
    /\ closed \in BOOLEAN /\ refusing \in BOOLEAN
    /\ claims \subseteq {Single} /\ stopWrites \subseteq {Single}
    /\ stop \in {"no", "closing", "grouping", "killing", "reaping",
                 "settling", "exiting"}
    /\ hasty \in BOOLEAN /\ unwritten \in BOOLEAN
    /\ inFlight \subseteq {Single} /\ stopFiles \subseteq {Single, Group}
    /\ record \subseteq All /\ files \subseteq All /\ unremoved \subseteq All

InitSession ==
    /\ group \in BOOLEAN
    /\ main = IF group THEN "approval" ELSE "preflight"
    /\ at = [a \in All |-> "new"]
    /\ outcome = [a \in All |-> "none"]
    /\ tainted = {} /\ turn = [a \in All |-> 0]
    /\ running = {} /\ killed = {} /\ refusing = FALSE
    /\ closed = FALSE /\ claims = {}
    /\ stop = "no" /\ stopWrites = {} /\ hasty = FALSE /\ unwritten = FALSE
    /\ inFlight = {} /\ stopFiles = {} /\ record = {}
    /\ files = {} /\ unremoved = {}

Goto(a, p) == at' = [at EXCEPT ![a] = p]
Result(a, r) == outcome' = [outcome EXCEPT ![a] = r]
Taint(a, byStop) == tainted' = IF byStop THEN tainted \cup {a} ELSE tainted

(* Mutant: a command that ended stays among the killed.                     *)
End_Killed(c) == running' = running \ {c} /\ UNCHANGED killed

End(c) == running' = running \ {c} /\ killed' = killed \ {c}

-----------------------------------------------------------------------------
(* The command (confirmation.ts, session-command-attempts.ts).              *)

MainTo(p) ==
    /\ main' = p
    /\ UNCHANGED <<group, attemptVars, stopVars, claims, diskVars>>

requireConfirmationApproval ==
    /\ main = "approval"
    /\ MainTo("preflight") \/ MainTo("done")
    /\ UNCHANGED commandVars

probeModel ==
    /\ main = "preflight"
    /\ IF refusing
         THEN MainTo("done") /\ UNCHANGED commandVars
         ELSE /\ MainTo("probing")
              /\ running' = running \cup {Probe}
              /\ UNCHANGED <<killed, refusing>>

(* A killed probe has no envelope, which is an error.                       *)
probed ==
    /\ main = "probing"
    /\ \/ /\ Probe \notin killed
          /\ MainTo(IF group THEN "freezing" ELSE "attempting")
       \/ MainTo("done")
    /\ End(Probe) /\ UNCHANGED refusing

freezeInputs ==
    /\ main = "freezing"
    /\ MainTo("attempting") \/ MainTo("done")
    /\ UNCHANGED commandVars

(* Promise.all: every rep is settled, whatever it came to.                  *)
attempted ==
    /\ main = "attempting"
    /\ \A a \in Attempts : at[a] \in {"settled", "ended"}
    /\ MainTo(IF group THEN "storing" ELSE "done")
    /\ UNCHANGED commandVars

-----------------------------------------------------------------------------
(* The beginning of an attempt (session-attempts-in-flight.ts,              *)
(* session-debug-attempt.ts, session-attempt-preparation.ts).               *)

attemptFrame ==
    UNCHANGED <<group, main, refusing, stopVars>>

(* An attempt that throws before its session's files exist.                 *)
rejected(a, byStop) ==
    /\ Goto(a, IF a = Single THEN "ended" ELSE "settled")
    /\ Result(a, "error") /\ Taint(a, byStop)
    /\ UNCHANGED <<turn, running, killed, claims, diskVars>>
    /\ attemptFrame

track(a) ==
    /\ main = "attempting" /\ at[a] = "new"
    /\ IF closed
         THEN rejected(a, TRUE)
         ELSE /\ Goto(a, IF group THEN "seeding" ELSE "resolving")
              /\ UNCHANGED <<outcome, tainted, turn, running, killed, claims,
                             diskVars>>
              /\ attemptFrame

claimInFlight(a) ==
    /\ at[a] = "resolving"
    /\ Goto(a, "claiming")
    /\ inFlight' = inFlight \cup {a}
    /\ UNCHANGED <<outcome, tainted, turn, running, killed, claims,
                   stopFiles, record, files, unremoved>>
    /\ attemptFrame

(* Mutant: a claim made after the stop writes no stop file.                 *)
claimRecord_NoStop(a) ==
    /\ at[a] = "claiming"
    /\ claims' = claims \cup {a}
    /\ Goto(a, "preparing")
    /\ UNCHANGED <<outcome, tainted, turn, running, killed, diskVars>>
    /\ attemptFrame

claimRecord(a) ==
    /\ at[a] = "claiming"
    /\ claims' = claims \cup {a}
    /\ Goto(a, IF closed THEN "stopping" ELSE "preparing")
    /\ UNCHANGED <<outcome, tainted, turn, running, killed, diskVars>>
    /\ attemptFrame

claimedStop(a) ==
    /\ at[a] = "stopping"
    /\ \/ /\ Goto(a, "preparing")
          /\ stopFiles' = stopFiles \cup {a}
          /\ UNCHANGED <<outcome, tainted, unwritten>>
       \/ /\ Goto(a, "ended") /\ Result(a, "error") /\ Taint(a, TRUE)
          /\ unwritten' = TRUE
          /\ UNCHANGED stopFiles
    /\ UNCHANGED <<group, main, turn, commandVars, claims, closed, stop,
                   stopWrites, hasty, inFlight, record, files, unremoved>>

(* runSessionAttempt tracks a second time what runSessionDebugAttempt       *)
(* tracks whole; its refusal goes through refuseWhenStopped.                *)
runSessionAttempt(a) ==
    /\ at[a] = "preparing"
    /\ IF closed
         THEN /\ Goto(a, "persisting") /\ Result(a, "error") /\ Taint(a, TRUE)
              /\ UNCHANGED <<turn, running, killed, claims, diskVars>>
              /\ attemptFrame
         ELSE /\ Goto(a, "seeding")
              /\ UNCHANGED <<outcome, tainted, turn, running, killed, claims,
                             diskVars>>
              /\ attemptFrame

(* A failure of the preparation, by itself or by a command that the stop    *)
(* killed or refused.                                                       *)
prepareFails(a) ==
    /\ at[a] \in {"resolving", "preparing"}
    /\ rejected(a, closed)

-----------------------------------------------------------------------------
(* The session (session-attempt.ts, session-attempt-invocation.ts).         *)

sessionFrame ==
    /\ UNCHANGED <<claims, inFlight, stopFiles, record>>
    /\ attemptFrame

(* prepareAttempt, then assertOpen.                                         *)
prepareAttempt(a) ==
    /\ at[a] = "seeding"
    /\ files' = files \cup {a}
    /\ \/ /\ ~closed
          /\ Goto(a, "starting")
          /\ UNCHANGED <<outcome, tainted>>
       \/ /\ Goto(a, "cleaning") /\ Result(a, "error") /\ Taint(a, closed)
    /\ UNCHANGED <<turn, running, killed, unremoved>>
    /\ sessionFrame

(* The confinement is asserted between assertOpen and the command.          *)
runClaude(a) ==
    /\ at[a] = "starting"
    /\ IF refusing
         THEN /\ Goto(a, "failing") /\ Taint(a, TRUE)
              /\ UNCHANGED running
         ELSE /\ Goto(a, "working")
              /\ running' = running \cup {a}
              /\ UNCHANGED tainted
    /\ UNCHANGED <<outcome, turn, killed, files, unremoved>>
    /\ sessionFrame

sessionEnds(a) ==
    /\ at[a] = "working"
    /\ End(a)
    /\ Goto(a, "recording") \/ Goto(a, "failing")
    /\ a \in killed => at'[a] = "failing"
    /\ Taint(a, a \in killed)
    /\ UNCHANGED <<outcome, turn, files, unremoved>>
    /\ sessionFrame

(* Mutant: the files of a failed session are not removed.                   *)
failedInvocation_NoFinally(a) ==
    /\ at[a] = "failing"
    /\ Goto(a, IF a = Single THEN "persisting" ELSE "settled")
    /\ Result(a, "failed")
    /\ UNCHANGED <<tainted, turn, running, killed, files, unremoved>>
    /\ sessionFrame

(* The failure is recorded with the transcript, unless that cannot be kept. *)
failedInvocation(a) ==
    /\ at[a] = "failing"
    /\ Goto(a, "cleaning") /\ (Result(a, "failed") \/ Result(a, "error"))
    /\ UNCHANGED <<tainted, turn, running, killed, files, unremoved>>
    /\ sessionFrame

(* recordAttempt: the envelope tells an error, or is empty or its evidence  *)
(* cannot be kept, or the state is graded, by a scorer if the case declares *)
(* one.                                                                     *)
gradeAttemptState(a) ==
    /\ at[a] = "recording"
    /\ \/ /\ Goto(a, "cleaning") /\ (Result(a, "failed") \/ Result(a, "error"))
          /\ UNCHANGED <<tainted, running>>
       \/ Goto(a, "scored") /\ UNCHANGED <<outcome, tainted, running>>
       \/ /\ refusing
          /\ Goto(a, "scored") /\ Taint(a, TRUE)
          /\ UNCHANGED <<outcome, running>>
       \/ /\ ~refusing
          /\ Goto(a, "scoring") /\ running' = running \cup {a}
          /\ UNCHANGED <<outcome, tainted>>
    /\ UNCHANGED <<turn, killed, files, unremoved>>
    /\ sessionFrame

(* A scorer that fails is a grading error of an attempt that goes on.       *)
scorerEnds(a) ==
    /\ at[a] = "scoring"
    /\ End(a)
    /\ Goto(a, "scored") /\ Taint(a, a \in killed)
    /\ UNCHANGED <<outcome, turn, files, unremoved>>
    /\ sessionFrame

(* completedAttempt may fail; a case without a Judge is then complete.      *)
judgeCompletedAttempt(a) ==
    /\ at[a] = "scored"
    /\ \/ /\ Goto(a, "cleaning") /\ (Result(a, "done") \/ Result(a, "error"))
          /\ UNCHANGED tainted
       \/ ~closed /\ Goto(a, "asking") /\ UNCHANGED <<outcome, tainted>>
       \/ closed /\ Goto(a, "cleaning") /\ Result(a, "error") /\ Taint(a, TRUE)
    /\ UNCHANGED <<turn, running, killed, files, unremoved>>
    /\ sessionFrame

invokeJudge(a) ==
    /\ at[a] = "asking"
    /\ IF refusing
         THEN /\ Goto(a, "cleaning") /\ Result(a, "done") /\ Taint(a, TRUE)
              /\ UNCHANGED <<turn, running>>
         ELSE /\ Goto(a, "judging")
              /\ turn' = [turn EXCEPT ![a] = @ + 1]
              /\ running' = running \cup {a}
              /\ UNCHANGED <<outcome, tainted>>
    /\ UNCHANGED <<killed, files, unremoved>>
    /\ sessionFrame

(* A refused answer is asked again; a failed call is the Judge's error.     *)
judgeEnds(a) ==
    /\ at[a] = "judging"
    /\ End(a)
    /\ \/ /\ a \notin killed /\ turn[a] < MaxJudge
          /\ Goto(a, "asking") /\ UNCHANGED <<outcome, tainted>>
       \/ /\ Goto(a, "cleaning") /\ Result(a, "done") /\ Taint(a, a \in killed)
    /\ UNCHANGED <<turn, files, unremoved>>
    /\ sessionFrame

(* The finally clause of executeAttempt, and the catch of its caller.  The  *)
(* session directory is kept when the record does not hold its sub-agent    *)
(* files, and a failure to remove it, or the slug, is tolerated; one to     *)
(* remove the transcript or a directory of the attempt is thrown.           *)
removeAttemptFiles(a) ==
    /\ at[a] = "cleaning"
    /\ \/ files' = files \ {a} /\ UNCHANGED unremoved
       \/ unremoved' = unremoved \cup {a} /\ UNCHANGED files
    /\ UNCHANGED outcome \/ Result(a, "error")
    /\ Goto(a, IF a = Single THEN "persisting" ELSE "settled")
    /\ UNCHANGED <<tainted, turn, running, killed>>
    /\ sessionFrame

-----------------------------------------------------------------------------
(* The record of a single attempt (session-attempt-record-file.ts).         *)

refuseWhenStopped(a) ==
    /\ at[a] = "persisting"
    /\ claims' = claims \ {a}
    /\ Goto(a, IF closed \/ outcome[a] = "error" THEN "ended" ELSE "writing")
    /\ UNCHANGED <<outcome, tainted, turn, running, killed, diskVars>>
    /\ attemptFrame

writeAttemptRecord(a) ==
    /\ at[a] = "writing"
    /\ Goto(a, "ended")
    /\ \/ record' = record \cup {a} /\ UNCHANGED outcome
       \/ UNCHANGED record /\ Result(a, "error")
    /\ UNCHANGED <<tainted, turn, running, killed, claims, inFlight,
                   stopFiles, files, unremoved>>
    /\ attemptFrame

-----------------------------------------------------------------------------
(* The records of a group (session-confirmation-storage.ts,                 *)
(* confirmation-evidence.ts), one rep after the other.                      *)

NoneStoring == \A r \in Reps : at[r] # "storing"

storeFrame ==
    /\ UNCHANGED <<group, outcome, tainted, turn, commandVars, stopVars,
                   claims, inFlight, stopFiles, files, unremoved>>

(* Mutant: a rep is stored without asking for the stop.                     *)
storeSessionRep_NoStop(r) ==
    /\ main = "storing" /\ NoneStoring /\ at[r] = "settled"
    /\ IF outcome[r] = "error"
         THEN main' = "done" /\ UNCHANGED at
         ELSE Goto(r, "storing") /\ UNCHANGED main
    /\ UNCHANGED record
    /\ storeFrame

storeSessionRep(r) ==
    /\ main = "storing" /\ NoneStoring /\ at[r] = "settled"
    /\ IF Group \in stopFiles \/ outcome[r] = "error"
         THEN main' = "done" /\ UNCHANGED at
         ELSE Goto(r, "storing") /\ UNCHANGED main
    /\ UNCHANGED record
    /\ storeFrame

storeRep(r) ==
    /\ main = "storing" /\ at[r] = "storing"
    /\ \/ /\ Goto(r, "stored") /\ record' = record \cup {r}
          /\ UNCHANGED main
       \/ main' = "done" /\ UNCHANGED <<at, record>>
    /\ storeFrame

stored ==
    /\ main = "storing" /\ \A r \in Reps : at[r] = "stored"
    /\ main' = IF Group \in stopFiles THEN "done" ELSE "finalizing"
    /\ UNCHANGED <<at, record>>
    /\ storeFrame

finalizeSessionGroup ==
    /\ main = "finalizing"
    /\ main' = "done"
    /\ UNCHANGED <<at, record>>
    /\ storeFrame

-----------------------------------------------------------------------------
(* The stop (session-command-lifetime.ts, stop-on-signal.ts).  The handlers *)
(* stand until the command closes its lifetime; a second signal is ignored. *)

stopFrame ==
    UNCHANGED <<group, main, attemptVars, inFlight, record, files, unremoved>>

closeAttempts ==
    /\ stop = "no" /\ main \notin {"done", "exited"}
    /\ stop' = "closing" /\ closed' = TRUE /\ stopWrites' = claims
    /\ UNCHANGED <<hasty, unwritten, claims, commandVars, stopFiles>>
    /\ stopFrame

(* Mutant: commands are refused before the group's stop is written.         *)
closedAttempts_Refuses ==
    /\ stop = "closing"
    /\ stopFiles' = stopFiles \cup stopWrites
    /\ stop' = IF group THEN "grouping" ELSE "killing"
    /\ refusing' = TRUE
    /\ UNCHANGED <<closed, stopWrites, hasty, unwritten, claims, running,
                   killed>>
    /\ stopFrame

closedAttempts ==
    /\ stop = "closing"
    /\ stopFiles' = stopFiles \cup stopWrites
    /\ stop' = IF group THEN "grouping" ELSE "killing"
    /\ refusing' = ~group
    /\ UNCHANGED <<closed, stopWrites, hasty, unwritten, claims, running,
                   killed>>
    /\ stopFrame

(* Mutant: commands are never refused.                                      *)
recordGroupStop_Open ==
    /\ stop = "grouping"
    /\ stopFiles' = stopFiles \cup {Group}
    /\ stop' = "killing"
    /\ UNCHANGED <<closed, stopWrites, hasty, unwritten, claims, commandVars>>
    /\ stopFrame

recordGroupStop ==
    /\ stop = "grouping"
    /\ stopFiles' = stopFiles \cup {Group}
    /\ stop' = "killing" /\ refusing' = TRUE
    /\ UNCHANGED <<closed, stopWrites, hasty, unwritten, claims, running,
                   killed>>
    /\ stopFrame

(* A stop file cannot be written: the finally clause refuses commands.      *)
stopUnwritten ==
    /\ stop \in {"closing", "grouping"}
    /\ stop = "closing" => stopWrites # {}
    /\ stop' = "killing" /\ refusing' = TRUE /\ unwritten' = TRUE
    /\ UNCHANGED <<closed, stopWrites, hasty, claims, running, killed,
                   stopFiles>>
    /\ stopFrame

killActiveCommands ==
    /\ stop = "killing"
    /\ stop' = "reaping" /\ killed' = running
    /\ UNCHANGED <<closed, stopWrites, hasty, unwritten, claims, running,
                   refusing, stopFiles>>
    /\ stopFrame

reaped ==
    /\ stop = "reaping" /\ killed = {}
    /\ stop' = "settling"
    /\ UNCHANGED <<closed, stopWrites, hasty, unwritten, claims, commandVars,
                   stopFiles>>
    /\ stopFrame

(* Mutant: a hung attempt keeps the process.                                *)
settled_NoBound ==
    /\ stop = "settling"
    /\ \A a \in All : at[a] \notin UnderWay
    /\ stop' = "exiting"
    /\ UNCHANGED <<closed, stopWrites, hasty, unwritten, claims, commandVars,
                   stopFiles>>
    /\ stopFrame

(* Every attempt ended, or STOP_SETTLE_BOUND_MS passed.                     *)
settled ==
    /\ stop = "settling"
    /\ stop' = "exiting"
    /\ hasty' = \E a \in All : at[a] \in UnderWay
    /\ UNCHANGED <<closed, stopWrites, unwritten, claims, commandVars,
                   stopFiles>>
    /\ stopFrame

exit ==
    /\ stop \in {"exiting", "no"}
    /\ stop = "no" => main = "done"
    /\ main' = "exited"
    /\ UNCHANGED <<group, attemptVars, commandVars, stopVars, claims, diskVars>>

-----------------------------------------------------------------------------
CommandEnds(a) == sessionEnds(a) \/ scorerEnds(a) \/ judgeEnds(a)

Attempt(a) ==
    \/ track(a) \/ claimInFlight(a) \/ claimRecord(a) \/ claimedStop(a)
    \/ prepareFails(a) \/ runSessionAttempt(a) \/ prepareAttempt(a)
    \/ runClaude(a) \/ failedInvocation(a) \/ gradeAttemptState(a)
    \/ judgeCompletedAttempt(a) \/ invokeJudge(a) \/ removeAttemptFiles(a)
    \/ refuseWhenStopped(a) \/ writeAttemptRecord(a)

Command ==
    \/ requireConfirmationApproval \/ probeModel \/ freezeInputs
    \/ attempted \/ stored \/ finalizeSessionGroup
    \/ \E r \in Reps : storeSessionRep(r) \/ storeRep(r)

recordStop == closedAttempts \/ recordGroupStop \/ stopUnwritten

Stop == recordStop \/ killActiveCommands \/ reaped \/ settled \/ exit

NextSession ==
    /\ main # "exited"
    /\ \/ Command \/ probed
       \/ \E a \in Attempts : Attempt(a) \/ CommandEnds(a)
       \/ closeAttempts \/ Stop

SessionSpec == InitSession /\ [][NextSession]_sessionVars

(* The stop's own continuations run and a killed process ends; an attempt   *)
(* may hang in any of its steps, and nobody is obliged to send a signal.    *)
FairSessionSpec ==
    /\ SessionSpec
    /\ WF_sessionVars(main # "exited" /\ Stop)
    /\ WF_sessionVars(main # "exited" /\ Probe \in killed /\ probed)
    /\ \A a \in All :
          WF_sessionVars(main # "exited" /\ a \in killed /\ CommandEnds(a))

-----------------------------------------------------------------------------
(* src/benchmark/session-confirmation-storage.ts: "a kill the stop caused is*)
(* never recorded as a rep's provider failure".  No attempt's record and no *)
(* rep's tells an outcome that a kill, a refused command or a closed        *)
(* command brought about, however the attempts' steps meet the stop's;      *)
(* unless the group's stop could not be written (storeSessionReps,          *)
(* refuseWhenStopped, SessionCommandLifetime).                              *)
StopNotRecorded == record \cap tainted # {} => group /\ unwritten

(* src/cli/session-attempt-record-file.ts: "a stop that comes later finds   *)
(* the attempt settled and leaves its record alone".  An attempt has its    *)
(* record or the stop's, never both, and a stopped command leaves no claimed*)
(* attempt without either, unless the attempt failed by itself, a file      *)
(* could not be written or the wait ended at its bound.                     *)
StopOrRecord ==
    /\ record \cap stopFiles = {}
    /\ main = "exited" /\ stop # "no" /\ ~hasty /\ ~unwritten =>
          \A a \in inFlight :
              \/ a \in record \cup stopFiles
              \/ outcome[a] = "error" /\ a \notin tainted

(* src/cli/session-command-lifetime.ts: "a command started after the kill   *)
(* outlives the exit".  No provider session, scorer or Judge runs on when   *)
(* the process is gone, though a Judge asks again after a refused answer    *)
(* and an attempt may hang past the wait; and unless the wait ended at its  *)
(* bound each attempt, however it failed, has cleaned up before the exit:   *)
(* what it leaves in the user's directories is the session directory whose  *)
(* sub-agent files its record does not hold, or what could not be removed   *)
(* (refuseCommands, settled, drained, removeSessionFiles).                  *)
NothingOutlivesExit ==
    main = "exited" => running = {} /\ (~hasty => files \subseteq unremoved)

(* A stopped command ends, also when its attempts hang                      *)
(* (STOP_SETTLE_BOUND_MS).                                                  *)
StopEnds == stop # "no" ~> main = "exited"
=============================================================================
