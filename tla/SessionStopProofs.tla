------------------------- MODULE SessionStopProofs --------------------------
(***************************************************************************)
(* Proofs about SessionStop, for a group of any size and any number of     *)
(* invocations of a Judge: what a stop brought about is not recorded, an   *)
(* attempt has its record or the stop's, and no command outlives the exit. *)
(***************************************************************************)
EXTENDS SessionStop, TLAPS

(* Where an attempt has a command, has files, holds a claim.                *)
Commanding == {"working", "scoring", "judging"}
WithFiles == {"starting", "failing", "recording", "scored", "asking",
              "cleaning"} \cup Commanding
Claimed == {"preparing", "seeding", "persisting"} \cup WithFiles

(* Where only the attempt of a command without confirmation comes, and      *)
(* where only a rep does.                                                   *)
OfSingle == {"resolving", "claiming", "stopping", "preparing", "persisting",
             "writing", "ended"}
OfRep == {"settled", "storing", "stored"}

(* How far the attempts are, by how far the command is.                     *)
PlaceInv ==
    /\ \A a \in All \ Attempts : at[a] = "new"
    /\ \A a \in Reps : at[a] \notin OfSingle
    /\ at[Single] \notin OfRep
    /\ main \in {"approval", "preflight", "probing", "freezing"} =>
          \A a \in All : at[a] = "new"
    /\ main \in {"storing", "finalizing", "done"} =>
          \A a \in All : at[a] \notin UnderWay
    /\ \A a \in All : outcome[a] = "error" =>
          at[a] \in {"cleaning", "persisting", "settled", "ended"}

(* Who has a command and who has files.                                     *)
UseInv ==
    /\ \A a \in All : a \in running => at[a] \in Commanding
    /\ Probe \in running => main = "probing"
    /\ \A a \in All : a \in files \ unremoved => at[a] \in WithFiles

(* A Judge is asked again only while invocations are left.                  *)
TurnInv ==
    \A a \in All :
        /\ at[a] \in {"new", "resolving", "claiming", "stopping", "preparing",
                     "seeding", "starting", "working", "recording",
                     "scoring", "scored"} => turn[a] = 0
        /\ at[a] = "asking" => turn[a] < MaxJudge

(* How far the stop is: it closes the attempts, writes the stops, refuses   *)
(* commands, and kills and reaps the commands that run.                     *)
StopInv ==
    /\ closed <=> stop # "no"
    /\ refusing <=> stop \notin {"no", "closing", "grouping"}
    /\ killed # {} => refusing
    /\ stop = "reaping" => running \subseteq killed
    /\ stop \in {"settling", "exiting"} => running = {}
    /\ stop = "exiting" /\ ~hasty => \A a \in All : at[a] \notin UnderWay

(* The stop's files, and the claims they are written for.                   *)
FileInv ==
    /\ stop = "no" => stopWrites = {} /\ stopFiles = {}
    /\ stop \notin {"no", "closing"} /\ ~unwritten =>
          stopWrites \subseteq stopFiles
    /\ refusing /\ group /\ ~unwritten => Group \in stopFiles

(* What the stop had a hand in.                                             *)
TaintInv ==
    /\ tainted # {} => closed
    /\ \A a \in tainted : outcome[a] = "error" \/ refusing
    /\ \A a \in tainted : at[a] \in {"storing", "stored"} => unwritten
    /\ at[Single] = "writing" => Single \notin tainted
    /\ \A a \in record :
          /\ at[a] \in {"ended", "stored"}
          /\ at[a] = "ended" => a \notin tainted

(* A claimed attempt is the stop's to record until it settles.              *)
ClaimInv ==
    /\ at[Single] = "stopping" => closed /\ Single \in claims
    /\ Single \in inFlight => at[Single] \notin {"new", "resolving"}
    /\ at[Single] \in Claimed =>
          /\ Single \in claims
          /\ closed => Single \in stopWrites \cup stopFiles
    /\ at[Single] = "writing" \/ Single \in record =>
          Single \notin claims \cup stopWrites \cup stopFiles
    /\ Single \in inFlight /\ at[Single] = "ended" =>
          \/ Single \in record \cup stopWrites \cup stopFiles \/ unwritten
          \/ outcome[Single] = "error" /\ Single \notin tainted

(* A process that exits has been stopped or has none of its attempts left.  *)
ExitInv ==
    main = "exited" =>
       /\ stop \in {"no", "exiting"}
       /\ stop = "no" => \A a \in All : at[a] \notin UnderWay

SessionInv ==
    /\ SessionTypeOK /\ PlaceInv /\ UseInv /\ TurnInv /\ StopInv /\ FileInv
    /\ TaintInv /\ ClaimInv /\ ExitInv

-----------------------------------------------------------------------------

LEMMA SessionSteps ==
    ASSUME [NextSession]_sessionVars
    PROVE  \/ \E a \in Attempts : Attempt(a) \/ CommandEnds(a)
           \/ \E r \in Reps : storeSessionRep(r) \/ storeRep(r)
           \/ requireConfirmationApproval \/ probeModel \/ probed
           \/ freezeInputs \/ attempted \/ stored
           \/ finalizeSessionGroup \/ closeAttempts \/ closedAttempts
           \/ recordGroupStop \/ stopUnwritten \/ killActiveCommands
           \/ reaped \/ settled \/ exit
           \/ UNCHANGED sessionVars
  BY DEF NextSession, Command, Stop, recordStop

(* Type correctness, which needs that a Judge's invocations are counted.    *)
LEMMA SessionTypeStep ==
    ASSUME SessionTypeOK, PlaceInv, TurnInv,
           [NextSession]_sessionVars
    PROVE  SessionTypeOK'
<1> USE SessionAssumption
    DEF SessionTypeOK, PlaceInv, TurnInv, OfSingle, UnderWay, Attempts, All,
        MainTo, Goto, Result, Taint, End, rejected, attemptFrame,
        sessionFrame, storeFrame, stopFrame, commandVars, stopVars, diskVars,
        attemptVars
<1>1. ASSUME NEW a \in Attempts, Attempt(a) \/ CommandEnds(a)
      PROVE  SessionTypeOK'
  <2>0. a \in All
    BY DEF Attempts, All
  <2>1. CASE track(a) \/ claimInFlight(a)
    BY <2>0, <2>1 DEF track, claimInFlight
  <2>2. CASE claimRecord(a)
    BY <2>0, <2>2 DEF claimRecord
  <2>3. CASE claimedStop(a)
    <3>1. a = Single
      BY <2>0, <2>3 DEF claimedStop
    <3>2. /\ \/ at' = [at EXCEPT ![a] = "preparing"]
             \/ at' = [at EXCEPT ![a] = "ended"]
          /\ stopFiles' \subseteq stopFiles \cup {a}
          /\ outcome' = outcome \/ outcome' = [outcome EXCEPT ![a] = "error"]
          /\ tainted' \subseteq tainted \cup {a}
      BY <2>3 DEF claimedStop
    <3>3. unwritten' \in BOOLEAN
      BY <2>3 DEF claimedStop
    <3>4. QED
      BY <2>3, <3>1, <3>2, <3>3 DEF claimedStop
  <2>4. CASE prepareFails(a) \/ runSessionAttempt(a)
    BY <2>0, <2>4 DEF prepareFails, runSessionAttempt
  <2>5. CASE prepareAttempt(a) \/ runClaude(a) \/ failedInvocation(a)
    BY <2>0, <2>5 DEF prepareAttempt, runClaude, failedInvocation
  <2>6. CASE gradeAttemptState(a) \/ judgeCompletedAttempt(a)
    BY <2>0, <2>6 DEF gradeAttemptState, judgeCompletedAttempt
  <2>7. CASE invokeJudge(a)
    BY <2>0, <2>7 DEF invokeJudge
  <2>8. CASE sessionEnds(a) \/ scorerEnds(a)
    BY <2>0, <2>8 DEF sessionEnds, scorerEnds
  <2>9. CASE judgeEnds(a)
    BY <2>0, <2>9 DEF judgeEnds
  <2>10. CASE removeAttemptFiles(a) \/ refuseWhenStopped(a)
              \/ writeAttemptRecord(a)
    BY <2>0, <2>10 DEF removeAttemptFiles, refuseWhenStopped,
       writeAttemptRecord
  <2>11. QED
    BY <1>1, <2>1, <2>2, <2>3, <2>4, <2>5, <2>6, <2>7, <2>8, <2>9, <2>10 DEF
       Attempt, CommandEnds
<1>2. ASSUME NEW r \in Reps, storeSessionRep(r) \/ storeRep(r)
      PROVE  SessionTypeOK'
  BY <1>2 DEF storeSessionRep, storeRep
<1>3. CASE requireConfirmationApproval \/ probeModel \/ probed \/ freezeInputs
  BY <1>3 DEF requireConfirmationApproval, probeModel, probed, freezeInputs
<1>4. CASE attempted \/ stored \/ finalizeSessionGroup
  BY <1>4 DEF attempted, stored, finalizeSessionGroup
<1>5. CASE closeAttempts \/ recordGroupStop \/ stopUnwritten
  BY <1>5 DEF closeAttempts, recordGroupStop, stopUnwritten
<1>6. CASE closedAttempts
  BY <1>6 DEF closedAttempts
<1>7. CASE killActiveCommands \/ reaped \/ exit
  BY <1>7 DEF killActiveCommands, reaped, exit
<1>8. CASE settled
  BY <1>8 DEF settled
<1>9. CASE UNCHANGED sessionVars
  BY <1>9 DEF sessionVars
<1>10. QED
  BY SessionSteps, <1>1, <1>2, <1>3, <1>4, <1>5, <1>6, <1>7, <1>8, <1>9

LEMMA TurnStep ==
    ASSUME SessionTypeOK, TurnInv,
           [NextSession]_sessionVars
    PROVE  TurnInv'
<1> USE SessionAssumption
    DEF SessionTypeOK, TurnInv, All, MainTo, Goto, Result, Taint, End,
        rejected, attemptFrame, sessionFrame, storeFrame, stopFrame,
        commandVars, stopVars, diskVars, attemptVars
<1>1. ASSUME NEW a \in Attempts, Attempt(a) \/ CommandEnds(a)
      PROVE  TurnInv'
  <2>0. a \in All
    BY DEF Attempts, All
  <2>1. CASE track(a) \/ claimInFlight(a)
    BY <2>0, <2>1 DEF track, claimInFlight
  <2>2. CASE claimRecord(a)
    BY <2>0, <2>2 DEF claimRecord
  <2>3. CASE claimedStop(a)
    BY <2>0, <2>3 DEF claimedStop
  <2>4. CASE prepareFails(a) \/ runSessionAttempt(a)
    BY <2>0, <2>4 DEF prepareFails, runSessionAttempt
  <2>5. CASE prepareAttempt(a) \/ runClaude(a) \/ failedInvocation(a)
    BY <2>0, <2>5 DEF prepareAttempt, runClaude, failedInvocation
  <2>6. CASE gradeAttemptState(a) \/ judgeCompletedAttempt(a)
    BY <2>0, <2>6 DEF gradeAttemptState, judgeCompletedAttempt
  <2>7. CASE invokeJudge(a)
    BY <2>0, <2>7 DEF invokeJudge
  <2>8. CASE sessionEnds(a) \/ scorerEnds(a)
    BY <2>0, <2>8 DEF sessionEnds, scorerEnds
  <2>9. CASE judgeEnds(a)
    BY <2>0, <2>9 DEF judgeEnds
  <2>10. CASE removeAttemptFiles(a) \/ refuseWhenStopped(a)
              \/ writeAttemptRecord(a)
    BY <2>0, <2>10 DEF removeAttemptFiles, refuseWhenStopped,
       writeAttemptRecord
  <2>11. QED
    BY <1>1, <2>1, <2>2, <2>3, <2>4, <2>5, <2>6, <2>7, <2>8, <2>9, <2>10 DEF
       Attempt, CommandEnds
<1>2. ASSUME NEW r \in Reps, storeSessionRep(r) \/ storeRep(r)
      PROVE  TurnInv'
  BY <1>2 DEF storeSessionRep, storeRep
<1>3. CASE requireConfirmationApproval \/ probeModel \/ probed \/ freezeInputs
  BY <1>3 DEF requireConfirmationApproval, probeModel, probed, freezeInputs
<1>4. CASE attempted \/ stored \/ finalizeSessionGroup
  BY <1>4 DEF attempted, stored, finalizeSessionGroup
<1>5. CASE closeAttempts \/ recordGroupStop \/ stopUnwritten
  BY <1>5 DEF closeAttempts, recordGroupStop, stopUnwritten
<1>6. CASE closedAttempts
  BY <1>6 DEF closedAttempts
<1>7. CASE killActiveCommands \/ reaped \/ exit
  BY <1>7 DEF killActiveCommands, reaped, exit
<1>8. CASE settled
  BY <1>8 DEF settled
<1>9. CASE UNCHANGED sessionVars
  BY <1>9 DEF sessionVars
<1>10. QED
  BY SessionSteps, <1>1, <1>2, <1>3, <1>4, <1>5, <1>6, <1>7, <1>8, <1>9

-----------------------------------------------------------------------------
(* Where the attempts are.                                                  *)
LEMMA PlaceStep ==
    ASSUME SessionTypeOK, PlaceInv,
           [NextSession]_sessionVars
    PROVE  PlaceInv'
<1> USE SessionAssumption
    DEF SessionTypeOK, PlaceInv, UnderWay, OfSingle, OfRep, Attempts, All,
        MainTo, Goto, Result, Taint, End, rejected, attemptFrame,
        sessionFrame, storeFrame, stopFrame, commandVars, stopVars, diskVars,
        attemptVars
<1>1. ASSUME NEW a \in Attempts, Attempt(a) \/ CommandEnds(a)
      PROVE  PlaceInv'
  <2>0. a \in All
    BY DEF Attempts, All
  <2>1. CASE track(a) \/ claimInFlight(a)
    BY <2>0, <2>1 DEF track, claimInFlight
  <2>2. CASE claimRecord(a)
    BY <2>0, <2>2 DEF claimRecord
  <2>3. CASE claimedStop(a)
    BY <2>0, <2>3 DEF claimedStop
  <2>4. CASE prepareFails(a) \/ runSessionAttempt(a)
    BY <2>0, <2>4 DEF prepareFails, runSessionAttempt
  <2>5. CASE prepareAttempt(a) \/ runClaude(a) \/ failedInvocation(a)
    BY <2>0, <2>5 DEF prepareAttempt, runClaude, failedInvocation
  <2>6. CASE gradeAttemptState(a) \/ judgeCompletedAttempt(a)
    BY <2>0, <2>6 DEF gradeAttemptState, judgeCompletedAttempt
  <2>7. CASE invokeJudge(a)
    BY <2>0, <2>7 DEF invokeJudge
  <2>8. CASE sessionEnds(a) \/ scorerEnds(a)
    BY <2>0, <2>8 DEF sessionEnds, scorerEnds
  <2>9. CASE judgeEnds(a)
    BY <2>0, <2>9 DEF judgeEnds
  <2>10. CASE removeAttemptFiles(a) \/ refuseWhenStopped(a)
              \/ writeAttemptRecord(a)
    BY <2>0, <2>10 DEF removeAttemptFiles, refuseWhenStopped,
       writeAttemptRecord
  <2>11. QED
    BY <1>1, <2>1, <2>2, <2>3, <2>4, <2>5, <2>6, <2>7, <2>8, <2>9, <2>10 DEF
       Attempt, CommandEnds
<1>2. ASSUME NEW r \in Reps, storeSessionRep(r) \/ storeRep(r)
      PROVE  PlaceInv'
  BY <1>2 DEF storeSessionRep, storeRep
<1>3. CASE requireConfirmationApproval \/ probeModel \/ probed \/ freezeInputs
  BY <1>3 DEF requireConfirmationApproval, probeModel, probed, freezeInputs
<1>4. CASE attempted \/ stored \/ finalizeSessionGroup
  BY <1>4 DEF attempted, stored, finalizeSessionGroup
<1>5. CASE closeAttempts \/ recordGroupStop \/ stopUnwritten
  BY <1>5 DEF closeAttempts, recordGroupStop, stopUnwritten
<1>6. CASE closedAttempts
  BY <1>6 DEF closedAttempts
<1>7. CASE killActiveCommands \/ reaped \/ exit
  BY <1>7 DEF killActiveCommands, reaped, exit
<1>8. CASE settled
  BY <1>8 DEF settled
<1>9. CASE UNCHANGED sessionVars
  BY <1>9 DEF sessionVars
<1>10. QED
  BY SessionSteps, <1>1, <1>2, <1>3, <1>4, <1>5, <1>6, <1>7, <1>8, <1>9

-----------------------------------------------------------------------------
(* Commands and files.                                                      *)
LEMMA UseStep ==
    ASSUME SessionTypeOK, PlaceInv, UseInv, StopInv,
           [NextSession]_sessionVars
    PROVE  UseInv'
<1> USE SessionAssumption
    DEF SessionTypeOK, PlaceInv, UseInv, StopInv, UnderWay, Commanding,
        WithFiles, Attempts, All, MainTo, Goto, Result, Taint, End, rejected,
        attemptFrame, sessionFrame, storeFrame, stopFrame, commandVars,
        stopVars, diskVars, attemptVars
<1>1. ASSUME NEW a \in Attempts, Attempt(a) \/ CommandEnds(a)
      PROVE  UseInv'
  <2>0. a \in All
    BY DEF Attempts, All
  <2>1. CASE track(a) \/ claimInFlight(a)
    BY <2>0, <2>1 DEF track, claimInFlight
  <2>2. CASE claimRecord(a)
    BY <2>0, <2>2 DEF claimRecord
  <2>3. CASE claimedStop(a)
    BY <2>0, <2>3 DEF claimedStop
  <2>4. CASE prepareFails(a) \/ runSessionAttempt(a)
    BY <2>0, <2>4 DEF prepareFails, runSessionAttempt
  <2>5. CASE prepareAttempt(a) \/ runClaude(a) \/ failedInvocation(a)
    BY <2>0, <2>5 DEF prepareAttempt, runClaude, failedInvocation
  <2>6. CASE gradeAttemptState(a) \/ judgeCompletedAttempt(a)
    BY <2>0, <2>6 DEF gradeAttemptState, judgeCompletedAttempt
  <2>7. CASE invokeJudge(a)
    BY <2>0, <2>7 DEF invokeJudge
  <2>8. CASE sessionEnds(a) \/ scorerEnds(a)
    BY <2>0, <2>8 DEF sessionEnds, scorerEnds
  <2>9. CASE judgeEnds(a)
    BY <2>0, <2>9 DEF judgeEnds
  <2>10. CASE removeAttemptFiles(a) \/ refuseWhenStopped(a)
              \/ writeAttemptRecord(a)
    BY <2>0, <2>10 DEF removeAttemptFiles, refuseWhenStopped,
       writeAttemptRecord
  <2>11. QED
    BY <1>1, <2>1, <2>2, <2>3, <2>4, <2>5, <2>6, <2>7, <2>8, <2>9, <2>10 DEF
       Attempt, CommandEnds
<1>2. ASSUME NEW r \in Reps, storeSessionRep(r) \/ storeRep(r)
      PROVE  UseInv'
  BY <1>2 DEF storeSessionRep, storeRep
<1>3. CASE requireConfirmationApproval \/ probeModel \/ probed \/ freezeInputs
  BY <1>3 DEF requireConfirmationApproval, probeModel, probed, freezeInputs
<1>4. CASE attempted \/ stored \/ finalizeSessionGroup
  BY <1>4 DEF attempted, stored, finalizeSessionGroup
<1>5. CASE closeAttempts \/ recordGroupStop \/ stopUnwritten
  BY <1>5 DEF closeAttempts, recordGroupStop, stopUnwritten
<1>6. CASE closedAttempts
  BY <1>6 DEF closedAttempts
<1>7. CASE killActiveCommands \/ reaped \/ exit
  BY <1>7 DEF killActiveCommands, reaped, exit
<1>8. CASE settled
  BY <1>8 DEF settled
<1>9. CASE UNCHANGED sessionVars
  BY <1>9 DEF sessionVars
<1>10. QED
  BY SessionSteps, <1>1, <1>2, <1>3, <1>4, <1>5, <1>6, <1>7, <1>8, <1>9

-----------------------------------------------------------------------------
(* The stop.                                                                *)
LEMMA StopStep ==
    ASSUME SessionTypeOK, PlaceInv, UseInv, StopInv,
           [NextSession]_sessionVars
    PROVE  StopInv'
<1> USE SessionAssumption
    DEF SessionTypeOK, UseInv, StopInv, UnderWay, Commanding, All, MainTo,
        Goto, Result, Taint, End, rejected, attemptFrame, sessionFrame,
        storeFrame, stopFrame, commandVars, stopVars, diskVars, attemptVars
<1>1. ASSUME NEW a \in Attempts, Attempt(a) \/ CommandEnds(a)
      PROVE  StopInv'
  <2>0. a \in All
    BY DEF Attempts, All
  <2>1. CASE track(a) \/ claimInFlight(a)
    BY <2>0, <2>1 DEF track, claimInFlight
  <2>2. CASE claimRecord(a)
    BY <2>0, <2>2 DEF claimRecord
  <2>3. CASE claimedStop(a)
    BY <2>0, <2>3 DEF claimedStop
  <2>4. CASE prepareFails(a) \/ runSessionAttempt(a)
    BY <2>0, <2>4 DEF prepareFails, runSessionAttempt
  <2>5. CASE prepareAttempt(a) \/ runClaude(a) \/ failedInvocation(a)
    BY <2>0, <2>5 DEF prepareAttempt, runClaude, failedInvocation
  <2>6. CASE gradeAttemptState(a) \/ judgeCompletedAttempt(a)
    BY <2>0, <2>6 DEF gradeAttemptState, judgeCompletedAttempt
  <2>7. CASE invokeJudge(a)
    BY <2>0, <2>7 DEF invokeJudge
  <2>8. CASE sessionEnds(a) \/ scorerEnds(a)
    BY <2>0, <2>8 DEF sessionEnds, scorerEnds
  <2>9. CASE judgeEnds(a)
    BY <2>0, <2>9 DEF judgeEnds
  <2>10. CASE removeAttemptFiles(a) \/ refuseWhenStopped(a)
              \/ writeAttemptRecord(a)
    BY <2>0, <2>10 DEF removeAttemptFiles, refuseWhenStopped,
       writeAttemptRecord
  <2>11. QED
    BY <1>1, <2>1, <2>2, <2>3, <2>4, <2>5, <2>6, <2>7, <2>8, <2>9, <2>10 DEF
       Attempt, CommandEnds
<1>2. ASSUME NEW r \in Reps, storeSessionRep(r) \/ storeRep(r)
      PROVE  StopInv'
  BY <1>2 DEF storeSessionRep, storeRep
<1>3. CASE requireConfirmationApproval \/ probeModel \/ probed \/ freezeInputs
  BY <1>3 DEF requireConfirmationApproval, probeModel, probed, freezeInputs
<1>4. CASE attempted \/ stored \/ finalizeSessionGroup
  BY <1>4 DEF attempted, stored, finalizeSessionGroup
<1>5. CASE closeAttempts \/ recordGroupStop \/ stopUnwritten
  BY <1>5 DEF closeAttempts, recordGroupStop, stopUnwritten
<1>6. CASE closedAttempts
  BY <1>6 DEF closedAttempts
<1>7. CASE killActiveCommands \/ reaped \/ exit
  BY <1>7 DEF killActiveCommands, reaped, exit
<1>8. CASE settled
  BY <1>8 DEF settled
<1>9. CASE UNCHANGED sessionVars
  BY <1>9 DEF sessionVars
<1>10. QED
  BY SessionSteps, <1>1, <1>2, <1>3, <1>4, <1>5, <1>6, <1>7, <1>8, <1>9

LEMMA FileStep ==
    ASSUME SessionTypeOK, PlaceInv, StopInv, FileInv, ClaimInv,
           [NextSession]_sessionVars
    PROVE  FileInv'
<1> USE SessionAssumption
    DEF SessionTypeOK, PlaceInv, StopInv, FileInv, ClaimInv, OfSingle,
        Attempts, All, MainTo, Goto, Result, Taint, End, rejected,
        attemptFrame, sessionFrame, storeFrame, stopFrame, commandVars,
        stopVars, diskVars, attemptVars
<1>1. ASSUME NEW a \in Attempts, Attempt(a) \/ CommandEnds(a)
      PROVE  FileInv'
  <2>0. a \in All
    BY DEF Attempts, All
  <2>1. CASE track(a) \/ claimInFlight(a)
    BY <2>0, <2>1 DEF track, claimInFlight
  <2>2. CASE claimRecord(a)
    BY <2>0, <2>2 DEF claimRecord
  <2>3. CASE claimedStop(a)
    BY <2>0, <2>3 DEF claimedStop
  <2>4. CASE prepareFails(a) \/ runSessionAttempt(a)
    BY <2>0, <2>4 DEF prepareFails, runSessionAttempt
  <2>5. CASE prepareAttempt(a) \/ runClaude(a) \/ failedInvocation(a)
    BY <2>0, <2>5 DEF prepareAttempt, runClaude, failedInvocation
  <2>6. CASE gradeAttemptState(a) \/ judgeCompletedAttempt(a)
    BY <2>0, <2>6 DEF gradeAttemptState, judgeCompletedAttempt
  <2>7. CASE invokeJudge(a)
    BY <2>0, <2>7 DEF invokeJudge
  <2>8. CASE sessionEnds(a) \/ scorerEnds(a)
    BY <2>0, <2>8 DEF sessionEnds, scorerEnds
  <2>9. CASE judgeEnds(a)
    BY <2>0, <2>9 DEF judgeEnds
  <2>10. CASE removeAttemptFiles(a) \/ refuseWhenStopped(a)
              \/ writeAttemptRecord(a)
    BY <2>0, <2>10 DEF removeAttemptFiles, refuseWhenStopped,
       writeAttemptRecord
  <2>11. QED
    BY <1>1, <2>1, <2>2, <2>3, <2>4, <2>5, <2>6, <2>7, <2>8, <2>9, <2>10 DEF
       Attempt, CommandEnds
<1>2. ASSUME NEW r \in Reps, storeSessionRep(r) \/ storeRep(r)
      PROVE  FileInv'
  BY <1>2 DEF storeSessionRep, storeRep
<1>3. CASE requireConfirmationApproval \/ probeModel \/ probed \/ freezeInputs
  BY <1>3 DEF requireConfirmationApproval, probeModel, probed, freezeInputs
<1>4. CASE attempted \/ stored \/ finalizeSessionGroup
  BY <1>4 DEF attempted, stored, finalizeSessionGroup
<1>5. CASE closeAttempts \/ recordGroupStop \/ stopUnwritten
  BY <1>5 DEF closeAttempts, recordGroupStop, stopUnwritten
<1>6. CASE closedAttempts
  BY <1>6 DEF closedAttempts
<1>7. CASE killActiveCommands \/ reaped \/ exit
  BY <1>7 DEF killActiveCommands, reaped, exit
<1>8. CASE settled
  BY <1>8 DEF settled
<1>9. CASE UNCHANGED sessionVars
  BY <1>9 DEF sessionVars
<1>10. QED
  BY SessionSteps, <1>1, <1>2, <1>3, <1>4, <1>5, <1>6, <1>7, <1>8, <1>9

-----------------------------------------------------------------------------
(* What the stop had a hand in.                                             *)
LEMMA TaintStep ==
    ASSUME SessionTypeOK, PlaceInv, StopInv, FileInv, TaintInv, ClaimInv,
           [NextSession]_sessionVars
    PROVE  TaintInv'
<1> USE SessionAssumption
    DEF SessionTypeOK, PlaceInv, StopInv, FileInv, TaintInv, ClaimInv,
        OfSingle, OfRep, Attempts, All, MainTo, Goto, Result, Taint, End,
        rejected, attemptFrame, sessionFrame, storeFrame, stopFrame,
        commandVars, stopVars, diskVars, attemptVars
<1>1. ASSUME NEW a \in Attempts, Attempt(a) \/ CommandEnds(a)
      PROVE  TaintInv'
  <2>0. a \in All
    BY DEF Attempts, All
  <2>1. CASE track(a) \/ claimInFlight(a)
    BY <2>0, <2>1 DEF track, claimInFlight
  <2>2. CASE claimRecord(a)
    BY <2>0, <2>2 DEF claimRecord
  <2>3. CASE claimedStop(a)
    BY <2>0, <2>3 DEF claimedStop
  <2>4. CASE prepareFails(a) \/ runSessionAttempt(a)
    BY <2>0, <2>4 DEF prepareFails, runSessionAttempt
  <2>5. CASE prepareAttempt(a) \/ runClaude(a) \/ failedInvocation(a)
    BY <2>0, <2>5 DEF prepareAttempt, runClaude, failedInvocation
  <2>6. CASE gradeAttemptState(a) \/ judgeCompletedAttempt(a)
    BY <2>0, <2>6 DEF gradeAttemptState, judgeCompletedAttempt
  <2>7. CASE invokeJudge(a)
    BY <2>0, <2>7 DEF invokeJudge
  <2>8. CASE sessionEnds(a) \/ scorerEnds(a)
    BY <2>0, <2>8 DEF sessionEnds, scorerEnds
  <2>9. CASE judgeEnds(a)
    BY <2>0, <2>9 DEF judgeEnds
  <2>10. CASE removeAttemptFiles(a) \/ refuseWhenStopped(a)
              \/ writeAttemptRecord(a)
    BY <2>0, <2>10 DEF removeAttemptFiles, refuseWhenStopped,
       writeAttemptRecord
  <2>11. QED
    BY <1>1, <2>1, <2>2, <2>3, <2>4, <2>5, <2>6, <2>7, <2>8, <2>9, <2>10 DEF
       Attempt, CommandEnds
<1>2. ASSUME NEW r \in Reps, storeSessionRep(r) \/ storeRep(r)
      PROVE  TaintInv'
  BY <1>2 DEF storeSessionRep, storeRep
<1>3. CASE requireConfirmationApproval \/ probeModel \/ probed \/ freezeInputs
  BY <1>3 DEF requireConfirmationApproval, probeModel, probed, freezeInputs
<1>4. CASE attempted \/ stored \/ finalizeSessionGroup
  BY <1>4 DEF attempted, stored, finalizeSessionGroup
<1>5. CASE closeAttempts \/ recordGroupStop \/ stopUnwritten
  BY <1>5 DEF closeAttempts, recordGroupStop, stopUnwritten
<1>6. CASE closedAttempts
  BY <1>6 DEF closedAttempts
<1>7. CASE killActiveCommands \/ reaped \/ exit
  BY <1>7 DEF killActiveCommands, reaped, exit
<1>8. CASE settled
  BY <1>8 DEF settled
<1>9. CASE UNCHANGED sessionVars
  BY <1>9 DEF sessionVars
<1>10. QED
  BY SessionSteps, <1>1, <1>2, <1>3, <1>4, <1>5, <1>6, <1>7, <1>8, <1>9

-----------------------------------------------------------------------------
(* The claims.                                                              *)
LEMMA ClaimStep ==
    ASSUME SessionTypeOK, PlaceInv, StopInv, FileInv, TaintInv, ClaimInv,
           [NextSession]_sessionVars
    PROVE  ClaimInv'
<1> USE SessionAssumption
    DEF SessionTypeOK, PlaceInv, StopInv, FileInv, TaintInv, ClaimInv,
        OfSingle, OfRep, Claimed, WithFiles, Commanding, Attempts, All,
        MainTo, Goto, Result, Taint, End, rejected, attemptFrame,
        sessionFrame, storeFrame, stopFrame, commandVars, stopVars, diskVars,
        attemptVars
<1>1. ASSUME NEW a \in Attempts, Attempt(a) \/ CommandEnds(a)
      PROVE  ClaimInv'
  <2>0. a \in All
    BY DEF Attempts, All
  <2>1. CASE track(a) \/ claimInFlight(a)
    BY <2>0, <2>1 DEF track, claimInFlight
  <2>2. CASE claimRecord(a)
    BY <2>0, <2>2 DEF claimRecord
  <2>3. CASE claimedStop(a)
    BY <2>0, <2>3 DEF claimedStop
  <2>4. CASE prepareFails(a) \/ runSessionAttempt(a)
    BY <2>0, <2>4 DEF prepareFails, runSessionAttempt
  <2>5. CASE prepareAttempt(a) \/ runClaude(a) \/ failedInvocation(a)
    BY <2>0, <2>5 DEF prepareAttempt, runClaude, failedInvocation
  <2>6. CASE gradeAttemptState(a) \/ judgeCompletedAttempt(a)
    BY <2>0, <2>6 DEF gradeAttemptState, judgeCompletedAttempt
  <2>7. CASE invokeJudge(a)
    BY <2>0, <2>7 DEF invokeJudge
  <2>8. CASE sessionEnds(a) \/ scorerEnds(a)
    BY <2>0, <2>8 DEF sessionEnds, scorerEnds
  <2>9. CASE judgeEnds(a)
    BY <2>0, <2>9 DEF judgeEnds
  <2>10. CASE removeAttemptFiles(a) \/ refuseWhenStopped(a)
              \/ writeAttemptRecord(a)
    BY <2>0, <2>10 DEF removeAttemptFiles, refuseWhenStopped,
       writeAttemptRecord
  <2>11. QED
    BY <1>1, <2>1, <2>2, <2>3, <2>4, <2>5, <2>6, <2>7, <2>8, <2>9, <2>10 DEF
       Attempt, CommandEnds
<1>2. ASSUME NEW r \in Reps, storeSessionRep(r) \/ storeRep(r)
      PROVE  ClaimInv'
  BY <1>2 DEF storeSessionRep, storeRep
<1>3. CASE requireConfirmationApproval \/ probeModel \/ probed \/ freezeInputs
  BY <1>3 DEF requireConfirmationApproval, probeModel, probed, freezeInputs
<1>4. CASE attempted \/ stored \/ finalizeSessionGroup
  BY <1>4 DEF attempted, stored, finalizeSessionGroup
<1>5. CASE closeAttempts \/ recordGroupStop \/ stopUnwritten
  BY <1>5 DEF closeAttempts, recordGroupStop, stopUnwritten
<1>6. CASE closedAttempts
  BY <1>6 DEF closedAttempts
<1>7. CASE killActiveCommands \/ reaped \/ exit
  BY <1>7 DEF killActiveCommands, reaped, exit
<1>8. CASE settled
  BY <1>8 DEF settled
<1>9. CASE UNCHANGED sessionVars
  BY <1>9 DEF sessionVars
<1>10. QED
  BY SessionSteps, <1>1, <1>2, <1>3, <1>4, <1>5, <1>6, <1>7, <1>8, <1>9

-----------------------------------------------------------------------------
(* The exit: no step follows it.                                            *)
LEMMA ExitStep ==
    ASSUME SessionTypeOK, PlaceInv, ExitInv, [NextSession]_sessionVars
    PROVE  ExitInv'
<1> USE DEF ExitInv
<1>1. CASE UNCHANGED sessionVars
  BY <1>1 DEF sessionVars, attemptVars, stopVars
<1>2. CASE main # "exited" /\ exit
  BY <1>2 DEF exit, stopVars, attemptVars, PlaceInv
<1>3. CASE main # "exited" /\ main' # "exited"
  BY <1>3
<1>4. CASE main # "exited" /\ main' = main
  BY <1>4
<1>5. ASSUME main # "exited", NEW a \in Attempts, Attempt(a) \/ CommandEnds(a)
      PROVE  main' = main
  BY <1>5 DEF Attempt, CommandEnds, track, claimInFlight, claimRecord,
     claimedStop, prepareFails, runSessionAttempt, prepareAttempt, runClaude,
     failedInvocation, gradeAttemptState, judgeCompletedAttempt, invokeJudge,
     removeAttemptFiles, refuseWhenStopped, writeAttemptRecord, sessionEnds,
     scorerEnds, judgeEnds, rejected, attemptFrame, sessionFrame
<1>6. ASSUME Command \/ probed PROVE main' # "exited" \/ main' = main
  BY <1>6 DEF Command, probed, requireConfirmationApproval, probeModel,
     freezeInputs, attempted, stored, finalizeSessionGroup, storeSessionRep,
     storeRep, MainTo
<1>7. ASSUME closeAttempts \/ Stop PROVE exit \/ main' = main
  BY <1>7 DEF Stop, recordStop, closeAttempts, closedAttempts,
     recordGroupStop, stopUnwritten, killActiveCommands, reaped, settled,
     stopFrame
<1>8. QED
  BY <1>1, <1>2, <1>3, <1>4, <1>5, <1>6, <1>7 DEF NextSession

LEMMA SessionInit == InitSession => SessionInv
<1> SUFFICES ASSUME InitSession PROVE SessionInv
  OBVIOUS
<1> USE SessionAssumption DEF InitSession
<1>1. SessionTypeOK
  <2>1. main \in {"approval", "preflight"} /\ 0 \in 0..MaxJudge
    OBVIOUS
  <2>2. QED
    BY <2>1 DEF SessionTypeOK
<1>2. PlaceInv /\ UseInv /\ TurnInv
  BY DEF PlaceInv, UseInv, TurnInv, UnderWay, OfSingle, OfRep, Attempts, All
<1>3. StopInv /\ FileInv /\ TaintInv
  BY DEF StopInv, FileInv, TaintInv, All
<1>4. ClaimInv /\ ExitInv
  BY DEF ClaimInv, ExitInv, Claimed, WithFiles, Commanding, All
<1>5. QED
  BY <1>1, <1>2, <1>3, <1>4 DEF SessionInv

LEMMA SessionInvariant == SessionSpec => []SessionInv
<1>1. SessionInv /\ [NextSession]_sessionVars => SessionInv'
  BY SessionTypeStep, TurnStep, PlaceStep, UseStep, StopStep, FileStep,
     TaintStep, ClaimStep, ExitStep DEF SessionInv
<1>2. QED
  BY <1>1, SessionInit, PTL DEF SessionSpec

-----------------------------------------------------------------------------
(* The state of a session command is well formed; no Judge is asked more    *)
(* often than MAX_JUDGE_ATTEMPTS.                                           *)
THEOREM SessionType == SessionSpec => []SessionTypeOK
<1>1. SessionInv => SessionTypeOK
  BY DEF SessionInv
<1>2. QED
  BY <1>1, SessionInvariant, PTL

(* A kill, a refused command or a closed command is never recorded as an    *)
(* attempt's or a rep's outcome, but by a group whose stop could not be     *)
(* written (storeSessionReps, refuseWhenStopped).                           *)
THEOREM StopLeavesNoRecord == SessionSpec => []StopNotRecorded
<1>1. SessionInv => StopNotRecorded
  <2> SUFFICES ASSUME SessionInv, NEW a \in record, a \in tainted
               PROVE  group /\ unwritten
    BY DEF StopNotRecorded
  <2> USE DEF SessionInv, SessionTypeOK, TaintInv, PlaceInv
  <2>1. at[a] = "stored"
    OBVIOUS
  <2>2. a \in Reps /\ a \in Attempts
    BY <2>1 DEF OfRep, All
  <2>3. QED
    BY <2>1, <2>2, SessionAssumption DEF Attempts
<1>2. QED
  BY <1>1, SessionInvariant, PTL

(* An attempt has its record or the stop's, never both, and a stopped       *)
(* command leaves no claimed attempt without either                         *)
(* (SessionAttemptsInFlight, refuseWhenStopped).                            *)
THEOREM RecordOrStop == SessionSpec => []StopOrRecord
<1>1. SessionInv => StopOrRecord
  <2> SUFFICES ASSUME SessionInv PROVE StopOrRecord
    OBVIOUS
  <2> USE SessionAssumption DEF SessionInv
  <2>1. record \cap stopFiles = {}
    BY DEF SessionTypeOK, ClaimInv, All
  <2>2. ASSUME main = "exited", stop # "no", ~hasty, ~unwritten,
               NEW a \in inFlight
        PROVE  \/ a \in record \cup stopFiles
               \/ outcome[a] = "error" /\ a \notin tainted
    <3>1. stop = "exiting" /\ a = Single /\ a \in All
      BY <2>2 DEF ExitInv, SessionTypeOK, All
    <3>2. at[a] = "ended"
      BY <2>2, <3>1 DEF StopInv, SessionTypeOK, PlaceInv, ClaimInv, OfRep
    <3>3. QED
      BY <2>2, <3>1, <3>2 DEF ClaimInv, FileInv
  <2>3. QED
    BY <2>1, <2>2 DEF StopOrRecord
<1>2. QED
  BY <1>1, SessionInvariant, PTL

(* No command outlives the process, and every attempt has cleaned up, but   *)
(* for what its cleaning keeps or cannot remove and for a wait that ended   *)
(* at its bound (refuseCommands, settled, drained, removeSessionFiles).     *)
THEOREM ExitLeavesNothing == SessionSpec => []NothingOutlivesExit
<1>1. SessionInv => NothingOutlivesExit
  <2> SUFFICES ASSUME SessionInv, main = "exited"
               PROVE  running = {} /\ (~hasty => files \subseteq unremoved)
    BY DEF NothingOutlivesExit
  <2> USE DEF SessionInv, SessionTypeOK, ExitInv
  <2>1. ~hasty \/ stop = "no" => \A a \in All : at[a] \notin UnderWay
    BY DEF StopInv
  <2>2. ~hasty \/ stop = "no" => files \subseteq unremoved
    BY <2>1 DEF UseInv, WithFiles, Commanding, UnderWay
  <2>3. stop = "no" => running = {}
    BY <2>1 DEF UseInv, Commanding, UnderWay
  <2>4. QED
    BY <2>2, <2>3 DEF StopInv
<1>2. QED
  BY <1>1, SessionInvariant, PTL
=============================================================================
