--------------------------- MODULE LaunchesProofs ---------------------------
(***************************************************************************)
(* Proofs about Launches, for any set of launches, pids and restarts: the  *)
(* gate is implemented, it counts the starts under way, one analysis runs  *)
(* at a time and a stop that was answered reads as a stop.                 *)
(***************************************************************************)
EXTENDS Launches, TLAPS

(* A process of a launch holds the launch's pid, and nobody else's, for as  *)
(* long as it runs; the record of a launch is written when its start ends.  *)
ChildInv ==
    /\ \A l \in Launches :
         /\ child[l] = "running" =>
               pidOf[l] \in Pids /\ holder[pidOf[l]] = l
         /\ start[l] \in {"new", "planning", "planned"} => child[l] = "none"
         /\ start[l] \in Spawned => pidOf[l] \in Pids
         /\ l \in recorded <=> start[l] = "started"
    /\ \A p \in Pids : holder[p] \in Launches =>
          pidOf[holder[p]] = p /\ child[holder[p]] = "running"

(* One analysis at a time is between its check and its record, and it       *)
(* overlooked those that are recorded and running beside it.                *)
AnalysisInv ==
    /\ \A a, b \in runsStartingAnalysis : a = b
    /\ \A a, b \in Analyses :
         start[a] \in {"planned", "spawned", "timed"} /\ Running(b) =>
            <<a, b>> \in overlooked
    /\ \A a, b \in Analyses : Running(a) /\ Running(b) =>
         a = b \/ <<a, b>> \in overlooked \/ <<b, a>> \in overlooked

(* A stop that is past its write is in the record of a launch.              *)
StopInv ==
    /\ \A l \in Launches :
         /\ stop[l] = "checked" => l \in recorded
         /\ stop[l] = "written" => l \in stopRequested
    /\ stopped \subseteq stopRequested

LaunchInv ==
    LaunchTypeOK /\ GateCountsStarts /\ ChildInv /\ AnalysisInv /\ StopInv

(* The steps of one launch and the steps of the system.                     *)
LaunchStep(l) ==
    executeLaunch(l) \/ refuseLaunch(l) \/ StartLaunch(l) \/ StopLaunch(l)

LEMMA LaunchSteps ==
    ASSUME [NextLaunch]_launchVars
    PROVE  \/ \E l \in Launches : LaunchStep(l)
           \/ \E l \in Launches : recordLaunchEnding(l) \/ ProcessEnds(l)
           \/ \E p \in Pids : ForeignStarts(p) \/ ForeignEnds(p)
           \/ Restart \/ Edit
           \/ UNCHANGED launchVars
  BY DEF NextLaunch, ServerStep, Processes, LaunchStep

LEMMA LaunchInit == InitLaunches => LaunchInv
<1> SUFFICES ASSUME InitLaunches PROVE LaunchInv
  OBVIOUS
<1> USE LaunchAssumption DEF InitLaunches
<1>1. LaunchTypeOK
  BY DEF LaunchTypeOK, InStart
<1>2. GateCountsStarts /\ ChildInv
  BY DEF GateCountsStarts, ChildInv, InStart, Spawned
<1>3. AnalysisInv /\ StopInv
  BY DEF AnalysisInv, StopInv, Running
<1>4. QED
  BY <1>1, <1>2, <1>3 DEF LaunchInv

(* Type correctness.                                                        *)
LEMMA LaunchTypeStep ==
    ASSUME LaunchTypeOK, ChildInv, StopInv, [NextLaunch]_launchVars
    PROVE  LaunchTypeOK'
<1> USE LaunchAssumption DEF LaunchTypeOK, InStart, history
<1>1. ASSUME NEW l \in Launches, LaunchStep(l) PROVE LaunchTypeOK'
  <2>1. CASE executeLaunch(l) \/ refuseLaunch(l)
    BY <2>1 DEF executeLaunch, refuseLaunch, refused, gateVars, processVars,
       recordVars, stopVars
  <2>p. CASE planLaunch(l)
    <3>1. overlooked' \subseteq Analyses \X Analyses
      BY <2>p DEF planLaunch
    <3>2. QED
      BY <2>p, <3>1 DEF planLaunch, gateVars, processVars, recordVars,
         stopVars
  <2>2. CASE refusePlan(l) \/ failLaunch(l)
    BY <2>2 DEF refusePlan, refused, release, failLaunch,
       gateVars, processVars, recordVars, stopVars
  <2>3. CASE launch(l)
    BY <2>3 DEF launch, gateVars, stopVars
  <2>4. CASE readStartedAt(l)
    BY <2>4 DEF readStartedAt, ChildInv, Spawned, gateVars, processVars,
       stopVars
  <2>5. CASE writeLaunchRecord(l)
    BY <2>5 DEF writeLaunchRecord, release, processVars, stopVars
  <2>6. CASE StopLaunch(l)
    BY <2>6 DEF StopLaunch, runningLaunch, recordStop, failStop, signalStop,
       StopInv, gateVars, processVars, recordVars, stopVars
  <2>7. QED
    BY <1>1, <2>1, <2>p, <2>2, <2>3, <2>4, <2>5, <2>6
       DEF LaunchStep, StartLaunch
<1>2. ASSUME NEW l \in Launches, recordLaunchEnding(l) \/ ProcessEnds(l)
      PROVE  LaunchTypeOK'
  BY <1>2 DEF recordLaunchEnding, ProcessEnds, gateVars, recordVars, stopVars
<1>3. ASSUME NEW p \in Pids, ForeignStarts(p) \/ ForeignEnds(p)
      PROVE  LaunchTypeOK'
  BY <1>3 DEF ForeignStarts, ForeignEnds, gateVars, recordVars, stopVars
<1>4. CASE Restart
  BY <1>4 DEF Restart, processVars, recordVars
<1>5. CASE Edit
  BY <1>5 DEF Edit, beginApplying, passLiveLaunches, endApplying, gateVars,
     processVars, recordVars, stopVars
<1>6. CASE UNCHANGED launchVars
  BY <1>6 DEF launchVars, gateVars, processVars, recordVars, stopVars
<1>7. QED
  BY <1>1, <1>2, <1>3, <1>4, <1>5, <1>6, LaunchSteps

-----------------------------------------------------------------------------
(* The gate counts the starts under way.                                    *)
LEMMA GateStep ==
    ASSUME LaunchTypeOK, GateCountsStarts, [NextLaunch]_launchVars
    PROVE  GateCountsStarts'
<1> USE LaunchAssumption DEF LaunchTypeOK, InStart, GateCountsStarts
<1>1. ASSUME NEW l \in Launches, LaunchStep(l) PROVE GateCountsStarts'
  <2>1. CASE executeLaunch(l) \/ refuseLaunch(l)
    BY <2>1 DEF executeLaunch, refuseLaunch, refused, gateVars
  <2>2. CASE planLaunch(l) \/ launch(l) \/ readStartedAt(l)
    BY <2>2 DEF planLaunch, launch, readStartedAt, gateVars
  <2>3. CASE refusePlan(l) \/ failLaunch(l) \/ writeLaunchRecord(l)
    BY <2>3 DEF refusePlan, refused, failLaunch, writeLaunchRecord, release
  <2>4. CASE StopLaunch(l)
    BY <2>4 DEF StopLaunch, runningLaunch, recordStop, failStop, signalStop,
       gateVars
  <2>5. QED
    BY <1>1, <2>1, <2>2, <2>3, <2>4 DEF LaunchStep, StartLaunch
<1>2. CASE Restart
  BY <1>2 DEF Restart
<1>3. QED
  BY <1>1, <1>2, LaunchSteps DEF recordLaunchEnding, ProcessEnds,
     ForeignStarts, ForeignEnds, Edit, beginApplying, passLiveLaunches,
     endApplying, gateVars, launchVars

-----------------------------------------------------------------------------
(* Processes, pids and records.                                             *)
LEMMA ChildStep ==
    ASSUME LaunchTypeOK, ChildInv, [NextLaunch]_launchVars
    PROVE  ChildInv'
<1> USE LaunchAssumption DEF LaunchTypeOK, InStart, Spawned, ChildInv
<1>1. ASSUME NEW l \in Launches, LaunchStep(l) PROVE ChildInv'
  <2>1. CASE executeLaunch(l) \/ refuseLaunch(l)
    BY <2>1 DEF executeLaunch, refuseLaunch, refused, processVars, recordVars
  <2>2. CASE planLaunch(l) \/ refusePlan(l) \/ failLaunch(l)
    BY <2>2 DEF planLaunch, refusePlan, refused, failLaunch, processVars,
       recordVars
  <2>3. CASE launch(l)
    BY <2>3 DEF launch
  <2>4. CASE readStartedAt(l) \/ writeLaunchRecord(l)
    BY <2>4 DEF readStartedAt, writeLaunchRecord, processVars
  <2>5. CASE StopLaunch(l)
    BY <2>5 DEF StopLaunch, runningLaunch, recordStop, failStop, signalStop,
       processVars, recordVars
  <2>6. QED
    BY <1>1, <2>1, <2>2, <2>3, <2>4, <2>5 DEF LaunchStep, StartLaunch
<1>2. ASSUME NEW l \in Launches, recordLaunchEnding(l) \/ ProcessEnds(l)
      PROVE  ChildInv'
  BY <1>2 DEF recordLaunchEnding, ProcessEnds, recordVars
<1>3. ASSUME NEW p \in Pids, ForeignStarts(p) \/ ForeignEnds(p)
      PROVE  ChildInv'
  BY <1>3 DEF ForeignStarts, ForeignEnds, recordVars
<1>4. CASE Restart
  BY <1>4 DEF Restart, processVars, recordVars
<1>5. QED
  BY <1>1, <1>2, <1>3, <1>4, LaunchSteps DEF Edit, beginApplying,
     passLiveLaunches, endApplying, processVars, recordVars, launchVars

(* A recorded launch whose process runs is listed as alive if it reads.     *)
LEMMA RunningIsLive ==
    ASSUME ChildInv, NEW l \in Launches, Running(l), NEW unread,
           l \notin unread
    PROVE  l \in liveLaunches(unread)
  BY LaunchAssumption DEF ChildInv, Running, liveLaunches, listedLaunch,
     isAlive

-----------------------------------------------------------------------------
(* One analysis at a time.  The check of planLaunch sees every analysis     *)
(* that is recorded, but for those it overlooks, and runsStartingAnalysis   *)
(* holds back the others.                                                   *)
LEMMA AnalysisStep ==
    ASSUME LaunchTypeOK, GateCountsStarts, ChildInv, AnalysisInv,
           [NextLaunch]_launchVars
    PROVE  AnalysisInv'
<1> USE LaunchAssumption DEF LaunchTypeOK, AnalysisInv, history
<1>1. ASSUME NEW l \in Launches, LaunchStep(l) PROVE AnalysisInv'
  <2>1. CASE executeLaunch(l) \/ refuseLaunch(l)
    BY <2>1 DEF executeLaunch, refuseLaunch, refused, Running, gateVars,
       processVars, recordVars
  <2>2. CASE planLaunch(l)
    <3>1. ASSUME NEW b \in Analyses, l \in Analyses, Running(b)
          PROVE  <<l, b>> \in overlooked'
      <4>1. PICK unread \in SUBSET (recorded \cap Analyses) :
              /\ ~analysisInFlight(unread)
              /\ overlooked' = overlooked
                    \cup ({l} \X {c \in unread : Running(c)})
        BY <2>2, <3>1 DEF planLaunch
      <4>2. b \in unread
        BY <3>1, <4>1, RunningIsLive DEF analysisInFlight
      <4>3. QED
        BY <3>1, <4>1, <4>2
    <3>2. overlooked \subseteq overlooked'
      BY <2>2 DEF planLaunch
    <3>3. /\ runsStartingAnalysis' = runsStartingAnalysis
          /\ start' = [start EXCEPT ![l] = "planned"]
          /\ \A b \in Launches : Running(b)' <=> Running(b)
      BY <2>2 DEF planLaunch, Running, gateVars, processVars, recordVars
    <3>4. QED
      BY <3>1, <3>2, <3>3
  <2>3. CASE refusePlan(l) \/ failLaunch(l)
    BY <2>3 DEF refusePlan, refused, failLaunch, release, Running,
       processVars, recordVars
  <2>4. CASE launch(l)
    <3>1. l \notin recorded
      BY <2>4 DEF launch, ChildInv
    <3>2. \A b \in Launches : Running(b)' => Running(b)
      BY <2>4, <3>1 DEF launch, Running
    <3>3. QED
      BY <2>4, <3>2 DEF launch, gateVars
  <2>5. CASE readStartedAt(l)
    BY <2>5 DEF readStartedAt, Running, gateVars, processVars
  <2>6. CASE writeLaunchRecord(l)
    <3>1. \A b \in Launches \ {l} : Running(b)' => Running(b)
      BY <2>6 DEF writeLaunchRecord, Running, processVars
    <3>2. l \in Analyses =>
            \A b \in Analyses \ {l} : start[b] \notin InStart
      BY <2>6 DEF writeLaunchRecord, GateCountsStarts, InStart
    <3>3. start' = [start EXCEPT ![l] = "started"]
          /\ runsStartingAnalysis' = runsStartingAnalysis \ {l}
          /\ start[l] = "timed" /\ overlooked' = overlooked
      BY <2>6 DEF writeLaunchRecord, release
    <3>4. QED
      BY <3>1, <3>2, <3>3 DEF InStart
  <2>7. CASE StopLaunch(l)
    BY <2>7 DEF StopLaunch, runningLaunch, recordStop, failStop, signalStop,
       Running, gateVars, processVars, recordVars
  <2>8. QED
    BY <1>1, <2>1, <2>2, <2>3, <2>4, <2>5, <2>6, <2>7
       DEF LaunchStep, StartLaunch
<1>2. ASSUME NEW l \in Launches, recordLaunchEnding(l) \/ ProcessEnds(l)
      PROVE  AnalysisInv'
  BY <1>2 DEF recordLaunchEnding, ProcessEnds, Running, gateVars, recordVars
<1>3. CASE Restart
  BY <1>3 DEF Restart, Running, InStart, processVars, recordVars
<1>4. QED
  BY <1>1, <1>2, <1>3, LaunchSteps DEF ForeignStarts, ForeignEnds, Edit,
     beginApplying, passLiveLaunches, endApplying, Running, gateVars,
     processVars, recordVars, launchVars

-----------------------------------------------------------------------------
(* What a stop has written.                                                 *)
LEMMA StopStep ==
    ASSUME LaunchTypeOK, StopInv, [NextLaunch]_launchVars
    PROVE  StopInv'
<1> USE DEF LaunchTypeOK, StopInv
<1>1. ASSUME NEW l \in Launches, LaunchStep(l) PROVE StopInv'
  <2>1. CASE executeLaunch(l) \/ refuseLaunch(l) \/ StartLaunch(l)
    BY <2>1 DEF executeLaunch, refuseLaunch, StartLaunch, planLaunch,
       refusePlan, refused, launch, readStartedAt, writeLaunchRecord,
       failLaunch, recordVars, stopVars
  <2>2. CASE StopLaunch(l)
    BY <2>2 DEF StopLaunch, runningLaunch, recordStop, failStop, signalStop,
       recordVars
  <2>3. QED
    BY <1>1, <2>1, <2>2 DEF LaunchStep
<1>2. CASE Restart
  BY <1>2 DEF Restart, recordVars
<1>3. QED
  BY <1>1, <1>2, LaunchSteps DEF recordLaunchEnding, ProcessEnds,
     ForeignStarts, ForeignEnds, Edit, beginApplying, passLiveLaunches,
     endApplying, recordVars, stopVars, launchVars

LEMMA LaunchInvariant == LaunchSpec => []LaunchInv
<1>1. LaunchInv /\ [NextLaunch]_launchVars => LaunchInv'
  BY LaunchTypeStep, GateStep, ChildStep, AnalysisStep, StopStep
     DEF LaunchInv
<1>2. QED
  BY <1>1, LaunchInit, PTL DEF LaunchSpec

-----------------------------------------------------------------------------
(* The state of the server's launches is well formed, also after restarts.  *)
THEOREM LaunchType == LaunchSpec => []LaunchTypeOK
<1>1. LaunchInv => LaunchTypeOK
  BY DEF LaunchInv
<1>2. QED
  BY <1>1, LaunchInvariant, PTL

(* However a start ends, the gate and runsStartingAnalysis count the starts *)
(* that are under way and no other (the finally clauses of CorpusEditGate   *)
(* and startSoleAnalysisOf).                                                *)
THEOREM GateCounts == LaunchSpec => []GateCountsStarts
<1>1. LaunchInv => GateCountsStarts
  BY DEF LaunchInv
<1>2. QED
  BY <1>1, LaunchInvariant, PTL

(* Two requests together never start two paid analyses of one run, unless   *)
(* the record of the first does not read when the second is planned         *)
(* (startSoleAnalysisOf, planLaunch).                                       *)
THEOREM OneAnalysis == LaunchSpec => []SoleAnalysis
<1>1. LaunchInv => SoleAnalysis
  <2> SUFFICES ASSUME LaunchInv, NEW a \in Analyses, NEW b \in Analyses,
                      start[a] \in Spawned, child[a] = "running",
                      start[b] \in Spawned, child[b] = "running"
               PROVE  \/ a = b
                      \/ <<a, b>> \in overlooked \/ <<b, a>> \in overlooked
    BY DEF SoleAnalysis
  <2> USE LaunchAssumption DEF LaunchInv, LaunchTypeOK
  <2>1. \A l \in {a, b} : start[l] = "started" => Running(l)
    BY DEF ChildInv, Running
  <2>2. \A l \in {a, b} : start[l] # "started" =>
            l \in runsStartingAnalysis
            /\ start[l] \in {"planned", "spawned", "timed"}
    BY DEF GateCountsStarts, InStart, Spawned
  <2>3. QED
    BY <2>1, <2>2 DEF AnalysisInv
<1>2. QED
  BY <1>1, LaunchInvariant, PTL

(* A launch whose stop was answered reads as stopped once its process ended *)
(* and nobody has its pid, whatever its command wrote (listedLaunch).       *)
THEOREM StopIsRead == LaunchSpec => []StopWins
<1>1. LaunchInv => StopWins
  BY DEF LaunchInv, LaunchTypeOK, StopInv, StopWins, listedLaunch
<1>2. QED
  BY <1>1, LaunchInvariant, PTL

-----------------------------------------------------------------------------
(* The gate.                                                                *)
Alive == \E l \in recorded : child[l] = "running"

(* A step that moves neither the gate nor a recorded process stutters.      *)
LEMMA LaunchesImplementStep ==
    ASSUME LaunchInv, [NextLaunch]_launchVars
    PROVE  [Gate!NextGate]_(Gate!gateVars)
<1> USE DEF Gate!gateVars, Gate!NextGate
<1>t. LaunchTypeOK /\ ChildInv /\ GateCountsStarts
  BY DEF LaunchInv
<1>1. ASSUME NEW l \in Launches, LaunchStep(l)
      PROVE  [Gate!NextGate]_(Gate!gateVars)
  <2>1. CASE executeLaunch(l)
    BY <2>1 DEF executeLaunch, processVars, recordVars, Gate!beginStart
  <2>2. CASE refuseLaunch(l) \/ planLaunch(l) \/ readStartedAt(l)
                \/ StopLaunch(l)
    BY <2>2 DEF refuseLaunch, refused, planLaunch, readStartedAt, StopLaunch,
       runningLaunch, recordStop, failStop, signalStop, gateVars,
       processVars, recordVars
  <2>3. CASE launch(l)
    <3>1. l \notin recorded /\ recorded \subseteq Launches
      BY <1>t, <2>3 DEF launch, ChildInv, LaunchTypeOK
    <3>2. Alive' <=> Alive
      BY <1>t, <2>3, <3>1 DEF launch, Alive, LaunchTypeOK
    <3>3. QED
      BY <2>3, <3>2 DEF launch, gateVars, Alive
  <2>4. CASE refusePlan(l) \/ failLaunch(l)
    <3>1. starting # {}
      BY <1>t, <2>4 DEF refusePlan, failLaunch, GateCountsStarts, InStart
    <3>2. QED
      BY <2>4, <3>1 DEF refusePlan, refused, failLaunch, release,
         processVars, recordVars, Gate!endStart
  <2>5. CASE writeLaunchRecord(l)
    <3>1. starting # {}
      BY <1>t, <2>5 DEF writeLaunchRecord, GateCountsStarts, InStart
    <3>2. Alive' \in {Alive, TRUE}
      BY <2>5 DEF writeLaunchRecord, processVars, Alive
    <3>3. QED
      BY <2>5, <3>1, <3>2 DEF writeLaunchRecord, release, Alive,
         Gate!endStart
  <2>6. QED
    BY <1>1, <2>1, <2>2, <2>3, <2>4, <2>5 DEF LaunchStep, StartLaunch
<1>2. ASSUME NEW l \in Launches, recordLaunchEnding(l)
      PROVE  [Gate!NextGate]_(Gate!gateVars)
  BY <1>2 DEF recordLaunchEnding, gateVars, recordVars
<1>3. ASSUME NEW l \in Launches, ProcessEnds(l)
      PROVE  [Gate!NextGate]_(Gate!gateVars)
  <2>1. Alive' => Alive
    BY <1>3, <1>t DEF ProcessEnds, recordVars, Alive, LaunchTypeOK
  <2>2. QED
    BY <1>3, <2>1 DEF ProcessEnds, gateVars, Alive, Gate!launchEnds
<1>4. CASE Restart
  BY <1>4 DEF Restart, processVars, recordVars, Gate!restart
<1>5. CASE Edit
  <2>1. CASE beginApplying \/ endApplying
    BY <2>1 DEF beginApplying, endApplying, processVars, recordVars,
       Gate!beginApplying, Gate!endApplying
  <2>2. CASE passLiveLaunches
    <3>1. PICK unread \in SUBSET recorded :
            /\ liveLaunches(unread) = {}
            /\ applying' =
                  IF \E l \in unread : Running(l) THEN "blind" ELSE "clear"
      BY <2>2 DEF passLiveLaunches
    <3>2. Alive <=> \E l \in unread : Running(l)
      BY <1>t, <3>1, RunningIsLive DEF Alive, Running, LaunchTypeOK
    <3>3. applying = "asked" /\ starting' = starting /\ (Alive' <=> Alive)
      BY <2>2 DEF passLiveLaunches, processVars, recordVars, Alive
    <3>4. CASE Alive
      BY <3>1, <3>2, <3>3, <3>4 DEF Alive, Gate!passUnreadLaunches
    <3>5. CASE ~Alive
      BY <3>1, <3>2, <3>3, <3>5 DEF Alive, Gate!passLiveLaunches
    <3>6. QED
      BY <3>4, <3>5
  <2>3. QED
    BY <1>5, <2>1, <2>2 DEF Edit
<1>6. QED
  BY <1>1, <1>2, <1>3, <1>4, <1>5, LaunchSteps DEF ForeignStarts,
     ForeignEnds, gateVars, processVars, recordVars, launchVars

(* The server's launches keep the promise EditGate makes to the edits, also *)
(* across restarts and reused pids (CorpusEditGate,                         *)
(* refuseEditUnderLiveLaunch).                                              *)
THEOREM LaunchesImplementGate == LaunchSpec => ImplementsGate
<1>1. InitLaunches => Gate!InitGate
  BY DEF InitLaunches, Gate!InitGate
<1>2. LaunchInv /\ [NextLaunch]_launchVars =>
         [Gate!NextGate]_(Gate!gateVars)
  BY LaunchesImplementStep
<1>3. QED
  BY <1>1, <1>2, LaunchInvariant, PTL
     DEF LaunchSpec, ImplementsGate, Gate!GateSpec

(* An edit has the gate only while nothing starts, so nothing can have come *)
(* to run since its check.                                                  *)
PromiseInv == (applying # "no" => starting = {}) /\ Gate!NoEditUnderLaunch

(* src/server/corpus-edit-gate.ts: "no edit lands between a launch's start  *)
(* and its record".  An edit past its check meets no launch that starts,    *)
(* and none, of this server or an earlier one, that is recorded and runs,   *)
(* unless the record of one did not read at the check.                      *)
THEOREM NoEditMeetsLaunch == LaunchSpec => []Gate!NoEditUnderLaunch
<1>1. Gate!InitGate => PromiseInv
  BY DEF Gate!InitGate, PromiseInv, Gate!NoEditUnderLaunch
<1>2. PromiseInv /\ [Gate!NextGate]_(Gate!gateVars) => PromiseInv'
  BY DEF PromiseInv, Gate!NoEditUnderLaunch, Gate!gateVars, Gate!NextGate,
     Gate!beginStart, Gate!endStart, Gate!launchEnds, Gate!beginApplying,
     Gate!passLiveLaunches, Gate!passUnreadLaunches, Gate!endApplying,
     Gate!restart
<1>3. PromiseInv => Gate!NoEditUnderLaunch
  BY DEF PromiseInv
<1>4. QED
  BY <1>1, <1>2, <1>3, LaunchesImplementGate, PTL
     DEF ImplementsGate, Gate!GateSpec
=============================================================================
