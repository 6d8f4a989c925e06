------------------------------ MODULE Launches ------------------------------
(***************************************************************************)
(* The launches of the server (src/server): the commands it starts for the *)
(* browser as detached processes, the records by which it finds them again,*)
(* the stop of a launch, and the gate that keeps a corpus edit and a       *)
(* launch's start apart.                                                   *)
(*                                                                         *)
(* A launch stands for the one request that makes it.  A process is named  *)
(* by its launch, or Foreign when it is not the server's; a process's      *)
(* start time, which ps reports, is abstracted to the process itself.  The *)
(* system gives a free pid to any process.  A request's reads of the       *)
(* launch records are one step: while they last only processes end, since  *)
(* the gate and runsStartingAnalysis hold back the starts they look for.   *)
(* A record that does not read, or a file that cannot be read, refuses     *)
(* nothing: which ones those are is open at every reading of the records.  *)
(***************************************************************************)
EXTENDS Naturals

CONSTANTS
    Launches,     \* the requests to start a launch
    Analyses,     \* those that ask for an analysis, all of one run
    Pids,
    Foreign,      \* a process the server did not start
    Nobody,       \* no process
    MaxRestarts   \* how often the server is restarted

ASSUME LaunchAssumption ==
    /\ Analyses \subseteq Launches
    /\ Foreign \notin Launches /\ Nobody \notin Launches
    /\ Foreign # Nobody
    /\ Nobody \notin Pids
    /\ MaxRestarts \in Nat

VARIABLES
    start,        \* where the request of each launch is
    pidOf,        \* the pid its spawn returned
    startedAt,    \* what ps said of that pid, as it goes into the record
    recorded,     \* the launches whose record is written
    stopRequested,\* those whose record holds stopRequestedAt
    stop,         \* where the stop request of a launch is
    stopped,      \* the launches whose stop was answered with 202
    starting,     \* CorpusEditGate.#starting, as the starts it counts
    applying,     \* CorpusEditGate.#applying, and how far the edit is
    runsStartingAnalysis,  \* the run's name in this set, by its holder
    holder,       \* the process that has each pid
    child,        \* the process of each launch
    ending,       \* the launches whose command wrote its ending
    restarts,
    overlooked    \* <<a, b>>: a was planned while b ran and did not read

gateVars == <<starting, applying, runsStartingAnalysis>>
processVars == <<holder, child, ending>>
recordVars == <<pidOf, startedAt, recorded, stopRequested>>
stopVars == <<stop, stopped>>
history == <<restarts, overlooked>>
launchVars == <<start, gateVars, processVars, recordVars, stopVars, history>>

(* A start that has the gate, and one whose process runs.                   *)
InStart == {"planning", "planned", "spawned", "timed"}
Spawned == {"spawned", "timed", "started"}

LaunchTypeOK ==
    /\ start \in [Launches ->
          InStart \cup {"new", "started", "refused", "failed", "lost"}]
    /\ pidOf \in [Launches -> Pids \cup {Nobody}]
    /\ startedAt \in [Launches -> Launches \cup {Foreign, Nobody}]
    /\ recorded \subseteq Launches /\ stopRequested \subseteq recorded
    /\ stop \in [Launches -> {"idle", "checked", "written"}]
    /\ stopped \subseteq Launches
    /\ starting \subseteq Launches /\ runsStartingAnalysis \subseteq Analyses
    /\ applying \in {"no", "asked", "clear", "blind"}
    /\ holder \in [Pids -> Launches \cup {Foreign, Nobody}]
    /\ child \in [Launches -> {"none", "running", "ended"}]
    /\ ending \subseteq Launches
    /\ restarts \in 0..MaxRestarts
    /\ overlooked \subseteq Analyses \X Analyses

InitLaunches ==
    /\ start = [l \in Launches |-> "new"]
    /\ pidOf = [l \in Launches |-> Nobody]
    /\ startedAt = [l \in Launches |-> Nobody]
    /\ recorded = {} /\ stopRequested = {}
    /\ stop = [l \in Launches |-> "idle"] /\ stopped = {}
    /\ starting = {} /\ applying = "no" /\ runsStartingAnalysis = {}
    /\ holder = [p \in Pids |-> Nobody]
    /\ child = [l \in Launches |-> "none"] /\ ending = {}
    /\ restarts = 0 /\ overlooked = {}

-----------------------------------------------------------------------------
(* The reading of the records (run-history-live-launches.ts).               *)

isAlive(l) == holder[pidOf[l]] # Nobody

(* A launch in the listing, given the records that do not read.  The file   *)
(* of an ending that does not read is as if its record did not.             *)
listedLaunch(l, unread) ==
    CASE l \notin recorded -> "unlisted"
      [] l \in recorded \cap unread -> "unreadable"
      [] l \in recorded \ unread /\ isAlive(l) -> "alive"
      [] l \in recorded \ unread /\ ~isAlive(l) ->
            IF l \in stopRequested THEN "stopped"
            ELSE IF l \in ending THEN "ended" ELSE "gone"

liveLaunches(unread) ==
    {l \in recorded : listedLaunch(l, unread) = "alive"}

Running(l) == l \in recorded /\ child[l] = "running"

-----------------------------------------------------------------------------
(* The start of a launch (launch-execution-routes.ts, launches-start-*.ts). *)

(* The finally clauses of gate.starting and startSoleAnalysisOf.            *)
release(l) ==
    /\ starting' = starting \ {l}
    /\ runsStartingAnalysis' = runsStartingAnalysis \ {l}
    /\ UNCHANGED applying

refused(l) ==
    /\ start' = [start EXCEPT ![l] = "refused"]
    /\ UNCHANGED <<processVars, recordVars, stopVars, history>>

executeLaunch(l) ==
    /\ start[l] = "new"
    /\ l \in Analyses => runsStartingAnalysis = {}
    /\ applying = "no"
    /\ start' = [start EXCEPT ![l] = "planning"]
    /\ starting' = starting \cup {l}
    /\ runsStartingAnalysis' = runsStartingAnalysis \cup ({l} \cap Analyses)
    /\ UNCHANGED <<applying, processVars, recordVars, stopVars, history>>

refuseLaunch(l) ==
    /\ start[l] = "new"
    /\ \/ l \in Analyses /\ runsStartingAnalysis # {}
       \/ applying # "no"
    /\ refused(l)
    /\ UNCHANGED gateVars

analysisInFlight(unread) == liveLaunches(unread) \cap Analyses # {}

(* Mutant: an analysis that runs does not refuse another.                   *)
planLaunch_NoCheck(l) ==
    /\ start[l] = "planning"
    /\ start' = [start EXCEPT ![l] = "planned"]
    /\ UNCHANGED <<gateVars, processVars, recordVars, stopVars, history>>

(* planLaunch refuses for what the request names, and for a running         *)
(* analysis of the same run whose record reads.                             *)
planLaunch(l) ==
    /\ start[l] = "planning"
    /\ \/ /\ l \notin Analyses
          /\ UNCHANGED overlooked
       \/ /\ l \in Analyses
          /\ \E unread \in SUBSET (recorded \cap Analyses) :
                /\ ~analysisInFlight(unread)
                /\ overlooked' = overlooked
                      \cup ({l} \X {b \in unread : Running(b)})
    /\ start' = [start EXCEPT ![l] = "planned"]
    /\ UNCHANGED <<gateVars, processVars, recordVars, stopVars, restarts>>

refusePlan(l) ==
    /\ start[l] \in {"planning", "planned"}
    /\ refused(l) /\ release(l)

(* launcher.launch: the process has a pid that is free.                     *)
launch(l) ==
    /\ start[l] = "planned"
    /\ \E p \in Pids :
          /\ holder[p] = Nobody
          /\ holder' = [holder EXCEPT ![p] = l]
          /\ pidOf' = [pidOf EXCEPT ![l] = p]
    /\ start' = [start EXCEPT ![l] = "spawned"]
    /\ child' = [child EXCEPT ![l] = "running"]
    /\ UNCHANGED <<gateVars, stopVars, history, ending, startedAt, recorded,
                   stopRequested>>

readStartedAt(l) ==
    /\ start[l] = "spawned"
    /\ startedAt' = [startedAt EXCEPT ![l] = holder[pidOf[l]]]
    /\ start' = [start EXCEPT ![l] = "timed"]
    /\ UNCHANGED <<gateVars, processVars, stopVars, history, pidOf, recorded,
                   stopRequested>>

writeLaunchRecord(l) ==
    /\ start[l] = "timed"
    /\ recorded' = recorded \cup {l}
    /\ start' = [start EXCEPT ![l] = "started"]
    /\ release(l)
    /\ UNCHANGED <<processVars, stopVars, history, pidOf, startedAt,
                   stopRequested>>

(* Mutant: a failed start leaves the gate counting it.                      *)
failLaunch_Keeps(l) ==
    /\ start[l] \in {"spawned", "timed"}
    /\ start' = [start EXCEPT ![l] = "failed"]
    /\ UNCHANGED <<gateVars, processVars, recordVars, stopVars, history>>

(* The record cannot be written: the process is sent SIGTERM, which it      *)
(* takes some time to heed, and the request answers 500.                    *)
failLaunch(l) ==
    /\ start[l] \in {"spawned", "timed"}
    /\ start' = [start EXCEPT ![l] = "failed"]
    /\ release(l)
    /\ UNCHANGED <<processVars, recordVars, stopVars, history>>

-----------------------------------------------------------------------------
(* The stop of a launch (launch-stop-recorded.ts,                           *)
(* launches-running-launch.ts).  A refused stop changes nothing, nor does   *)
(* one of a launch whose record does not read.                              *)

(* Mutant: a launch is stopped that has no record yet.                      *)
runningLaunch_Unrecorded(l) ==
    /\ stop[l] = "idle"
    /\ l \notin Analyses
    /\ startedAt[l] # Nobody
    /\ holder[pidOf[l]] = startedAt[l]
    /\ stop' = [stop EXCEPT ![l] = "checked"]
    /\ UNCHANGED <<start, gateVars, processVars, recordVars, stopped, history>>

runningLaunch(l) ==
    /\ stop[l] = "idle"
    /\ l \in recorded /\ l \notin Analyses
    /\ startedAt[l] # Nobody
    /\ holder[pidOf[l]] = startedAt[l]
    /\ stop' = [stop EXCEPT ![l] = "checked"]
    /\ UNCHANGED <<start, gateVars, processVars, recordVars, stopped, history>>

(* Mutant: the process is signalled and the stop answered before the        *)
(* record is written.                                                       *)
recordStop_Late(l) ==
    /\ stop[l] = "checked"
    /\ \/ /\ l \notin stopped
          /\ stopped' = stopped \cup {l}
          /\ UNCHANGED <<stop, stopRequested>>
       \/ /\ l \in stopped
          /\ stopRequested' = stopRequested \cup {l}
          /\ stop' = [stop EXCEPT ![l] = "written"]
          /\ UNCHANGED stopped
    /\ UNCHANGED <<start, gateVars, processVars, pidOf, startedAt, recorded,
                   history>>

recordStop(l) ==
    /\ stop[l] = "checked"
    /\ stopRequested' = stopRequested \cup {l}
    /\ stop' = [stop EXCEPT ![l] = "written"]
    /\ UNCHANGED <<start, gateVars, processVars, pidOf, startedAt, recorded,
                   stopped, history>>

failStop(l) ==
    /\ stop[l] = "checked"
    /\ stop' = [stop EXCEPT ![l] = "idle"]
    /\ UNCHANGED <<start, gateVars, processVars, recordVars, stopped, history>>

(* SIGTERM to whoever has the pid by now; a pid nobody has is ignored.      *)
signalStop(l) ==
    /\ stop[l] = "written"
    /\ stop' = [stop EXCEPT ![l] = "idle"]
    /\ stopped' = stopped \cup {l}
    /\ UNCHANGED <<start, gateVars, processVars, recordVars, history>>

-----------------------------------------------------------------------------
(* The gate's side of an edit (corpus-edit-gate.ts,                         *)
(* launch-corpus-edit-routes.ts).                                           *)

(* Mutant: an edit is applied while a launch starts.                        *)
beginApplying_NoStarting ==
    /\ applying = "no"
    /\ applying' = "asked"
    /\ UNCHANGED <<start, starting, runsStartingAnalysis, processVars,
                   recordVars, stopVars, history>>

beginApplying ==
    /\ applying = "no" /\ starting = {}
    /\ applying' = "asked"
    /\ UNCHANGED <<start, starting, runsStartingAnalysis, processVars,
                   recordVars, stopVars, history>>

(* refuseEditUnderLiveLaunch lets the edit pass; it is blind when that is   *)
(* for a running launch whose record does not read.                         *)
passLiveLaunches ==
    /\ applying = "asked"
    /\ \E unread \in SUBSET recorded :
          /\ liveLaunches(unread) = {}
          /\ applying' =
                IF \E l \in unread : Running(l) THEN "blind" ELSE "clear"
    /\ UNCHANGED <<start, starting, runsStartingAnalysis, processVars,
                   recordVars, stopVars, history>>

(* The finally clause of gate.applying: the edit was refused, failed or     *)
(* landed.                                                                  *)
endApplying ==
    /\ applying # "no"
    /\ applying' = "no"
    /\ UNCHANGED <<start, starting, runsStartingAnalysis, processVars,
                   recordVars, stopVars, history>>

-----------------------------------------------------------------------------
(* The processes.  A command that ends by an error writes its ending first; *)
(* any process may be killed.                                               *)

recordLaunchEnding(l) ==
    /\ child[l] = "running" /\ l \notin ending
    /\ ending' = ending \cup {l}
    /\ UNCHANGED <<start, gateVars, recordVars, stopVars, history, holder,
                   child>>

ProcessEnds(l) ==
    /\ child[l] = "running"
    /\ child' = [child EXCEPT ![l] = "ended"]
    /\ holder' = [holder EXCEPT ![pidOf[l]] = Nobody]
    /\ UNCHANGED <<start, gateVars, recordVars, stopVars, history, ending>>

ForeignStarts(p) ==
    /\ holder[p] = Nobody
    /\ holder' = [holder EXCEPT ![p] = Foreign]
    /\ UNCHANGED <<start, gateVars, recordVars, stopVars, history, child,
                   ending>>

ForeignEnds(p) ==
    /\ holder[p] = Foreign
    /\ holder' = [holder EXCEPT ![p] = Nobody]
    /\ UNCHANGED <<start, gateVars, recordVars, stopVars, history, child,
                   ending>>

(* The server dies with the requests it was serving and starts again; its   *)
(* launches run on (process-launcher.ts).                                   *)
Restart ==
    /\ restarts < MaxRestarts
    /\ restarts' = restarts + 1
    /\ UNCHANGED overlooked
    /\ start' = [l \in Launches |->
                    IF start[l] \in InStart THEN "lost" ELSE start[l]]
    /\ stop' = [l \in Launches |-> "idle"]
    /\ starting' = {} /\ applying' = "no" /\ runsStartingAnalysis' = {}
    /\ UNCHANGED <<processVars, recordVars, stopped>>

-----------------------------------------------------------------------------
StartLaunch(l) ==
    \/ planLaunch(l) \/ refusePlan(l) \/ launch(l) \/ readStartedAt(l)
    \/ writeLaunchRecord(l) \/ failLaunch(l)

StopLaunch(l) ==
    runningLaunch(l) \/ recordStop(l) \/ failStop(l) \/ signalStop(l)

Processes ==
    \/ \E l \in Launches : recordLaunchEnding(l) \/ ProcessEnds(l)
    \/ \E p \in Pids : ForeignStarts(p) \/ ForeignEnds(p)

ServerStep ==
    \/ \E l \in Launches :
          \/ executeLaunch(l) \/ refuseLaunch(l)
          \/ StartLaunch(l) \/ StopLaunch(l)
    \/ Processes
    \/ Restart

Edit == beginApplying \/ passLiveLaunches \/ endApplying

NextLaunch == ServerStep \/ Edit

LaunchSpec == InitLaunches /\ [][NextLaunch]_launchVars

-----------------------------------------------------------------------------
(* src/server/corpus-edit-gate.ts: "no edit lands between a launch's start  *)
(* and its record".  The gate as the edits rely on it: once an edit is past *)
(* its check no launch is starting, and no process of a recorded launch is  *)
(* alive, also one that an earlier server recorded, unless its record did   *)
(* not read at the check: corpus-edit-source.ts, "A record that does not    *)
(* read refuses nothing".  A launch whose record could not be written, or   *)
(* whose server died before the write, is not seen.                         *)
Gate == INSTANCE EditGate WITH
    launching <- starting # {},
    alive <- \E l \in recorded : child[l] = "running"

ImplementsGate == Gate!GateSpec

(* Nothing else holds the gate: it counts the starts that are under way and *)
(* no other, however a start ended, so that no edit and no analysis is      *)
(* refused for ever (the finally clauses of CorpusEditGate and              *)
(* startSoleAnalysisOf).                                                    *)
GateCountsStarts ==
    /\ starting = {l \in Launches : start[l] \in InStart}
    /\ runsStartingAnalysis = starting \cap Analyses

(* src/server/launches-start-sole-analysis-of.ts: two requests arriving     *)
(* together must not "start two paid calls".  Two analyses that the server  *)
(* starts or has recorded are alive together only if one was planned while  *)
(* the record of the other, already running, did not read:                  *)
(* launches-analysis-launch.ts, "A record that does not read refuses        *)
(* nothing".                                                                *)
SoleAnalysis ==
    \A a, b \in Analyses :
        /\ start[a] \in Spawned /\ child[a] = "running"
        /\ start[b] \in Spawned /\ child[b] = "running"
        => a = b \/ <<a, b>> \in overlooked \/ <<b, a>> \in overlooked

(* docs/reference.md: "A launch the operator stopped reads OPERATOR_STOPPED *)
(* whatever its ending says".  A launch whose stop was answered reads so    *)
(* from the end of its process on, whatever it wrote and whoever restarted  *)
(* the server, as long as no other process has its pid; where its record    *)
(* does not read it is listed as unreadable (listedLaunch).                 *)
StopWins ==
    \A l \in stopped : \A unread \in SUBSET Launches :
        child[l] = "ended" /\ ~isAlive(l) =>
            listedLaunch(l, unread) =
                IF l \in unread THEN "unreadable" ELSE "stopped"
=============================================================================
