---------------------------- MODULE CorpusStore -----------------------------
(***************************************************************************)
(* The corpus version store (corpus-version.ts, corpus-version-storage.ts, *)
(* corpus-version-log.ts).  Processes measure one corpus source at the     *)
(* same time while its files are edited.  A measurement lists the files,   *)
(* stores each body, writes the version's manifest and then adds the       *)
(* version to the source's log, unless the latest entry already is that    *)
(* version.                                                                *)
(*                                                                         *)
(* A sha256 is taken to name one content, so a body stands for its own     *)
(* hash and a version for its own digest: the function from every path to  *)
(* the body there, Absent where the version has no file.  Temporary files  *)
(* are private to their writer until they are renamed or linked, and no    *)
(* reader takes their names for a number, so they are left out; a blob or  *)
(* a manifest appears whole.                                               *)
(***************************************************************************)
EXTENDS Naturals, Sequences, FiniteSets

CONSTANTS
    Measurements,  \* the calls of measureCorpusVersion
    Paths,         \* the paths of the layout
    Bodies,        \* the contents of files
    Absent,        \* where there is no file
    Pending, Gone, \* what VersionLog says of a measurement
    MaxEdits,      \* how often the source is edited
    MaxRemovals    \* how many log entries someone deletes

Version == [Paths -> Bodies \cup {Absent}]

ASSUME StoreAssumption ==
    /\ Absent \notin Bodies
    /\ Pending \notin Version
    /\ Gone \notin Version
    /\ MaxEdits \in Nat
    /\ MaxRemovals \in Nat

VARIABLES
    trees,     \* the states the source has been in, the current one last
    blobs,     \* blobs/<sha256>
    versions,  \* versions/<digest>.json
    log,       \* logs/<source>/<n>, a function on the positions present
    removals,  \* the log entries deleted so far
    pc,        \* where each measurement is
    todo,      \* the paths it has still to list or to store
    listed,    \* the paths hashCorpusLayout listed
    files,     \* the bodies it stored, its version once it stored them all
    names,     \* the positions it has still to read of the log it listed
    latest     \* the last entry it read, at position 0 before the first

store == <<blobs, versions>>
local == <<todo, listed, files>>
snapshot == <<names, latest>>
storeVars == <<trees, store, log, removals, pc, local, snapshot>>

Steps == {"layout", "store", "append", "read", "cleanup"}
Ended == {"done", "refused", "failed"}

None == [p \in Paths |-> Absent]
NoEntry == [position |-> 0, digest |-> None]

Positions == DOMAIN log
tree == trees[Len(trees)]

StoreTypeOK ==
    /\ trees \in Seq(Version) /\ Len(trees) > 0
    /\ blobs \subseteq Bodies
    /\ versions \subseteq Version
    /\ Positions \subseteq Nat \ {0}
    /\ \A n \in Positions : log[n] \in Version
    /\ removals \in 0..MaxRemovals
    /\ pc \in [Measurements -> Steps \cup Ended]
    /\ todo \in [Measurements -> SUBSET Paths]
    /\ listed \in [Measurements -> SUBSET Paths]
    /\ files \in [Measurements -> Version]
    /\ names \in [Measurements -> SUBSET (Nat \ {0})]
    /\ latest \in [Measurements -> [position : Nat, digest : Version]]

InitStore ==
    /\ \E t \in Version : trees = <<t>>
    /\ blobs = {}
    /\ versions = {}
    /\ log = <<>>
    /\ removals = 0
    /\ pc = [m \in Measurements |-> "layout"]
    /\ todo = [m \in Measurements |-> Paths]
    /\ listed = [m \in Measurements |-> {}]
    /\ files = [m \in Measurements |-> None]
    /\ names = [m \in Measurements |-> {}]
    /\ latest = [m \in Measurements |-> NoEntry]

Goto(m, step) == pc' = [pc EXCEPT ![m] = step]

-----------------------------------------------------------------------------
(* The source is edited one file at a time, by an editor or an agent that   *)
(* takes no part in this protocol.                                          *)
EditSource ==
    /\ Len(trees) <= MaxEdits
    /\ \E p \in Paths, b \in Bodies \cup {Absent} :
          /\ tree[p] # b
          /\ trees' = Append(trees, [tree EXCEPT ![p] = b])
    /\ UNCHANGED <<store, log, removals, pc, local, snapshot>>

(* Someone deletes an entry of the log.                                     *)
RemoveEntry ==
    /\ removals < MaxRemovals
    /\ \E n \in Positions : log' = [k \in Positions \ {n} |-> log[k]]
    /\ removals' = removals + 1
    /\ UNCHANGED <<trees, store, pc, local, snapshot>>

-----------------------------------------------------------------------------
(* hashCorpusLayout looks at the files one after the other; only the paths  *)
(* it lists and its refusals are used.                                      *)
hashCorpusLayout(m) ==
    /\ pc[m] = "layout"
    /\ \E p \in todo[m] :
          /\ todo' = [todo EXCEPT ![m] = @ \ {p}]
          /\ listed' = [listed EXCEPT ![m] = IF tree[p] = Absent THEN @
                                             ELSE @ \cup {p}]
    /\ UNCHANGED <<trees, store, log, removals, pc, files, snapshot>>

Refuse(m) ==
    /\ pc[m] = "layout"
    /\ Goto(m, "refused")
    /\ UNCHANGED <<trees, store, log, removals, local, snapshot>>

StartStoring(m) ==
    /\ pc[m] = "layout"
    /\ todo[m] = {}
    /\ todo' = [todo EXCEPT ![m] = listed[m]]
    /\ Goto(m, "store")
    /\ UNCHANGED <<trees, store, log, removals, listed, files, snapshot>>

(* One file of storeFiles: the body is read again, hashed and kept.  A file *)
(* that is gone by then makes the measurement fail.                         *)
storeFile(m) ==
    /\ pc[m] = "store"
    /\ \E p \in todo[m] :
          /\ tree[p] # Absent
          /\ todo' = [todo EXCEPT ![m] = @ \ {p}]
          /\ files' = [files EXCEPT ![m][p] = tree[p]]
          /\ blobs' = blobs \cup {tree[p]}
    /\ UNCHANGED <<trees, versions, log, removals, pc, listed, snapshot>>

(* Mutant: the manifest is written once the entry is in the log, which is   *)
(* never when the process is killed before.                                 *)
writeVersion_Late(m) ==
    /\ pc[m] = "store"
    /\ todo[m] = {}
    /\ Goto(m, "append")
    /\ UNCHANGED <<trees, store, log, removals, local, snapshot>>

writeVersion(m) ==
    /\ pc[m] = "store"
    /\ todo[m] = {}
    /\ versions' = versions \cup {files[m]}
    /\ Goto(m, "append")
    /\ UNCHANGED <<trees, blobs, log, removals, local, snapshot>>

-----------------------------------------------------------------------------
(* appendToLog.  readLog lists the directory and then reads the entries in  *)
(* ascending order; an entry gone by then is left out.                      *)
listLog(m) ==
    /\ pc[m] = "append"
    /\ names' = [names EXCEPT ![m] = Positions]
    /\ latest' = [latest EXCEPT ![m] = NoEntry]
    /\ Goto(m, "read")
    /\ UNCHANGED <<trees, store, log, removals, local>>

readEntry(m) ==
    /\ pc[m] = "read"
    /\ \E n \in names[m] :
          /\ \A k \in names[m] : n <= k
          /\ names' = [names EXCEPT ![m] = @ \ {n}]
          /\ latest' = [latest EXCEPT ![m] =
                          IF n \in Positions
                          THEN [position |-> n, digest |-> log[n]] ELSE @]
    /\ UNCHANGED <<trees, store, log, removals, pc, local>>

ReadWhole(m) == pc[m] = "read" /\ names[m] = {}

IsLatestRead(m) == latest[m].position > 0 /\ latest[m].digest = files[m]

foundLatest(m) ==
    /\ ReadWhole(m)
    /\ IsLatestRead(m)
    /\ Goto(m, "cleanup")
    /\ UNCHANGED <<trees, store, log, removals, local, snapshot>>

(* Mutant: the next position follows the number of entries.                 *)
nextPosition_Count(m) == Cardinality(Positions) + 1

nextPosition(m) == latest[m].position + 1

(* claimLogEntry: an exclusive link of a file that holds the digest.        *)
claimLogEntry(m) ==
    /\ ReadWhole(m)
    /\ ~IsLatestRead(m)
    /\ nextPosition(m) \notin Positions
    /\ log' = [n \in Positions \cup {nextPosition(m)} |->
                 IF n = nextPosition(m) THEN files[m] ELSE log[n]]
    /\ Goto(m, "cleanup")
    /\ UNCHANGED <<trees, store, removals, local, snapshot>>

(* Mutant: a writer that lost a position tries the next one without reading *)
(* the entry that took it.                                                  *)
loseRace_NoReread(m) ==
    /\ ReadWhole(m)
    /\ ~IsLatestRead(m)
    /\ nextPosition(m) \in Positions
    /\ latest' = [latest EXCEPT ![m].position = @ + 1]
    /\ UNCHANGED <<trees, store, log, removals, pc, local, names>>

loseRace(m) ==
    /\ ReadWhole(m)
    /\ ~IsLatestRead(m)
    /\ nextPosition(m) \in Positions
    /\ Goto(m, "append")
    /\ UNCHANGED <<trees, store, log, removals, local, snapshot>>

(* The temporary file is removed and the measurement answers its version.   *)
Answer(m) ==
    /\ pc[m] = "cleanup"
    /\ Goto(m, "done")
    /\ UNCHANGED <<trees, store, log, removals, local, snapshot>>

(* A read or write fails, or the process is killed.                         *)
Fail(m) ==
    /\ pc[m] \in Steps
    /\ Goto(m, "failed")
    /\ UNCHANGED <<trees, store, log, removals, local, snapshot>>

Progress(m) ==
    \/ hashCorpusLayout(m) \/ StartStoring(m) \/ storeFile(m)
    \/ writeVersion(m) \/ listLog(m) \/ readEntry(m) \/ foundLatest(m)
    \/ claimLogEntry(m) \/ loseRace(m) \/ Answer(m)

NextStore ==
    \/ EditSource
    \/ RemoveEntry
    \/ \E m \in Measurements : Progress(m) \/ Refuse(m) \/ Fail(m)

StoreSpec == InitStore /\ [][NextStore]_storeVars

(* The file system answers every call, and a file that is gone makes the    *)
(* measurement fail.                                                        *)
FairStoreSpec ==
    StoreSpec /\ \A m \in Measurements : WF_storeVars(Progress(m) \/ Fail(m))

-----------------------------------------------------------------------------
(* A measurement takes effect when it lists a log whose latest entry is its *)
(* version, or when its link succeeds.                                      *)
TookEffect(m) ==
    \/ pc[m] \in {"cleanup", "done"}
    \/ /\ pc[m] = "read"
       /\ \E n \in names[m] : 
             /\ n \in Positions
             /\ \A k \in names[m] : k <= n
             /\ log[n] = files[m]
    \/ ReadWhole(m) /\ IsLatestRead(m)

resultOf ==
    [m \in Measurements |->
       IF pc[m] \in {"refused", "failed"} THEN Gone
       ELSE IF TookEffect(m) THEN files[m] ELSE Pending]

Abstract == INSTANCE VersionLog WITH entries <- log, result <- resultOf

(* docs/design.md: "a writer that loses the race re-reads the log, so two   *)
(* measurements of one new state add one entry".  However measurements and  *)
(* edits interleave and whichever of them die, the log is the one of        *)
(* measurements that each act at one moment, until someone deletes an entry *)
(* (appendToLog).                                                           *)
MeasuredAtOnce ==
    /\ Abstract!InitLog
    /\ [][removals' = 0 => Abstract!NextLog]_(Abstract!logVars)

(* docs/design.md: the store is authoritative.  A version of the log can be *)
(* read whatever died after it was added: its manifest is there, and so is  *)
(* the body of every file the manifest names (measureCorpusVersion).        *)
LoggedIsKept ==
    /\ \A n \in Positions : log[n] \in versions
    /\ \A v \in versions : \A p \in Paths : v[p] = Absent \/ v[p] \in blobs

(* docs/design.md: "a missing entry cannot stall later writers".  Every     *)
(* measurement ends, though it may lose the race for a position and though  *)
(* entries are deleted (appendToLog).                                       *)
MeasurementEnds == \A m \in Measurements : <>(pc[m] \in Ended)
=============================================================================
