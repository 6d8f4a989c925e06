------------------------- MODULE CorpusStoreProofs --------------------------
(***************************************************************************)
(* Proofs about CorpusStore, for any number of measurements, paths, bodies *)
(* and edits.                                                              *)
(***************************************************************************)
EXTENDS CorpusStore, TLAPS

(* Every kind of step, for the steps that leave something alone.            *)
LEMMA StoreSteps ==
    ASSUME [NextStore]_storeVars
    PROVE  \/ EditSource
           \/ RemoveEntry
           \/ \E m \in Measurements :
                \/ hashCorpusLayout(m) \/ StartStoring(m) \/ storeFile(m)
                \/ writeVersion(m) \/ listLog(m) \/ readEntry(m)
                \/ foundLatest(m) \/ claimLogEntry(m) \/ loseRace(m)
                \/ Answer(m) \/ Refuse(m) \/ Fail(m)
           \/ UNCHANGED storeVars
  BY DEF NextStore, Progress

LEMMA NoneIsVersion == None \in Version
  BY DEF None, Version

LEMMA TypeInit == InitStore => StoreTypeOK
  BY NoneIsVersion, StoreAssumption
     DEF InitStore, StoreTypeOK, Steps, Ended, NoEntry, Positions

LEMMA TypeStep == StoreTypeOK /\ [NextStore]_storeVars => StoreTypeOK'
<1> SUFFICES ASSUME StoreTypeOK, [NextStore]_storeVars
             PROVE  StoreTypeOK'
  OBVIOUS
<1> USE NoneIsVersion, StoreAssumption
<1>1. tree \in Version
  BY DEF StoreTypeOK, tree
<1>2. CASE EditSource
  <2>1. PICK p \in Paths, b \in Bodies \cup {Absent} :
          trees' = Append(trees, [tree EXCEPT ![p] = b])
    BY <1>2 DEF EditSource
  <2>2. [tree EXCEPT ![p] = b] \in Version
    BY <1>1 DEF Version
  <2> HIDE NoneIsVersion
  <2>3. trees' \in Seq(Version) /\ Len(trees') > 0
    BY <2>1, <2>2 DEF StoreTypeOK
  <2> QED
    BY <1>2, <2>3 DEF EditSource, StoreTypeOK, store, local, snapshot, Positions
<1>3. CASE RemoveEntry
  BY <1>3 DEF RemoveEntry, StoreTypeOK, store, local, snapshot, Positions
<1>4. ASSUME NEW m \in Measurements,
             \/ hashCorpusLayout(m) \/ StartStoring(m) \/ storeFile(m)
             \/ writeVersion(m) \/ listLog(m) \/ readEntry(m)
             \/ foundLatest(m) \/ claimLogEntry(m) \/ loseRace(m)
             \/ Answer(m) \/ Refuse(m) \/ Fail(m)
      PROVE  StoreTypeOK'
  <2> USE DEF StoreTypeOK, store, local, snapshot, Positions, Goto, Steps, Ended
  <2>1. CASE hashCorpusLayout(m)
    BY <2>1 DEF hashCorpusLayout
  <2>2. CASE StartStoring(m)
    BY <2>2 DEF StartStoring
  <2>3. CASE storeFile(m)
    <3>1. PICK p \in todo[m] :
            /\ tree[p] # Absent
            /\ todo' = [todo EXCEPT ![m] = @ \ {p}]
            /\ files' = [files EXCEPT ![m][p] = tree[p]]
            /\ blobs' = blobs \cup {tree[p]}
      BY <2>3 DEF storeFile
    <3>2. p \in Paths /\ tree[p] \in Bodies
      BY <1>1, <3>1 DEF Version
    <3>3. files' \in [Measurements -> Version]
      BY <3>1, <3>2 DEF Version
    <3> QED
      BY <2>3, <3>1, <3>2, <3>3 DEF storeFile
  <2>4. CASE writeVersion(m)
    BY <2>4 DEF writeVersion
  <2>5. CASE listLog(m)
    BY <2>5 DEF listLog, NoEntry
  <2>6. CASE readEntry(m)
    BY <2>6 DEF readEntry
  <2>7. CASE foundLatest(m) \/ loseRace(m) \/ Answer(m) \/ Refuse(m) \/ Fail(m)
    BY <2>7 DEF foundLatest, loseRace, Answer, Refuse, Fail
  <2>8. CASE claimLogEntry(m)
    <3>1. nextPosition(m) \in Nat \ {0}
      BY DEF nextPosition
    <3> QED
      BY <2>8, <3>1 DEF claimLogEntry
  <2> QED
    BY <1>4, <2>1, <2>2, <2>3, <2>4, <2>5, <2>6, <2>7, <2>8
<1>5. CASE UNCHANGED storeVars
  BY <1>5 DEF storeVars, StoreTypeOK, store, local, snapshot, Positions
<1> QED
  BY <1>2, <1>3, <1>4, <1>5, StoreSteps

(* Type correctness of the store, its log and the measurements.             *)
THEOREM StoreType == StoreSpec => []StoreTypeOK
  BY TypeInit, TypeStep, PTL DEF StoreSpec

-----------------------------------------------------------------------------
(* A measurement holds only bodies it stored, and only a version whose      *)
(* manifest it wrote reaches the log.                                       *)
KeptInv ==
    /\ LoggedIsKept
    /\ \A m \in Measurements, p \in Paths :
          files[m][p] = Absent \/ files[m][p] \in blobs
    /\ \A m \in Measurements :
          pc[m] \in {"append", "read"} => files[m] \in versions

LEMMA KeptStep ==
    StoreTypeOK /\ KeptInv /\ [NextStore]_storeVars => KeptInv'
<1> SUFFICES ASSUME StoreTypeOK, KeptInv, [NextStore]_storeVars
             PROVE  KeptInv'
  OBVIOUS
<1> USE DEF KeptInv, LoggedIsKept, Positions, store, local, snapshot
<1>1. CASE EditSource \/ RemoveEntry
  BY <1>1 DEF EditSource, RemoveEntry
<1>2. ASSUME NEW m \in Measurements,
             \/ hashCorpusLayout(m) \/ StartStoring(m) \/ storeFile(m)
             \/ writeVersion(m) \/ listLog(m) \/ readEntry(m)
             \/ foundLatest(m) \/ claimLogEntry(m) \/ loseRace(m)
             \/ Answer(m) \/ Refuse(m) \/ Fail(m)
      PROVE  KeptInv'
  <2> USE DEF StoreTypeOK, Goto
  <2>1. CASE hashCorpusLayout(m) \/ readEntry(m)
    BY <2>1 DEF hashCorpusLayout, readEntry
  <2>2. CASE StartStoring(m) \/ listLog(m) \/ foundLatest(m) \/ loseRace(m)
               \/ Answer(m) \/ Refuse(m) \/ Fail(m)
    BY <2>2 DEF StartStoring, listLog, foundLatest, loseRace, Answer, Refuse,
                Fail, ReadWhole
  <2>3. CASE storeFile(m)
    <3>1. PICK p \in todo[m] :
            /\ files' = [files EXCEPT ![m][p] = tree[p]]
            /\ blobs' = blobs \cup {tree[p]}
      BY <2>3 DEF storeFile
    <3>2. \A k \in Measurements : k # m => files'[k] = files[k]
      BY <3>1
    <3>3. \A q \in Paths : files'[m][q] = IF q = p THEN tree[p] ELSE files[m][q]
      BY <3>1 DEF Version
    <3>4. \A k \in Measurements, q \in Paths :
            files'[k][q] = Absent \/ files'[k][q] \in blobs'
      BY <3>1, <3>2, <3>3
    <3>5. \A k \in Measurements :
            pc'[k] \in {"append", "read"} => files'[k] \in versions'
      BY <2>3, <3>2 DEF storeFile
    <3>6. LoggedIsKept'
      BY <2>3, <3>1 DEF storeFile
    <3> QED
      BY <3>4, <3>5, <3>6
  <2>4. CASE writeVersion(m)
    BY <2>4 DEF writeVersion
  <2>5. CASE claimLogEntry(m)
    BY <2>5 DEF claimLogEntry, ReadWhole
  <2> QED
    BY <1>2, <2>1, <2>2, <2>3, <2>4, <2>5
<1>3. CASE UNCHANGED storeVars
  BY <1>3 DEF storeVars
<1> QED
  BY <1>1, <1>2, <1>3, StoreSteps

(* A version of the log can be read back whatever died since it was added   *)
(* (measureCorpusVersion, storeFiles).                                      *)
THEOREM StoreKeepsLogged == StoreSpec => []LoggedIsKept
<1>1. InitStore => KeptInv
  BY DEF InitStore, KeptInv, LoggedIsKept, Positions, None
<1> QED
  BY <1>1, KeptStep, StoreType, PTL DEF StoreSpec, KeptInv

-----------------------------------------------------------------------------
(* While no entry is deleted the log is a sequence, and what a measurement  *)
(* has read of it is still there.                                           *)
LogInv ==
    /\ log \in Seq(Version)
    /\ \A m \in Measurements :
          /\ names[m] \subseteq 1..Len(log)
          /\ latest[m].position > 0 =>
                /\ latest[m].position <= Len(log)
                /\ latest[m].digest = log[latest[m].position]

(* The exclusive link adds to the end of the log.                           *)
LEMMA LinkAppends ==
    ASSUME StoreTypeOK, LogInv, NEW m \in Measurements, claimLogEntry(m)
    PROVE  /\ log' = Append(log, files[m])
           /\ Len(log') = Len(log) + 1
           /\ \A n \in Positions : n \in Positions' /\ log'[n] = log[n]
           /\ ~(Len(log) > 0 /\ log[Len(log)] = files[m])
<1>1. /\ Len(log) \in Nat
      /\ Positions = 1..Len(log)
      /\ files[m] \in Version
      /\ latest[m].position \in 0..Len(log)
  BY DEF LogInv, Positions, StoreTypeOK
<1>2. latest[m].position = Len(log)
  BY <1>1 DEF claimLogEntry, nextPosition
<1>3. log' = [n \in 1..(Len(log) + 1) |->
                IF n = Len(log) + 1 THEN files[m] ELSE log[n]]
  <2>1. (1..Len(log)) \cup {Len(log) + 1} = 1..(Len(log) + 1)
    BY <1>1
  <2> QED
    BY <1>1, <1>2, <2>1, Zenon DEF claimLogEntry, nextPosition
<1>4. log' = Append(log, files[m])
  BY <1>1, <1>3 DEF LogInv
<1> QED
  BY <1>1, <1>2, <1>4 DEF LogInv, claimLogEntry, IsLatestRead, Positions

(* A deletion is remembered.                                                *)
LEMMA StillUndeleted ==
    ASSUME StoreTypeOK, [NextStore]_storeVars, removals' = 0
    PROVE  removals = 0
<1> USE DEF store, local, snapshot
<1>1. CASE RemoveEntry
  BY <1>1 DEF RemoveEntry, StoreTypeOK
<1> QED
  BY <1>1, StoreSteps
     DEF EditSource, hashCorpusLayout, StartStoring, storeFile, writeVersion,
         listLog, readEntry, foundLatest, claimLogEntry, loseRace, Answer,
         Refuse, Fail, storeVars

LEMMA LogStep ==
    ASSUME removals' = 0, StoreTypeOK, LogInv, [NextStore]_storeVars
    PROVE  LogInv'
<1> USE DEF LogInv, store, local, snapshot
<1>1. CASE EditSource
  BY <1>1 DEF EditSource
<1>2. CASE RemoveEntry
  BY <1>2 DEF RemoveEntry, StoreTypeOK
<1>3. ASSUME NEW m \in Measurements,
             \/ hashCorpusLayout(m) \/ StartStoring(m) \/ storeFile(m)
             \/ writeVersion(m) \/ listLog(m) \/ readEntry(m)
             \/ foundLatest(m) \/ claimLogEntry(m) \/ loseRace(m)
             \/ Answer(m) \/ Refuse(m) \/ Fail(m)
      PROVE  LogInv'
  <2>1. CASE hashCorpusLayout(m) \/ StartStoring(m) \/ storeFile(m)
               \/ writeVersion(m) \/ foundLatest(m) \/ loseRace(m)
               \/ Answer(m) \/ Refuse(m) \/ Fail(m)
    BY <2>1 DEF hashCorpusLayout, StartStoring, storeFile, writeVersion,
                foundLatest, loseRace, Answer, Refuse, Fail
  <2>2. CASE listLog(m)
    BY <2>2 DEF listLog, NoEntry, StoreTypeOK, Positions
  <2>3. CASE readEntry(m)
    BY <2>3 DEF readEntry, StoreTypeOK, Positions
  <2>4. CASE claimLogEntry(m)
    <3>1. names' = names /\ latest' = latest /\ files[m] \in Version
      BY <2>4 DEF claimLogEntry, StoreTypeOK
    <3>2. latest \in [Measurements -> [position : Nat, digest : Version]]
      BY DEF StoreTypeOK
    <3>3. Len(log) \in Nat /\ log' \in Seq(Version)
      BY <2>4, <3>1, LinkAppends
    <3>4. /\ Len(log') = Len(log) + 1
          /\ \A n \in 1..Len(log) : log'[n] = log[n]
      BY <2>4, LinkAppends DEF Positions
    <3>5. ASSUME NEW k \in Measurements
          PROVE  /\ names[k] \subseteq 1..Len(log')
                 /\ latest[k].position > 0 =>
                      /\ latest[k].position <= Len(log')
                      /\ latest[k].digest = log'[latest[k].position]
      BY <3>2, <3>3, <3>4
    <3> QED
      BY <3>1, <3>3, <3>5
  <2> QED
    BY <1>3, <2>1, <2>2, <2>3, <2>4
<1>4. CASE UNCHANGED storeVars
  BY <1>4 DEF storeVars
<1> QED
  BY <1>1, <1>2, <1>3, <1>4, StoreSteps

-----------------------------------------------------------------------------
(* What one measurement answers, so that a step of another is seen to leave *)
(* it alone.                                                                *)
resultFor(m) ==
    IF pc[m] \in {"refused", "failed"} THEN Gone
    ELSE IF TookEffect(m) THEN files[m] ELSE Pending

LEMMA ResultIsFor == resultOf = [m \in Measurements |-> resultFor(m)]
  BY DEF resultOf, resultFor

LEMMA OthersKeepResult ==
    ASSUME LogInv, NEW k \in Measurements,
           pc'[k] = pc[k], files'[k] = files[k], names'[k] = names[k],
           latest'[k] = latest[k],
           \A n \in Positions : n \in Positions' /\ log'[n] = log[n]
    PROVE  resultFor(k)' = resultFor(k)
<1>1. \A n \in names[k] :
        n \in Positions /\ n \in Positions' /\ log'[n] = log[n]
  BY DEF LogInv, Positions
<1> QED
  BY <1>1 DEF resultFor, TookEffect, ReadWhole, IsLatestRead

(* A step of a measurement that leaves the log alone, and what it answers,  *)
(* is no step of VersionLog.                                                *)
LEMMA SilentStep ==
    ASSUME LogInv, log' = log, NEW m \in Measurements,
           \A k \in Measurements : k # m =>
             /\ pc'[k] = pc[k] /\ files'[k] = files[k]
             /\ names'[k] = names[k] /\ latest'[k] = latest[k],
           resultFor(m)' = resultFor(m)
    PROVE  UNCHANGED <<log, resultOf>>
<1>1. \A k \in Measurements : resultFor(k)' = resultFor(k)
  BY OthersKeepResult DEF Positions
<1>2. resultOf' = [k \in Measurements |-> resultFor(k)']
  BY ResultIsFor DEF resultOf, resultFor
<1> QED
  BY <1>1, <1>2, ResultIsFor

(* A step that makes a measurement answer r changes nothing else of what    *)
(* VersionLog sees but the log.                                             *)
LEMMA ResultStep ==
    ASSUME LogInv, NEW m \in Measurements,
           \A n \in Positions : n \in Positions' /\ log'[n] = log[n],
           \A k \in Measurements : k # m =>
             /\ pc'[k] = pc[k] /\ files'[k] = files[k]
             /\ names'[k] = names[k] /\ latest'[k] = latest[k]
    PROVE  resultOf' = [resultOf EXCEPT ![m] = resultFor(m)']
<1>1. \A k \in Measurements : k # m => resultFor(k)' = resultFor(k)
  BY OthersKeepResult
<1>2. resultOf' = [k \in Measurements |-> resultFor(k)']
  BY DEF resultOf, resultFor
<1> QED
  BY <1>1, <1>2, ResultIsFor, Zenon

LEMMA RefinementStep ==
    ASSUME removals' = 0, StoreTypeOK, LogInv, [NextStore]_storeVars
    PROVE  [Abstract!NextLog]_(Abstract!logVars)
<1> USE DEF store, local, snapshot
<1> SUFFICES ASSUME ~UNCHANGED <<log, resultOf>>
             PROVE  Abstract!NextLog
  BY DEF Abstract!logVars
<1>1. CASE EditSource
  BY <1>1 DEF EditSource, resultOf, TookEffect, ReadWhole, IsLatestRead,
              Positions
<1>2. CASE RemoveEntry
  BY <1>2 DEF RemoveEntry, StoreTypeOK
<1>3. ASSUME NEW m \in Measurements,
             \/ hashCorpusLayout(m) \/ StartStoring(m) \/ storeFile(m)
             \/ writeVersion(m) \/ listLog(m) \/ readEntry(m)
             \/ foundLatest(m) \/ claimLogEntry(m) \/ loseRace(m)
             \/ Answer(m) \/ Refuse(m) \/ Fail(m)
      PROVE  Abstract!NextLog
  <2>1. \A k \in Measurements : k # m =>
             /\ pc'[k] = pc[k] /\ files'[k] = files[k]
             /\ names'[k] = names[k] /\ latest'[k] = latest[k]
    BY <1>3 DEF StoreTypeOK, Goto, hashCorpusLayout, StartStoring, storeFile,
                writeVersion, listLog, readEntry, foundLatest, claimLogEntry,
                loseRace, Answer, Refuse, Fail
  <2>2. CASE hashCorpusLayout(m) \/ StartStoring(m) \/ storeFile(m)
               \/ writeVersion(m)
    <3>1. log' = log /\ resultFor(m)' = resultFor(m)
      BY <2>2 DEF StoreTypeOK, Goto, hashCorpusLayout, StartStoring, storeFile,
                  writeVersion, resultFor, TookEffect, ReadWhole
    <3> QED
      BY <2>1, <3>1, SilentStep
  <2>3. CASE foundLatest(m) \/ loseRace(m) \/ Answer(m)
    <3>1. log' = log /\ resultFor(m)' = resultFor(m)
      BY <2>3 DEF StoreTypeOK, Goto, foundLatest, loseRace, Answer,
                  resultFor, TookEffect, ReadWhole, IsLatestRead
    <3> QED
      BY <2>1, <3>1, SilentStep
  <2>4. CASE readEntry(m)
    <3>1. PICK n \in names[m] :
            /\ \A k \in names[m] : n <= k
            /\ names' = [names EXCEPT ![m] = @ \ {n}]
            /\ latest' = [latest EXCEPT ![m] =
                            IF n \in Positions
                            THEN [position |-> n, digest |-> log[n]] ELSE @]
      BY <2>4 DEF readEntry
    <3>2. /\ n \in Positions /\ n \in Nat \ {0}
          /\ names[m] \subseteq Nat /\ names[m] \subseteq Positions
      BY DEF LogInv, Positions, StoreTypeOK
    <3>3. /\ names'[m] = names[m] \ {n}
          /\ latest'[m] = [position |-> n, digest |-> log[n]]
          /\ log' = log /\ files' = files /\ pc' = pc /\ pc[m] = "read"
      BY <2>4, <3>1, <3>2 DEF readEntry, StoreTypeOK
    <3>4. TookEffect(m) <=>
            \E x \in names[m] :
              (\A k \in names[m] : k <= x) /\ log[x] = files[m]
      BY <3>2, <3>3 DEF TookEffect, ReadWhole
    <3>5. CASE names[m] = {n}
      <4>1. TookEffect(m) <=> log[n] = files[m]
        BY <3>2, <3>4, <3>5
      <4>2. TookEffect(m)' <=> log[n] = files[m]
        BY <3>2, <3>3, <3>5 DEF TookEffect, ReadWhole, IsLatestRead
      <4>3. resultFor(m)' = resultFor(m)
        BY <3>3, <4>1, <4>2 DEF resultFor
      <4> QED
        BY <2>1, <3>3, <4>3, SilentStep
    <3>6. CASE names[m] # {n}
      <4>1. PICK y \in names[m] : y # n
        BY <3>1, <3>6
      <4>2. TookEffect(m)' <=>
              \E x \in names[m] \ {n} :
                (\A k \in names[m] \ {n} : k <= x) /\ log[x] = files[m]
        BY <3>2, <3>3, <4>1 DEF TookEffect, ReadWhole, Positions
      <4>3. TookEffect(m)' <=> TookEffect(m)
        BY <3>1, <3>2, <3>4, <4>1, <4>2
      <4>4. resultFor(m)' = resultFor(m)
        BY <3>3, <4>3 DEF resultFor
      <4> QED
        BY <2>1, <3>3, <4>4, SilentStep
    <3> QED
      BY <3>5, <3>6
  <2>5. CASE listLog(m)
    <3>1. /\ log' = log /\ files' = files
          /\ names'[m] = 1..Len(log) /\ pc[m] = "append" /\ pc'[m] = "read"
          /\ latest'[m].position = 0 /\ Len(log) \in Nat
          /\ files[m] \in Version
      BY <2>5 DEF listLog, Goto, NoEntry, StoreTypeOK, LogInv, Positions
    <3>2. resultFor(m) = Pending
      BY <3>1 DEF resultFor, TookEffect, ReadWhole
    <3>3. CASE TookEffect(m)'
      <4>1. \E x \in 1..Len(log) :
              (\A k \in 1..Len(log) : k <= x) /\ log[x] = files[m]
        BY <3>1, <3>3 DEF TookEffect, ReadWhole, IsLatestRead
      <4>2. Len(log) > 0 /\ log[Len(log)] = files[m]
        BY <3>1, <4>1
      <4>3. resultFor(m)' = files[m]
        BY <3>1, <3>3 DEF resultFor
      <4>4. resultOf' = [resultOf EXCEPT ![m] = files[m]]
        BY <2>1, <3>1, <4>3, ResultStep DEF Positions
      <4>5. resultOf[m] = Pending
        BY <3>2, ResultIsFor
      <4>6. Abstract!TakeEffect(m, files[m])
        BY <3>1, <4>2, <4>4, <4>5 DEF Abstract!TakeEffect, Abstract!IsLatest
      <4> QED
        BY <3>1, <4>6 DEF Abstract!NextLog
    <3>4. CASE ~TookEffect(m)'
      <4>1. resultFor(m)' = resultFor(m)
        BY <3>1, <3>2, <3>4 DEF resultFor
      <4> QED
        BY <2>1, <3>1, <4>1, SilentStep
    <3> QED
      BY <3>3, <3>4
  <2>6. CASE claimLogEntry(m)
    <3>1. /\ pc[m] = "read" /\ names[m] = {} /\ ~IsLatestRead(m)
          /\ files' = files /\ pc'[m] = "cleanup" /\ files[m] \in Version
      BY <2>6 DEF claimLogEntry, ReadWhole, Goto, StoreTypeOK
    <3>2. resultOf[m] = Pending
      BY <3>1, ResultIsFor DEF resultFor, TookEffect, ReadWhole
    <3>3. resultFor(m)' = files[m]
      BY <3>1 DEF resultFor, TookEffect
    <3>4. resultOf' = [resultOf EXCEPT ![m] = files[m]]
      BY <2>1, <2>6, <3>3, LinkAppends, ResultStep
    <3>5. Abstract!TakeEffect(m, files[m])
      BY <2>6, <3>2, <3>4, LinkAppends
         DEF Abstract!TakeEffect, Abstract!IsLatest
    <3> QED
      BY <3>1, <3>5 DEF Abstract!NextLog
  <2>7. CASE Refuse(m) \/ Fail(m)
    <3>1. log' = log /\ resultFor(m)' = Gone
      BY <2>7 DEF Refuse, Fail, Goto, StoreTypeOK, resultFor
    <3>2. resultOf' = [resultOf EXCEPT ![m] = Gone]
      BY <2>1, <3>1, ResultStep DEF Positions
    <3> QED
      BY <3>1, <3>2 DEF Abstract!NextLog, Abstract!GiveUp
  <2> QED
    BY <1>3, <2>2, <2>3, <2>4, <2>5, <2>6, <2>7
<1>4. CASE UNCHANGED storeVars
  BY <1>4 DEF storeVars, resultOf, TookEffect, ReadWhole, IsLatestRead,
              Positions
<1> QED
  BY <1>1, <1>2, <1>3, <1>4, StoreSteps

(* Until someone deletes an entry, the concurrent measurements are those of *)
(* VersionLog, each taking effect at one moment of its call (appendToLog,   *)
(* claimLogEntry).                                                          *)
THEOREM StoreMeasuresAtOnce == StoreSpec => MeasuredAtOnce
<1> DEFINE Inv == removals = 0 => LogInv
<1>1. InitStore => Inv
  BY DEF InitStore, LogInv, NoEntry
<1>2. InitStore => Abstract!InitLog
  BY DEF InitStore, Abstract!InitLog, resultOf, TookEffect, ReadWhole
<1>3. StoreTypeOK /\ Inv /\ [NextStore]_storeVars => Inv'
  BY StillUndeleted, LogStep
<1>4. StoreTypeOK /\ Inv /\ [NextStore]_storeVars =>
        [removals' = 0 => Abstract!NextLog]_(Abstract!logVars)
  BY StillUndeleted, RefinementStep
<1> QED
  BY <1>1, <1>2, <1>3, <1>4, StoreType, PTL DEF StoreSpec, MeasuredAtOnce
=============================================================================
