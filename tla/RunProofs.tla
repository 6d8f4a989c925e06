------------------------------ MODULE RunProofs -----------------------------
(***************************************************************************)
(* Proofs about a pipeline run, for every number of stages and every       *)
(* outcome, in three parts: RunAbort with any caller, PipelineRun as one   *)
(* of its callers, and RunReport, what the run reads as.                   *)
(***************************************************************************)
EXTENDS RunReport, SequenceTheorems, TLAPS

-----------------------------------------------------------------------------
(***************************************************************************)
(* The safety of RunAbort for every sequence of calls and every outcome of *)
(* the writes.                                                             *)
(*                                                                         *)
(* The actions fall into few kinds by what they do to the chain: they add  *)
(* a transition, start the first one, end it, or leave the chain alone.    *)
(* One lemma per kind preserves the invariant; the theorem on a step only  *)
(* says of which kind each action is and that it keeps the types.          *)
(***************************************************************************)
ChainState == <<aborted, recorded, snapshot, stageFile, artifact, stopFile>>

SafetyInv == ChainInv /\ QueueInv /\ StopInv /\ ProgressInv

-----------------------------------------------------------------------------
(* Sequences.                                                              *)

(* Appending keeps what was queued and puts the new transition last. *)
LEMMA AppendQueue ==
    ASSUME NEW S, NEW q \in Seq(S), NEW t \in S
    PROVE  /\ Append(q, t) \in Seq(S)
           /\ Len(q) \in Nat
           /\ Len(Append(q, t)) = Len(q) + 1
           /\ \A i \in 1..Len(q) : Append(q, t)[i] = q[i]
           /\ Append(q, t)[Len(q) + 1] = t
           /\ Append(q, t) # <<>>
           /\ q # <<>> => Head(Append(q, t)) = Head(q)
<1>1. q # <<>> => Head(Append(q, t)) = Head(q)
  OBVIOUS
<1>2. QED
  BY <1>1, AppendProperties, LenProperties

(* Dropping the first transition moves the others forward. *)
LEMMA TailQueue ==
    ASSUME NEW S, NEW q \in Seq(S), q # <<>>
    PROVE  /\ Tail(q) \in Seq(S)
           /\ Len(q) \in Nat \ {0}
           /\ Len(Tail(q)) = Len(q) - 1
           /\ \A i \in 1..Len(Tail(q)) : Tail(q)[i] = q[i + 1]
           /\ Head(q) = q[1]
           /\ Head(q) \in S
  OBVIOUS

-----------------------------------------------------------------------------
(* The kinds of steps.                                                     *)

(* A step that touches neither the chain nor what the invariant reads. *)
LEMMA QuietStep ==
    ASSUME SafetyInv, UNCHANGED <<queue, phase, io, ChainState>>
    PROVE  SafetyInv'
  BY DEF SafetyInv, ChainState, ChainInv, QueueInv, StopInv, ProgressInv,
         Current, RecordWaiting, RecordDone, OnlyFailedArtifacts,
         StoppedStage, StopWritten, StageWritten, ArtifactWritten

(* A call that no abort request refused adds a transition to the chain. *)
LEMMA NormalCallStep ==
    ASSUME TypeOK, SafetyInv, ~aborted,
           NEW t \in Transitions, t.call \in NormalCalls,
           queue' = Append(queue, t), UNCHANGED <<phase, io, ChainState>>
    PROVE  SafetyInv'
<1>1. /\ queue \in Seq(Transitions)
      /\ Len(queue) \in Nat
      /\ Len(queue') = Len(queue) + 1
      /\ \A i \in 1..Len(queue) : queue'[i] = queue[i]
      /\ queue'[Len(queue) + 1] = t
      /\ queue' # <<>>
      /\ queue # <<>> => Head(queue') = Head(queue)
  BY AppendQueue DEF TypeOK
<1>2. t.call # "record" /\ t.call # "writeFailedArtifact"
  BY DEF NormalCalls, StageCalls, ArtifactCalls
<1>3. ~recorded /\ ~recorded' /\ ~aborted'
  BY DEF SafetyInv, QueueInv, ChainState
<1>4. ~RecordWaiting
  BY <1>3 DEF SafetyInv, QueueInv
<1>5. ~RecordWaiting'
  BY <1>1, <1>2, <1>4 DEF RecordWaiting
<1>6. ChainInv'
  BY <1>1 DEF SafetyInv, ChainInv, Current
<1>7. QueueInv'
  <2>1. aborted' = recorded' /\ ~RecordDone'
    BY <1>3 DEF SafetyInv, QueueInv, ChainState, RecordDone
  <2>2. \A i \in 1..Len(queue') : queue'[i].call # "record"
    BY <1>5 DEF RecordWaiting
  <2>3. \A i \in 1..Len(queue') :
          queue'[i].call = "writeFailedArtifact" =>
             queue'[i].artifact = "FAILED"
    BY <1>1, <1>2 DEF SafetyInv, QueueInv
  <2>4. QED
    BY <1>5, <2>1, <2>2, <2>3 DEF QueueInv
<1>8. StopInv'
  BY DEF SafetyInv, StopInv, StoppedStage, ChainState
<1>9. ProgressInv'
  BY <1>3 DEF SafetyInv, ProgressInv, ChainState, StopWritten, StageWritten,
              ArtifactWritten, StoppedStage, RecordDone
<1>10. QED
  BY <1>6, <1>7, <1>8, <1>9 DEF SafetyInv

(* A failed artifact may join the chain at any time. *)
LEMMA FailedCallStep ==
    ASSUME TypeOK, SafetyInv,
           NEW t \in Transitions,
           t.call = "writeFailedArtifact", t.artifact = "FAILED",
           queue' = Append(queue, t), UNCHANGED <<phase, io, ChainState>>
    PROVE  SafetyInv'
<1>1. /\ queue \in Seq(Transitions)
      /\ Len(queue) \in Nat
      /\ Len(queue') = Len(queue) + 1
      /\ \A i \in 1..Len(queue) : queue'[i] = queue[i]
      /\ queue'[Len(queue) + 1] = t
      /\ queue' # <<>>
      /\ queue # <<>> => Head(queue') = Head(queue)
  BY AppendQueue DEF TypeOK
<1>2. RecordWaiting' <=> RecordWaiting
  BY <1>1 DEF RecordWaiting
<1>3. RecordDone' <=> RecordDone
  BY <1>2 DEF RecordDone, ChainState
<1>4. ChainInv'
  BY <1>1 DEF SafetyInv, ChainInv, Current
<1>5. QueueInv'
  <2>1. aborted' = recorded' /\ (RecordWaiting' => recorded')
    BY <1>2 DEF SafetyInv, QueueInv, ChainState
  <2>2. RecordDone' => OnlyFailedArtifacts'
    BY <1>1, <1>3 DEF SafetyInv, QueueInv, OnlyFailedArtifacts
  <2>3. \A i, j \in 1..Len(queue') :
          (i < j /\ queue'[i].call = "record") =>
             queue'[j].call = "writeFailedArtifact"
    BY <1>1 DEF SafetyInv, QueueInv
  <2>4. \A i \in 1..Len(queue') :
          queue'[i].call = "writeFailedArtifact" =>
             queue'[i].artifact = "FAILED"
    BY <1>1 DEF SafetyInv, QueueInv
  <2>5. QED
    BY <2>1, <2>2, <2>3, <2>4 DEF QueueInv
<1>6. StopInv'
  BY DEF SafetyInv, StopInv, StoppedStage, ChainState
<1>7. ProgressInv'
  BY <1>3 DEF SafetyInv, ProgressInv, ChainState, StopWritten, StageWritten,
              ArtifactWritten, StoppedStage
<1>8. QED
  BY <1>4, <1>5, <1>6, <1>7 DEF SafetyInv

(* The first transition of the chain starts its write. *)
LEMMA StartStep ==
    ASSUME SafetyInv, queue # <<>>, phase = "queued",
           Current.call # "record", Current.call # "awaitArtifactReview",
           Await("write"), UNCHANGED ChainState
    PROVE  SafetyInv'
<1>1. ChainInv'
  BY DEF ChainInv, Current, Await
<1>2. QueueInv'
  BY DEF SafetyInv, QueueInv, Await, ChainState, RecordWaiting, RecordDone,
         OnlyFailedArtifacts
<1>3. StopInv'
  BY DEF SafetyInv, StopInv, StoppedStage, ChainState
<1>4. ProgressInv'
  BY DEF SafetyInv, ProgressInv, Await, ChainState, StopWritten,
         StageWritten, ArtifactWritten, StoppedStage, RecordWaiting,
         RecordDone
<1>5. QED
  BY <1>1, <1>2, <1>3, <1>4 DEF SafetyInv

(* A transition that is not the abort's record ends. *)
LEMMA EndStep ==
    ASSUME TypeOK, SafetyInv, queue # <<>>, Current.call # "record",
           Resolve, UNCHANGED ChainState
    PROVE  SafetyInv'
<1>1. /\ queue \in Seq(Transitions)
      /\ Len(queue) \in Nat \ {0}
      /\ Len(queue') = Len(queue) - 1
      /\ \A i \in 1..Len(queue') : queue'[i] = queue[i + 1]
      /\ Current = queue[1]
  BY TailQueue DEF TypeOK, Resolve, Current
<1>2. RecordWaiting' <=> RecordWaiting
  <2>1. ASSUME RecordWaiting PROVE RecordWaiting'
    <3>1. PICK i \in 1..Len(queue) : queue[i].call = "record"
      BY <2>1 DEF RecordWaiting
    <3>2. i # 1
      BY <1>1, <3>1
    <3>3. i - 1 \in 1..Len(queue') /\ queue'[i - 1] = queue[i]
      BY <1>1, <3>2
    <3>4. QED
      BY <3>1, <3>3 DEF RecordWaiting
  <2>2. ASSUME RecordWaiting' PROVE RecordWaiting
    <3>1. PICK i \in 1..Len(queue') : queue'[i].call = "record"
      BY <2>2 DEF RecordWaiting
    <3>2. i + 1 \in 1..Len(queue) /\ queue[i + 1].call = "record"
      BY <1>1, <3>1
    <3>3. QED
      BY <3>2 DEF RecordWaiting
  <2>3. QED
    BY <2>1, <2>2
<1>3. RecordDone' <=> RecordDone
  BY <1>2 DEF RecordDone, ChainState
<1>4. ChainInv'
  BY DEF ChainInv, Resolve
<1>5. QueueInv'
  <2>1. aborted' = recorded' /\ (RecordWaiting' => recorded')
    BY <1>2 DEF SafetyInv, QueueInv, ChainState
  <2>2. RecordDone' => OnlyFailedArtifacts'
    BY <1>1, <1>3 DEF SafetyInv, QueueInv, OnlyFailedArtifacts
  <2>3. \A i, j \in 1..Len(queue') :
          (i < j /\ queue'[i].call = "record") =>
             queue'[j].call = "writeFailedArtifact"
    <3>1. TAKE i, j \in 1..Len(queue')
    <3>2. /\ i + 1 \in 1..Len(queue) /\ queue'[i] = queue[i + 1]
          /\ j + 1 \in 1..Len(queue) /\ queue'[j] = queue[j + 1]
          /\ i < j => i + 1 < j + 1
      BY <1>1
    <3>3. QED
      BY <3>2 DEF SafetyInv, QueueInv
  <2>4. \A i \in 1..Len(queue') :
          queue'[i].call = "writeFailedArtifact" =>
             queue'[i].artifact = "FAILED"
    BY <1>1 DEF SafetyInv, QueueInv
  <2>5. QED
    BY <2>1, <2>2, <2>3, <2>4 DEF QueueInv
<1>6. StopInv'
  BY DEF SafetyInv, StopInv, StoppedStage, ChainState
<1>7. ProgressInv'
  BY <1>3 DEF SafetyInv, ProgressInv, Resolve, ChainState, StopWritten,
              StageWritten, ArtifactWritten, StoppedStage
<1>8. QED
  BY <1>4, <1>5, <1>6, <1>7 DEF SafetyInv

(* The abort's record enters one of its phases, with the earlier ones done. *)
LEMMA RecordPhaseStep ==
    ASSUME SafetyInv, queue # <<>>, Current.call = "record",
           NEW p \in {"operatorStop", "stageStop", "artifactStop"},
           Await(p), UNCHANGED ChainState,
           (~Faulty /\ p # "operatorStop") => StopWritten,
           (~Faulty /\ p = "artifactStop") => StageWritten
    PROVE  SafetyInv'
<1>1. ChainInv'
  BY DEF ChainInv, Current, Await
<1>2. QueueInv'
  BY DEF SafetyInv, QueueInv, Await, ChainState, RecordWaiting, RecordDone,
         OnlyFailedArtifacts
<1>3. StopInv'
  BY DEF SafetyInv, StopInv, StoppedStage, ChainState
<1>4. ProgressInv'
  BY DEF SafetyInv, ProgressInv, Await, ChainState, StopWritten,
         StageWritten, ArtifactWritten, StoppedStage, RecordWaiting,
         RecordDone
<1>5. QED
  BY <1>1, <1>2, <1>3, <1>4 DEF SafetyInv

(* The abort's record ends, with everything it owed written. *)
LEMMA RecordEndStep ==
    ASSUME TypeOK, SafetyInv, queue # <<>>, Current.call = "record",
           Resolve, UNCHANGED ChainState,
           ~Faulty => StopWritten /\ StageWritten /\ ArtifactWritten
    PROVE  SafetyInv'
<1>1. /\ queue \in Seq(Transitions)
      /\ Len(queue) \in Nat \ {0}
      /\ Len(queue') = Len(queue) - 1
      /\ \A i \in 1..Len(queue') : queue'[i] = queue[i + 1]
      /\ queue[1].call = "record"
  BY TailQueue DEF TypeOK, Resolve, Current
<1>2. \A i \in 1..Len(queue') : queue'[i].call = "writeFailedArtifact"
  BY <1>1 DEF SafetyInv, QueueInv
<1>3. ChainInv'
  BY DEF ChainInv, Resolve
<1>4. QueueInv'
  <2>1. RecordWaiting
    BY <1>1 DEF RecordWaiting
  <2>2. aborted' = recorded' /\ recorded'
    BY <2>1 DEF SafetyInv, QueueInv, ChainState
  <2>3. \A i \in 1..Len(queue') : queue'[i].artifact = "FAILED"
    BY <1>1, <1>2 DEF SafetyInv, QueueInv
  <2>4. QED
    BY <1>2, <2>2, <2>3 DEF QueueInv, OnlyFailedArtifacts
<1>5. StopInv'
  BY DEF SafetyInv, StopInv, StoppedStage, ChainState
<1>6. ProgressInv'
  BY DEF SafetyInv, ProgressInv, Resolve, ChainState, StopWritten,
         StageWritten, ArtifactWritten, StoppedStage
<1>7. QED
  BY <1>3, <1>4, <1>5, <1>6 DEF SafetyInv

(* While no abort is recorded, a transition under way is a caller's. *)
LEMMA RecordPhases ==
    ASSUME TypeOK, SafetyInv, phase # "queued", phase # "write"
    PROVE  recorded /\ RecordWaiting /\ Current.call = "record"
<1>1. queue # <<>> /\ Current.call = "record"
  BY DEF SafetyInv, ChainInv, TypeOK
<1>2. Len(queue) \in Nat \ {0} /\ Current = queue[1]
  BY <1>1, TailQueue DEF TypeOK, Current
<1>3. RecordWaiting
  BY <1>1, <1>2 DEF RecordWaiting
<1>4. QED
  BY <1>1, <1>3 DEF SafetyInv, QueueInv

(* The first abort takes its snapshot and queues its record. *)
LEMMA MarkStep ==
    ASSUME TypeOK, SafetyInv, NEW operatorStop \in BOOLEAN,
           markAborted(operatorStop)
    PROVE  SafetyInv'
<1> DEFINE t == [call |-> "record", stage |-> NoStage, artifact |-> "none"]
<1>1. t \in Transitions
  BY DEF Transitions, Calls, ArtifactStatus
<1>2. /\ queue' = Append(queue, t)
      /\ ~recorded /\ aborted' = TRUE /\ recorded' = TRUE
      /\ UNCHANGED <<phase, io, stageFile, artifact, stopFile>>
  BY DEF markAborted, Enqueue, disk
<1>3. /\ queue \in Seq(Transitions)
      /\ Len(queue) \in Nat
      /\ Len(queue') = Len(queue) + 1
      /\ \A i \in 1..Len(queue) : queue'[i] = queue[i]
      /\ queue'[Len(queue) + 1] = t
      /\ queue' # <<>>
      /\ queue # <<>> => Head(queue') = Head(queue)
  BY <1>1, <1>2, AppendQueue DEF TypeOK
<1>4. \A i \in 1..Len(queue) : queue[i].call # "record"
  BY <1>2 DEF SafetyInv, QueueInv, RecordWaiting
<1>5. Len(queue) + 1 \in 1..Len(queue') /\ t.call = "record"
  BY <1>3
<1>6. RecordWaiting' /\ ~RecordDone'
  BY <1>3, <1>5 DEF RecordWaiting, RecordDone
<1>7. phase = "queued" \/ phase = "write"
  BY <1>2, RecordPhases
<1>8. ChainInv'
  BY <1>2, <1>3 DEF SafetyInv, ChainInv, Current
<1>9. QueueInv'
  <2>1. \A i, j \in 1..Len(queue') :
          (i < j /\ queue'[i].call = "record") =>
             queue'[j].call = "writeFailedArtifact"
    BY <1>3, <1>4
  <2>2. \A i \in 1..Len(queue') :
          queue'[i].call = "writeFailedArtifact" =>
             queue'[i].artifact = "FAILED"
    BY <1>3, <1>5 DEF SafetyInv, QueueInv
  <2>3. QED
    BY <1>2, <1>6, <2>1, <2>2 DEF QueueInv
<1>10. StopInv'
  BY <1>2 DEF SafetyInv, StopInv
<1>11. ProgressInv'
  BY <1>2, <1>6, <1>7 DEF SafetyInv, ProgressInv
<1>12. QED
  BY <1>8, <1>9, <1>10, <1>11 DEF SafetyInv

(* A write lands.  Only the abort's own write makes a stop of a stage, and  *)
(* after the record only failed artifacts are written.                      *)
LEMMA LandStep ==
    ASSUME TypeOK, SafetyInv, WriteLands
    PROVE  SafetyInv'
<1>1. /\ io = "busy" /\ io' = "landed"
      /\ UNCHANGED <<aborted, recorded, snapshot, queue, phase>>
  BY DEF WriteLands
<1>2. phase # "queued" /\ queue # <<>>
  BY <1>1 DEF SafetyInv, ChainInv
<1>3. Len(queue) \in Nat \ {0} /\ Current = queue[1]
      /\ Current \in Transitions
  BY <1>2, TailQueue DEF TypeOK, Current
<1>4. ChainInv'
  BY <1>1, <1>2 DEF SafetyInv, ChainInv, Current
<1>5. QueueInv'
  BY <1>1 DEF SafetyInv, QueueInv, RecordWaiting, RecordDone,
              OnlyFailedArtifacts
<1>6. (RecordWaiting' <=> RecordWaiting) /\ (RecordDone' <=> RecordDone)
      /\ StoppedStage' = StoppedStage
  BY <1>1 DEF RecordWaiting, RecordDone, StoppedStage
<1>7. CASE phase = "write"
  <2>1. StopInv'
    BY <1>1, <1>6, <1>7 DEF SafetyInv, StopInv, WriteLands, WrittenStatus,
       TypeOK
  <2>2. RecordDone => Current.call = "writeFailedArtifact"
                        /\ Current.artifact = "FAILED"
    BY <1>3 DEF SafetyInv, QueueInv, OnlyFailedArtifacts
  <2>3. RecordDone => stageFile' = stageFile /\ artifact' = "FAILED"
    BY <1>7, <2>2 DEF WriteLands, WritesStage, WritesArtifact, StageCalls
  <2>4. stopFile' = stopFile
    BY <1>7 DEF WriteLands, TypeOK
  <2>5. ProgressInv'
    BY <1>1, <1>6, <1>7, <2>3, <2>4 DEF SafetyInv, ProgressInv, StopWritten,
       StageWritten, ArtifactWritten
  <2>6. QED
    BY <1>4, <1>5, <2>1, <2>5 DEF SafetyInv
<1>8. CASE phase = "operatorStop"
  <2>1. stopFile' = TRUE /\ UNCHANGED <<stageFile, artifact>>
    BY <1>8 DEF WriteLands, WritesStage, WritesArtifact
  <2>2. ~RecordDone
    BY <1>8, RecordPhases DEF RecordDone
  <2>3. StopInv'
    BY <1>1, <1>6, <2>1 DEF SafetyInv, StopInv
  <2>4. ProgressInv'
    BY <1>1, <1>6, <1>8, <2>1, <2>2 DEF SafetyInv, ProgressInv, StopWritten
  <2>5. QED
    BY <1>4, <1>5, <2>3, <2>4 DEF SafetyInv
<1>9. CASE phase = "stageStop"
  <2>1. stopFile' = stopFile /\ UNCHANGED artifact
        /\ stageFile' = [stageFile EXCEPT ![StoppedStage] =
                                             "STAGE_JUDGE_FAILED"]
    BY <1>9 DEF WriteLands, WritesStage, WritesArtifact, WrittenStage,
                WrittenStatus, TypeOK
  <2>2. ~RecordDone /\ recorded
    BY <1>9, RecordPhases DEF RecordDone
  <2>3. StopInv'
    BY <1>1, <1>6, <2>1, <2>2 DEF SafetyInv, StopInv, TypeOK
  <2>4. StoppedStage \in Stages \cup {NoStage}
    BY DEF TypeOK, Snapshots, StoppedStage
  <2>5. StageWritten'
    BY <1>6, <2>1, <2>4 DEF StageWritten, TypeOK
  <2>6. ProgressInv'
    BY <1>1, <1>6, <1>9, <2>1, <2>2, <2>5 DEF SafetyInv, ProgressInv,
       StopWritten
  <2>7. QED
    BY <1>4, <1>5, <2>3, <2>6 DEF SafetyInv
<1>10. CASE phase = "artifactStop"
  <2>1. stopFile' = stopFile /\ UNCHANGED stageFile /\ artifact' = "FAILED"
    BY <1>10 DEF WriteLands, WritesStage, WritesArtifact, TypeOK
  <2>2. ~RecordDone
    BY <1>10, RecordPhases DEF RecordDone
  <2>3. StopInv'
    BY <1>1, <1>6, <2>1 DEF SafetyInv, StopInv
  <2>4. ProgressInv'
    BY <1>1, <1>6, <1>10, <2>1, <2>2 DEF SafetyInv, ProgressInv,
       StopWritten, StageWritten, ArtifactWritten
  <2>5. QED
    BY <1>4, <1>5, <2>3, <2>4 DEF SafetyInv
<1>11. QED
  BY <1>2, <1>7, <1>8, <1>9, <1>10 DEF TypeOK, Phases

-----------------------------------------------------------------------------
(* The types.                                                              *)

(* Recording an event, or losing it, leaves a sequence of events. *)
LEMMA RecordedType ==
    ASSUME TypeOK, NEW kind \in EventKinds, NEW s \in Stages \cup {NoStage},
           Recorded(kind, s)
    PROVE  events' \in Seq(Events)
<1> DEFINE e == [kind |-> kind, stage |-> s]
<1>1. e \in Events /\ events \in Seq(Events)
  BY DEF TypeOK, Events
<1>2. Append(events, e) \in Seq(Events)
  BY <1>1, AppendProperties
<1>3. QED
  BY <1>1, <1>2 DEF Recorded

(* Queueing a transition leaves a sequence of transitions. *)
LEMMA EnqueueType ==
    ASSUME TypeOK, NEW call \in Calls, NEW s \in Stages \cup {NoStage},
           NEW status \in ArtifactStatus, Enqueue(call, s, status)
    PROVE  queue' \in Seq(Transitions)
  BY AppendProperties DEF TypeOK, Enqueue, Transitions

(* What the calls of the component leave well typed. *)
LEMMA CallType ==
    ASSUME TypeOK, Call
    PROVE  TypeOK'
<1> USE DEF Calls, NormalCalls, StageCalls, ArtifactCalls, ArtifactStatus
<1>1. ASSUME NEW s \in Stages, writePendingStage(s) PROVE TypeOK'
  <2>1. queue' \in Seq(Transitions)
    BY <1>1, EnqueueType DEF writePendingStage
  <2>2. QED
    BY <1>1, <2>1 DEF TypeOK, writePendingStage, disk
<1>2. CASE writeStageProgress
  <2>1. queue' \in Seq(Transitions)
    BY <1>2, EnqueueType DEF writeStageProgress, TypeOK
  <2>2. QED
    BY <1>2, <2>1 DEF TypeOK, writeStageProgress, disk
<1>3. CASE completeStage
  <2>1. queue' \in Seq(Transitions)
    BY <1>3, EnqueueType DEF completeStage, TypeOK
  <2>2. QED
    BY <1>3, <2>1 DEF TypeOK, completeStage, disk
<1>4. ASSUME NEW call \in Calls, NEW status \in ArtifactStatus,
             ArtifactCall(call, status)
      PROVE  TypeOK'
  <2>1. queue' \in Seq(Transitions)
    BY <1>4, EnqueueType DEF ArtifactCall
  <2>2. QED
    BY <1>4, <2>1 DEF TypeOK, ArtifactCall, disk
<1>5. CASE writePendingArtifact
  BY <1>4, <1>5 DEF writePendingArtifact
<1>6. CASE completeArtifact
  BY <1>4, <1>6 DEF completeArtifact
<1>7. CASE writeFailedArtifact
  BY <1>4, <1>7 DEF writeFailedArtifact
<1>8. CASE awaitArtifactReview
  <2>1. queue' \in Seq(Transitions)
    BY <1>8, EnqueueType DEF awaitArtifactReview
  <2>2. QED
    BY <1>8, <2>1 DEF TypeOK, awaitArtifactReview, disk
<1>9. ASSUME NEW s \in Stages, recordStageStarted(s) PROVE TypeOK'
  <2>1. events' \in Seq(Events)
    BY <1>9, RecordedType DEF recordStageStarted, EventKinds
  <2>2. QED
    BY <1>9, <2>1 DEF TypeOK, recordStageStarted, memory
<1>10. ASSUME NEW s \in Stages, recordJudgeProgress(s) PROVE TypeOK'
  <2>1. events' \in Seq(Events)
    BY <1>10, RecordedType DEF recordJudgeProgress, EventKinds
  <2>2. QED
    BY <1>10, <2>1 DEF TypeOK, recordJudgeProgress, memory
<1>11. QED
  BY <1>1, <1>2, <1>3, <1>5, <1>6, <1>7, <1>8, <1>9, <1>10 DEF Call

(* What the notes, the abort and the close leave well typed. *)
LEMMA NoteType ==
    ASSUME TypeOK, Note \/ Abort \/ closeStore
    PROVE  TypeOK'
<1>1. ASSUME NEW s \in Stages, stopAtCeiling(s) PROVE TypeOK'
  BY <1>1 DEF TypeOK, stopAtCeiling, disk
<1>2. ASSUME NEW s \in Stages, updatePendingStage(s) PROVE TypeOK'
  BY <1>2 DEF TypeOK, updatePendingStage, disk
<1>3. ASSUME NEW operatorStop \in BOOLEAN, markAborted(operatorStop)
      PROVE  TypeOK'
  <2>1. queue' \in Seq(Transitions)
    BY <1>3, EnqueueType DEF markAborted, Calls, ArtifactStatus
  <2>2. snapshot' \in Snapshots
    BY <1>3 DEF markAborted, Snapshot, Snapshots, TypeOK
  <2>3. QED
    BY <1>3, <2>1, <2>2 DEF TypeOK, markAborted, disk
<1>4. CASE closeStore
  BY <1>4 DEF TypeOK, closeStore, disk
<1>5. QED
  BY <1>1, <1>2, <1>3, <1>4 DEF Note, Abort

(* Starting a phase of the first transition keeps the chain well typed. *)
LEMMA AwaitType ==
    ASSUME TypeOK, NEW p \in Phases, Await(p)
    PROVE  queue' \in Seq(Transitions) /\ phase' \in Phases
             /\ io' \in {"idle", "busy", "landed", "failed"}
  BY DEF TypeOK, Await

(* Ending the first transition keeps the chain well typed. *)
LEMMA ResolveType ==
    ASSUME TypeOK, queue # <<>>, Resolve
    PROVE  queue' \in Seq(Transitions) /\ phase' \in Phases
             /\ io' \in {"idle", "busy", "landed", "failed"}
  BY TailQueue DEF TypeOK, Resolve, Phases

(* The first transition of the chain is one. *)
LEMMA CurrentType ==
    ASSUME TypeOK, queue # <<>>
    PROVE  /\ Current \in Transitions
           /\ Current.stage \in Stages \cup {NoStage}
           /\ Current.artifact \in ArtifactStatus
<1>1. Current \in Transitions
  BY TailQueue DEF TypeOK, Current
<1>2. QED
  BY <1>1 DEF Transitions

(* What the steps of the chain leave well typed. *)
LEMMA ChainType ==
    ASSUME TypeOK, ChainInv, Chain \/ WriteFails
    PROVE  TypeOK'
<1>1. CASE SkipTransition
  BY <1>1, ResolveType DEF SkipTransition, TypeOK, disk
<1>2. ASSUME NEW call \in Calls, NEW kind \in EventKinds,
             StartStageEvent(call, kind)
      PROVE  TypeOK'
  <2>1. Current.stage \in Stages \cup {NoStage}
    BY <1>2, CurrentType DEF StartStageEvent, Runs
  <2>2. events' \in Seq(Events)
    BY <1>2, <2>1, RecordedType DEF StartStageEvent
  <2>3. QED
    BY <1>2, <2>2, AwaitType DEF StartStageEvent, TypeOK, Phases
<1>3. CASE StartPendingStage
  BY <1>2, <1>3 DEF StartPendingStage, Calls, NormalCalls, StageCalls,
                    EventKinds
<1>4. CASE StartCompleteStage
  BY <1>2, <1>4 DEF StartCompleteStage, Calls, NormalCalls, StageCalls,
                    EventKinds
<1>5. ASSUME NEW call, StartWrite(call) PROVE TypeOK'
  BY <1>5, AwaitType DEF StartWrite, TypeOK, Phases, disk
<1>6. ASSUME NEW kind \in EventKinds, artifactCompleted(kind)
      PROVE  events' \in Seq(Events) /\ terminalRecorded' \in BOOLEAN
  BY <1>6, RecordedType DEF artifactCompleted
<1>7. CASE RunArtifactReview
  <2>1. events' \in Seq(Events) /\ terminalRecorded' \in BOOLEAN
    BY <1>6, <1>7 DEF RunArtifactReview, TypeOK, EventKinds, TerminalKinds
  <2>2. QED
    BY <1>7, <2>1, ResolveType DEF RunArtifactReview, Runs, TypeOK,
                                   ArtifactStatus
<1>8. ASSUME AwaitArtifactStop, queue # <<>>
      PROVE  queue' \in Seq(Transitions) /\ phase' \in Phases
               /\ io' \in {"idle", "busy", "landed", "failed"}
  BY <1>8, AwaitType, ResolveType DEF AwaitArtifactStop, Phases
<1>9. ASSUME RecordAborted, queue # <<>>
      PROVE  /\ queue' \in Seq(Transitions) /\ phase' \in Phases
             /\ io' \in {"idle", "busy", "landed", "failed"}
             /\ events' \in Seq(Events) /\ terminalRecorded' \in BOOLEAN
  <2>1. snapshot.stage \in Stages \cup {NoStage}
        /\ snapshot.ceiling \in Stages \cup {NoStage}
    BY DEF TypeOK, Snapshots
  <2>2. events' \in Seq(Events) /\ terminalRecorded' \in BOOLEAN
    BY <1>9, <2>1, RecordedType DEF RecordAborted, abortedEvent, TypeOK,
                                    EventKinds, TerminalKinds
  <2>3. QED
    BY <1>8, <1>9, <2>2, AwaitType DEF RecordAborted, Phases
<1>10. CASE StartRecord
  <2>1. queue # <<>>
    BY <1>10 DEF StartRecord, Runs
  <2>2. /\ queue' \in Seq(Transitions) /\ phase' \in Phases
        /\ io' \in {"idle", "busy", "landed", "failed"}
        /\ events' \in Seq(Events) /\ terminalRecorded' \in BOOLEAN
    BY <1>9, <1>10, <2>1, AwaitType DEF StartRecord, TypeOK, Phases
  <2>3. QED
    BY <1>10, <2>2 DEF StartRecord, TypeOK
<1>11. CASE ContinueRecord
  <2>1. queue # <<>>
    BY <1>11 DEF ContinueRecord, ChainInv
  <2>2. /\ queue' \in Seq(Transitions) /\ phase' \in Phases
        /\ io' \in {"idle", "busy", "landed", "failed"}
        /\ events' \in Seq(Events) /\ terminalRecorded' \in BOOLEAN
    BY <1>8, <1>9, <1>11, <2>1, ResolveType DEF ContinueRecord, TypeOK
  <2>3. QED
    BY <1>11, <2>2 DEF ContinueRecord, TypeOK
<1>12. CASE WriteLands
  <2>1. queue # <<>>
    BY <1>12 DEF WriteLands, ChainInv
  <2>2. Current.artifact \in ArtifactStatus
    BY <2>1, CurrentType
  <2>3. artifact' \in ArtifactStatus
    BY <1>12, <2>2 DEF WriteLands, TypeOK, ArtifactStatus
  <2>4. stageFile' \in [Stages -> StageStatus]
    BY <1>12 DEF WriteLands, TypeOK, WrittenStatus, StageStatus
  <2>5. stopFile' \in BOOLEAN
    BY <1>12 DEF WriteLands
  <2>6. QED
    BY <1>12, <2>3, <2>4, <2>5 DEF WriteLands, TypeOK
<1>13. CASE WriteFails
  BY <1>13 DEF WriteFails, TypeOK, disk
<1>14. CASE FinishTransition
  <2>1. queue # <<>>
    BY <1>14 DEF FinishTransition, ChainInv
  <2>2. /\ events' \in Seq(Events) /\ terminalRecorded' \in BOOLEAN
        /\ pendingArtifact' \in ArtifactStatus
    BY <1>6, <1>14 DEF FinishTransition, TypeOK, ArtifactStatus, EventKinds,
                       TerminalKinds
  <2>3. QED
    BY <1>14, <2>1, <2>2, ResolveType DEF FinishTransition, TypeOK
<1>15. CASE FailTransition
  BY <1>15, ResolveType DEF FailTransition, ChainInv, TypeOK, disk
<1>16. QED
  BY <1>1, <1>3, <1>4, <1>5, <1>7, <1>10, <1>11, <1>12, <1>13, <1>14, <1>15
     DEF Chain, StartTransition, RunRecord

-----------------------------------------------------------------------------
(* The invariant.                                                          *)

(* It holds before the first call. *)
LEMMA InitIInv ==
    InitAbort => IInv
<1> SUFFICES ASSUME InitAbort PROVE IInv
  OBVIOUS
<1>1. TypeOK
  <2>1. queue \in Seq(Transitions) /\ events \in Seq(Events)
    BY EmptySeq DEF InitAbort
  <2>2. snapshot \in Snapshots
    BY DEF InitAbort, Snapshots, ArtifactStatus
  <2>3. stageFile \in [Stages -> StageStatus]
    BY DEF InitAbort, StageStatus
  <2>4. QED
    BY <2>1, <2>2, <2>3 DEF InitAbort, TypeOK, Phases, ArtifactStatus
<1>2. Len(queue) = 0
  BY DEF InitAbort
<1>3. ~RecordWaiting /\ ~RecordDone
  BY <1>2 DEF InitAbort, RecordWaiting, RecordDone
<1>4. ChainInv
  BY DEF InitAbort, ChainInv
<1>5. QueueInv
  <2>1. aborted = recorded
    BY DEF InitAbort
  <2>2. \A i \in 1..Len(queue) : FALSE
    BY <1>2
  <2>3. QED
    BY <1>3, <2>1, <2>2 DEF QueueInv
<1>6. StopInv
  BY DEF InitAbort, StopInv
<1>7. ProgressInv
  BY <1>3 DEF InitAbort, ProgressInv
<1>8. QED
  BY <1>1, <1>4, <1>5, <1>6, <1>7 DEF IInv

(* A call of the component keeps it. *)
LEMMA CallSafe ==
    ASSUME TypeOK, SafetyInv, Call
    PROVE  SafetyInv'
<1> USE DEF Transitions, Calls, NormalCalls, StageCalls, ArtifactCalls,
            ArtifactStatus
<1>1. ASSUME NEW call \in NormalCalls, NEW s \in Stages \cup {NoStage},
             NEW status \in ArtifactStatus, Enqueue(call, s, status),
             ~aborted, UNCHANGED <<phase, io, ChainState>>
      PROVE  SafetyInv'
  <2> DEFINE t == [call |-> call, stage |-> s, artifact |-> status]
  <2>1. t \in Transitions /\ t.call \in NormalCalls
    OBVIOUS
  <2>2. QED
    BY <1>1, <2>1, NormalCallStep DEF Enqueue
<1>2. ASSUME NEW s \in Stages, writePendingStage(s) PROVE SafetyInv'
  BY <1>1, <1>2 DEF writePendingStage, ChainState, disk
<1>3. CASE writeStageProgress
  BY <1>1, <1>3 DEF writeStageProgress, ChainState, disk, TypeOK
<1>4. CASE completeStage
  BY <1>1, <1>4 DEF completeStage, ChainState, disk, TypeOK
<1>5. CASE writePendingArtifact
  BY <1>1, <1>5 DEF writePendingArtifact, ArtifactCall, ChainState, disk
<1>6. CASE completeArtifact
  BY <1>1, <1>6 DEF completeArtifact, ArtifactCall, ChainState, disk
<1>7. CASE awaitArtifactReview
  BY <1>1, <1>7 DEF awaitArtifactReview, ChainState, disk
<1>8. CASE writeFailedArtifact
  <2> DEFINE t == [call |-> "writeFailedArtifact", stage |-> NoStage,
                   artifact |-> "FAILED"]
  <2>1. t \in Transitions /\ t.call = "writeFailedArtifact"
        /\ t.artifact = "FAILED"
    OBVIOUS
  <2>2. queue' = Append(queue, t) /\ UNCHANGED <<phase, io, ChainState>>
    BY <1>8 DEF writeFailedArtifact, ArtifactCall, Enqueue, ChainState, disk
  <2>3. QED
    BY <2>1, <2>2, FailedCallStep
<1>9. ASSUME NEW s \in Stages, recordStageStarted(s) \/ recordJudgeProgress(s)
      PROVE  SafetyInv'
  BY <1>9, QuietStep DEF recordStageStarted, recordJudgeProgress, memory,
                         ChainState
<1>10. QED
  BY <1>2, <1>3, <1>4, <1>5, <1>6, <1>7, <1>8, <1>9 DEF Call

(* A note, the abort and the close keep it. *)
LEMMA NoteSafe ==
    ASSUME TypeOK, SafetyInv, Note \/ Abort \/ closeStore
    PROVE  SafetyInv'
<1>1. ASSUME NEW s \in Stages, stopAtCeiling(s) \/ updatePendingStage(s)
      PROVE  SafetyInv'
  BY <1>1, QuietStep DEF stopAtCeiling, updatePendingStage, disk, ChainState
<1>2. CASE closeStore
  BY <1>2, QuietStep DEF closeStore, disk, ChainState
<1>3. QED
  BY <1>1, <1>2, MarkStep DEF Note, Abort

(* A step of the chain keeps it. *)
LEMMA ChainSafe ==
    ASSUME TypeOK, SafetyInv, Chain \/ WriteFails
    PROVE  SafetyInv'
<1>1. CASE SkipTransition
  BY <1>1, EndStep DEF SkipTransition, ChainState, disk, NormalCalls,
     StageCalls, ArtifactCalls
<1>2. CASE StartTransition
  <2>1. /\ queue # <<>> /\ phase = "queued"
        /\ Current.call # "record" /\ Current.call # "awaitArtifactReview"
        /\ Await("write") /\ UNCHANGED ChainState
    BY <1>2 DEF StartTransition, StartPendingStage, StartCompleteStage,
                StartStageEvent, StartWrite, Runs, ChainState, disk
  <2>2. QED
    BY <2>1, StartStep
<1>3. CASE RunArtifactReview
  BY <1>3, EndStep DEF RunArtifactReview, Runs, ChainState
<1>4. ASSUME queue # <<>>, Current.call = "record", UNCHANGED ChainState,
             AwaitArtifactStop, ~Faulty => StopWritten /\ StageWritten
      PROVE  SafetyInv'
  <2>1. CASE snapshot.artifact # "none"
    BY <1>4, <2>1, RecordPhaseStep DEF AwaitArtifactStop
  <2>2. CASE snapshot.artifact = "none"
    BY <1>4, <2>2, RecordEndStep DEF AwaitArtifactStop, ArtifactWritten
  <2>3. QED
    BY <2>1, <2>2
<1>5. ASSUME queue # <<>>, Current.call = "record", UNCHANGED ChainState,
             RecordAborted, ~Faulty => StopWritten
      PROVE  SafetyInv'
  <2>1. CASE StoppedStage # NoStage
    BY <1>5, <2>1, RecordPhaseStep DEF RecordAborted
  <2>2. CASE StoppedStage = NoStage
    BY <1>4, <1>5, <2>2 DEF RecordAborted, StageWritten
  <2>3. QED
    BY <2>1, <2>2
<1>6. CASE StartRecord
  <2>1. queue # <<>> /\ Current.call = "record" /\ UNCHANGED ChainState
    BY <1>6 DEF StartRecord, Runs, ChainState
  <2>2. CASE snapshot.operatorStop
    BY <1>6, <2>1, <2>2, RecordPhaseStep DEF StartRecord
  <2>3. CASE ~snapshot.operatorStop
    BY <1>5, <1>6, <2>1, <2>3 DEF StartRecord, StopWritten
  <2>4. QED
    BY <2>2, <2>3
<1>7. CASE ContinueRecord
  <2>1. UNCHANGED ChainState /\ io # "idle" /\ (io = "failed" => Faulty)
    BY <1>7 DEF ContinueRecord, ChainState, SafetyInv, ProgressInv
  <2>2. io = "landed" \/ Faulty
    BY <1>7, <2>1 DEF ContinueRecord
  <2>3. CASE phase = "operatorStop"
    BY <1>5, <1>7, <2>1, <2>2, <2>3 DEF ContinueRecord, SafetyInv, ChainInv,
       ProgressInv
  <2>4. CASE phase = "stageStop"
    BY <1>4, <1>7, <2>1, <2>2, <2>4 DEF ContinueRecord, SafetyInv, ChainInv,
       ProgressInv
  <2>5. CASE phase = "artifactStop"
    BY <1>7, <2>1, <2>2, <2>5, RecordEndStep DEF ContinueRecord, SafetyInv,
       ChainInv, ProgressInv
  <2>6. QED
    BY <1>7, <2>3, <2>4, <2>5 DEF ContinueRecord
<1>8. CASE WriteLands
  BY <1>8, LandStep
<1>9. CASE WriteFails
  <2>1. /\ Faulty /\ io = "busy" /\ io' = "failed"
        /\ UNCHANGED <<queue, phase, ChainState>>
    BY <1>9 DEF WriteFails, ChainState, disk
  <2>2. ChainInv'
    BY <2>1 DEF SafetyInv, ChainInv, Current
  <2>3. QueueInv'
    BY <2>1 DEF SafetyInv, QueueInv, ChainState, RecordWaiting, RecordDone,
                OnlyFailedArtifacts
  <2>4. StopInv'
    BY <2>1 DEF SafetyInv, StopInv, StoppedStage, ChainState
  <2>5. ProgressInv'
    BY <2>1 DEF ProgressInv
  <2>6. QED
    BY <2>2, <2>3, <2>4, <2>5 DEF SafetyInv
<1>10. CASE FinishTransition \/ FailTransition
  <2>1. /\ Resolve /\ UNCHANGED ChainState /\ phase = "write"
    BY <1>10 DEF FinishTransition, FailTransition, ChainState, disk
  <2>2. queue # <<>> /\ Current.call # "record"
    BY <2>1 DEF SafetyInv, ChainInv
  <2>3. QED
    BY <2>1, <2>2, EndStep
<1>11. QED
  BY <1>1, <1>2, <1>3, <1>6, <1>7, <1>8, <1>9, <1>10 DEF Chain, RunRecord

(* A step that changes nothing keeps it. *)
LEMMA StutterSafe ==
    ASSUME IInv, UNCHANGED abortVars
    PROVE  IInv'
<1>1. TypeOK'
  BY DEF IInv, TypeOK, abortVars, memory, disk
<1>2. SafetyInv'
  BY QuietStep DEF IInv, SafetyInv, abortVars, memory, disk, ChainState
<1>3. QED
  BY <1>1, <1>2 DEF IInv, SafetyInv

(* The invariant is inductive. *)
LEMMA NextIInv ==
    IInv /\ [Next]_abortVars => IInv'
<1> SUFFICES ASSUME IInv, [Next]_abortVars PROVE IInv'
  OBVIOUS
<1>1. TypeOK /\ SafetyInv /\ ChainInv
  BY DEF IInv, SafetyInv
<1>2. ASSUME TypeOK', SafetyInv' PROVE IInv'
  BY <1>2 DEF IInv, SafetyInv
<1>3. CASE Call
  BY <1>1, <1>2, <1>3, CallType, CallSafe
<1>4. CASE Note \/ Abort \/ closeStore
  BY <1>1, <1>2, <1>4, NoteType, NoteSafe
<1>5. CASE Chain \/ WriteFails
  BY <1>1, <1>2, <1>5, ChainType, ChainSafe
<1>6. CASE UNCHANGED abortVars
  BY <1>6, StutterSafe
<1>7. QED
  BY <1>3, <1>4, <1>5, <1>6 DEF Next

-----------------------------------------------------------------------------
(* What it gives.                                                          *)

(* Every state the component reaches satisfies the inductive invariant,     *)
(* whatever its callers do and whichever writes fail.                       *)
THEOREM Invariance == Safety => []IInv
  BY InitIInv, NextIInv, PTL DEF Safety

(* Every variable of the run's records keeps its type: no sequence of calls *)
(* makes the chain write a status the readers do not know.                  *)
THEOREM TypeCorrect == Safety => []TypeOK
<1>1. IInv => TypeOK
  BY DEF IInv
<1>2. QED
  BY <1>1, Invariance, PTL

(* At most one stage record is ever a stop, so the stage that run-outcome.ts *)
(* names is the only one it could.                                          *)
THEOREM OneStop == Safety => []OneStoppedStage
<1>1. IInv => OneStoppedStage
  BY DEF IInv, StopInv, OneStoppedStage
<1>2. QED
  BY <1>1, Invariance, PTL

(* A finished record has written everything that was pending when the abort *)
(* was requested, unless a write failed.                                    *)
THEOREM PendingRecorded == Safety => []AbortRecordsPending
<1>1. IInv => AbortRecordsPending
  BY DEF IInv, ProgressInv, AbortRecordsPending, StopWritten, StageWritten,
         ArtifactWritten, StoppedStage
<1>2. QED
  BY <1>1, Invariance, PTL

(* From the moment the abort's record begins, a transition that was queued  *)
(* or called late changes a record only to a failure.                       *)
THEOREM Final == Safety => AbortIsFinal
<1> DEFINE Kept == RecordBegun =>
              /\ \A s \in Stages :
                   stageFile'[s] # stageFile[s] =>
                      stageFile'[s] = "STAGE_JUDGE_FAILED"
              /\ artifact' # artifact => artifact' = "FAILED"
<1>1. ASSUME IInv, WriteLands, RecordBegun
      PROVE  /\ \A s \in Stages :
                  stageFile'[s] # stageFile[s] =>
                     stageFile'[s] = "STAGE_JUDGE_FAILED"
             /\ artifact' # artifact => artifact' = "FAILED"
  <2>1. phase # "queued" /\ queue # <<>>
    BY <1>1 DEF IInv, ChainInv, WriteLands
  <2>2. Len(queue) \in Nat \ {0} /\ Current = queue[1]
    BY <1>1, <2>1, TailQueue DEF IInv, TypeOK, Current
  <2>3. CASE RecordWaiting
    <3>1. phase # "write"
      BY <1>1, <2>1, <2>3 DEF RecordBegun, IInv, ChainInv
    <3>2. QED
      BY <1>1, <3>1 DEF WriteLands, WritesStage, WritesArtifact,
         WrittenStatus, IInv, TypeOK
  <2>4. CASE ~RecordWaiting
    <3>1. Current.call = "writeFailedArtifact" /\ Current.artifact = "FAILED"
      BY <1>1, <2>2, <2>4 DEF RecordBegun, RecordDone, IInv, QueueInv,
         OnlyFailedArtifacts
    <3>2. phase = "write"
      BY <1>1, <2>1, <3>1 DEF IInv, ChainInv
    <3>3. QED
      BY <1>1, <3>1, <3>2 DEF WriteLands, WritesStage, WritesArtifact,
         StageCalls
  <2>5. QED
    BY <2>3, <2>4
<1>2. ASSUME Next, ~WriteLands
      PROVE  stageFile' = stageFile /\ artifact' = artifact
  <2>1. CASE Call \/ Note \/ Abort \/ closeStore
    BY <2>1 DEF Call, Note, Abort, closeStore, writePendingStage,
       writeStageProgress, completeStage, writePendingArtifact,
       completeArtifact, awaitArtifactReview, writeFailedArtifact,
       ArtifactCall, recordStageStarted, recordJudgeProgress, stopAtCeiling,
       updatePendingStage, markAborted, disk
  <2>2. CASE Chain \/ WriteFails
    BY <1>2, <2>2 DEF Chain, WriteFails, SkipTransition, StartTransition,
       StartPendingStage, StartCompleteStage, StartStageEvent, StartWrite,
       RunArtifactReview, RunRecord, StartRecord, ContinueRecord,
       FinishTransition, FailTransition, disk
  <2>3. QED
    BY <1>2, <2>1, <2>2 DEF Next
<1>3. IInv /\ [Next]_abortVars => [Kept]_abortVars
  BY <1>1, <1>2
<1>4. QED
  BY <1>3, Invariance, PTL DEF Safety, AbortIsFinal

-----------------------------------------------------------------------------
(***************************************************************************)
(* A pipeline run is one of the callers RunAbort allows, so what is proved *)
(* of the component for any caller holds of every run; and, while no abort *)
(* is requested, the chain holds the one transition the main flow awaits,  *)
(* so the stage that is judged is the one an abort would name.             *)
(***************************************************************************)
(* The points at which the main flow is in a stage, from its session to its *)
(* verdict, and those from its pending record on.                           *)
Judging == {"writePendingStage", "sources", "judge", "recordPass",
            "recordStop", "review", "calibrateStage", "completeStopped"}
InStage == Judging \cup {"session"}

(* The stage the main flow is in follows from where it is. *)
StageInv ==
    /\ stage \in 0..(N + 1)
    /\ pc \in InStage => stage \in Stages
    /\ pc \in {"boundary", "checkpoint"} => stage \in 0..N
    /\ pc \in {"cloning", "claimed", "prepare"} => stage = 0

(* The call of RunAbort awaited at a point of the main flow. *)
AwaitedCall ==
    [p \in AwaitCall |->
       IF p \in {"recordPass", "completeStopped"} THEN "completeStage"
       ELSE IF p = "recordStop" THEN "writeStageProgress"
       ELSE p]

(* While no abort is requested, the chain is what the main flow awaits. *)
AwaitInv ==
    ~aborted =>
       IF pc \in AwaitCall
         THEN Len(queue) = 1 /\ queue[1].call = AwaitedCall[pc]
         ELSE queue = <<>>

RunInv == IInv /\ StageInv /\ AwaitInv /\ JudgedStageIsPending

-----------------------------------------------------------------------------
(* The main flow's place and its stage.                                    *)

(* Only the main flow moves, and it enters a stage only at a boundary. *)
LEMMA StageStep ==
    ASSUME StageInv, [RunNext]_runVars
    PROVE  StageInv'
<1> USE RunAbortAssumption
        DEF StageInv, InStage, Judging, Stages, At, Go, flow
<1>1. CASE Preparation
  BY <1>1 DEF Preparation, CloneTarget, claimTarget, KeepSource, CloneFails,
     DiscardClone, recordInitialRunManifest, recordCheckpoint,
     recordRetentionRef, retainInTarget
<1>2. CASE GradedStages
  <2>1. CASE PauseAtBoundary \/ beginGradedStage \/ judgeRunCandidate
    BY <2>1 DEF PauseAtBoundary, beginGradedStage, judgeRunCandidate
  <2>2. CASE publishPendingStage \/ StagePasses \/ StageStops
               \/ calibrateStageFailure
    BY <2>2 DEF publishPendingStage, StagePasses, StageStops,
       calibrateStageFailure, CallOr
  <2>3. CASE prepareStageJudgment \/ reviewStoppedStage
    BY <2>3 DEF prepareStageJudgment, reviewStoppedStage
  <2>4. QED
    BY <1>2, <2>1, <2>2, <2>3 DEF GradedStages
<1>3. CASE Candidate
  BY <1>3 DEF Candidate, FinalJudgeFailsPaid, FinalJudgeGrades,
     finishGradedRun, finishPausedRun, collectCalibration, CallOr
<1>4. CASE WorkFails
  BY <1>4 DEF WorkFails
<1>5. CASE CallReturns \/ CallThrows
  BY <1>5 DEF CallReturns, CallThrows, AfterCall, AwaitCall
<1>6. CASE Finish
  BY <1>6 DEF Finish, reportError, reportRunFailure, FailureRecorded,
     pauseForFailureInspection, recordPaused, CloseBegins, CloseEnds,
     MainExits
<1>7. CASE UNCHANGED flow
  BY <1>7
<1>8. QED
  BY <1>1, <1>2, <1>3, <1>4, <1>5, <1>6, <1>7
     DEF RunNext, MainFlow, runCommand, CommandExits, JudgeProgress,
         ChainStep, Teardown, releaseClone, discardClone, StopServices,
         SignalHandler, KilledCommandExits, HandlerTearsDown, HandlerExits,
         Signal, SignalKills, SignalMarks, requestPause, Crash, runVars

(* Every step of the run is a step of RunAbort, or leaves it alone. *)
LEMMA ComponentStep ==
    ASSUME StageInv, [RunNext]_runVars
    PROVE  [Next]_abortVars
<1>1. CASE Preparation
  BY <1>1 DEF Preparation, CloneTarget, claimTarget, KeepSource, CloneFails,
     DiscardClone, recordInitialRunManifest, recordCheckpoint,
     recordRetentionRef, retainInTarget, Next
<1>2. CASE GradedStages
  <2>1. CASE PauseAtBoundary \/ judgeRunCandidate
    BY <2>1 DEF PauseAtBoundary, judgeRunCandidate
  <2>2. CASE beginGradedStage
    <3>1. stage + 1 \in Stages
      BY <2>2, RunAbortAssumption DEF beginGradedStage, StageInv, Stages
    <3>2. recordStageStarted(stage + 1)
      BY <2>2 DEF beginGradedStage
    <3>3. QED
      BY <3>1, <3>2 DEF Next, Call
  <2>3. ASSUME pc \in InStage PROVE stage \in Stages
    BY <2>3 DEF StageInv
  <2>4. CASE publishPendingStage
    BY <2>3, <2>4 DEF publishPendingStage, CallOr, At, InStage, Next, Call
  <2>5. CASE StagePasses \/ StageStops \/ calibrateStageFailure
    BY <2>5 DEF StagePasses, StageStops, calibrateStageFailure, CallOr,
       Next, Call
  <2>6. CASE prepareStageJudgment \/ reviewStoppedStage
    BY <2>3, <2>6 DEF prepareStageJudgment, reviewStoppedStage, At, InStage,
       Judging, Next, Note
  <2>7. QED
    BY <1>2, <2>1, <2>2, <2>4, <2>5, <2>6 DEF GradedStages
<1>3. CASE Candidate
  BY <1>3 DEF Candidate, FinalJudgeFailsPaid, FinalJudgeGrades,
     finishGradedRun, finishPausedRun, collectCalibration, CallOr, Next, Call
<1>4. CASE WorkFails
  BY <1>4 DEF WorkFails, CeilingSteps, StageInv, InStage, Judging, Next, Note
<1>5. CASE CallReturns \/ CallThrows
  BY <1>5 DEF CallReturns, CallThrows, Next, Chain
<1>6. ASSUME NEW operatorStop \in BOOLEAN, Mark(operatorStop)
      PROVE  Next \/ UNCHANGED abortVars
  BY <1>6 DEF Mark, Next, Abort
<1>7. CASE Finish
  <2>1. CASE reportRunFailure
    BY <1>6, <2>1 DEF reportRunFailure
  <2>2. CASE CloseEnds
    BY <2>2 DEF CloseEnds, Next
  <2>3. QED
    BY <1>7, <2>1, <2>2 DEF Finish, reportError, FailureRecorded,
       pauseForFailureInspection, recordPaused, CloseBegins, MainExits
<1>8. CASE JudgeProgress
  BY <1>8 DEF JudgeProgress, StageInv, InStage, Judging, Next, Call
<1>9. CASE ChainStep
  BY <1>9 DEF ChainStep, Next, Chain
<1>10. CASE SignalHandler \/ Signal
  BY <1>6, <1>10 DEF SignalHandler, KilledCommandExits, HandlerTearsDown,
     HandlerExits, Signal, SignalKills, SignalMarks
<1>11. QED
  BY <1>1, <1>2, <1>3, <1>4, <1>5, <1>7, <1>8, <1>9, <1>10
     DEF RunNext, MainFlow, runCommand, CommandExits, Teardown, releaseClone,
         discardClone, StopServices, requestPause, Crash, runVars

(* A pipeline run implements RunAbort: its main flow and its signal handler *)
(* change the run's records only through the component's operations.        *)
THEOREM RunImplementsAbort == RunSpec => Safety
<1>1. RunInit => InitAbort /\ StageInv
  BY RunAbortAssumption DEF RunInit, StageInv, InStage, Judging, Stages
<1>2. StageInv /\ [RunNext]_runVars => StageInv' /\ [Next]_abortVars
  BY StageStep, ComponentStep
<1>3. QED
  BY <1>1, <1>2, PTL DEF RunSpec, Safety

-----------------------------------------------------------------------------
(* What the main flow awaits.                                              *)

(* No step takes an abort request back. *)
LEMMA AbortStays ==
    ASSUME [Next]_abortVars, ~aborted'
    PROVE  ~aborted
<1>1. CASE Call \/ Note \/ Abort \/ closeStore
  BY <1>1 DEF Call, Note, Abort, closeStore, writePendingStage,
     writeStageProgress, completeStage, writePendingArtifact,
     completeArtifact, awaitArtifactReview, writeFailedArtifact,
     ArtifactCall, recordStageStarted, recordJudgeProgress, stopAtCeiling,
     updatePendingStage, markAborted, memory
<1>2. CASE Chain \/ WriteFails
  BY <1>2 DEF Chain, WriteFails, SkipTransition, StartTransition,
     StartPendingStage, StartCompleteStage, StartStageEvent, StartWrite,
     RunArtifactReview, RunRecord, StartRecord, ContinueRecord, WriteLands,
     FinishTransition, FailTransition
<1>3. CASE UNCHANGED abortVars
  BY <1>3 DEF abortVars, memory
<1>4. QED
  BY <1>1, <1>2, <1>3 DEF Next

(* With no abort requested, the chain never runs the abort's record. *)
LEMMA NoRecord ==
    ASSUME IInv, ~aborted, RunRecord
    PROVE  FALSE
<1>1. TypeOK /\ SafetyInv /\ ~recorded
  BY DEF IInv, SafetyInv, QueueInv
<1>2. CASE StartRecord
  <2>1. queue # <<>> /\ Current.call = "record"
    BY <1>2 DEF StartRecord, Runs
  <2>2. Len(queue) \in Nat \ {0} /\ Current = queue[1]
    BY <1>1, <2>1, TailQueue DEF TypeOK, Current
  <2>3. RecordWaiting
    BY <2>1, <2>2 DEF RecordWaiting
  <2>4. QED
    BY <1>1, <2>3 DEF SafetyInv, QueueInv
<1>3. CASE ContinueRecord
  BY <1>1, <1>3, RecordPhases DEF ContinueRecord
<1>4. QED
  BY <1>2, <1>3 DEF RunRecord

(* A call made with an empty chain leaves it alone in the chain. *)
LEMMA OneCall ==
    ASSUME queue = <<>>, NEW call, NEW s, NEW status,
           Enqueue(call, s, status)
    PROVE  Len(queue') = 1 /\ queue'[1].call = call
  BY DEF Enqueue

(* The end of the one transition leaves the chain empty. *)
LEMMA LastCall ==
    ASSUME TypeOK, Len(queue) = 1, Resolve
    PROVE  queue' = <<>> /\ Current = queue[1]
<1>1. queue \in Seq(Transitions)
  BY DEF TypeOK
<1>2. queue # <<>>
  <2>1. Len(<<>>) = 0
    BY EmptySeq
  <2>2. QED
    BY <2>1
<1>3. Tail(queue) \in Seq(Transitions) /\ Len(Tail(queue)) = 0
        /\ Head(queue) = queue[1]
  BY <1>1, <1>2, TailQueue
<1>4. QED
  BY <1>3, EmptySeq DEF Resolve, Current

(* What is awaited follows the main flow. *)
LEMMA AwaitStep ==
    ASSUME IInv, StageInv, AwaitInv, JudgedStageIsPending, [RunNext]_runVars
    PROVE  AwaitInv' /\ JudgedStageIsPending'
<1> SUFFICES ASSUME ~aborted'
             PROVE  AwaitInv' /\ JudgedStageIsPending'
  BY DEF AwaitInv, JudgedStageIsPending
<1>a. ~aborted /\ ~recorded /\ TypeOK
  BY ComponentStep, AbortStays DEF IInv, QueueInv
<1>b. pc \notin AwaitCall => queue = <<>>
  BY <1>a DEF AwaitInv
<1>q. ASSUME pc \notin AwaitCall, pc' \notin AwaitCall, pc' \notin Judging,
             queue' = queue
      PROVE  AwaitInv' /\ JudgedStageIsPending'
  BY <1>b, <1>q DEF AwaitInv, JudgedStageIsPending, Judging
<1>k. ASSUME UNCHANGED flow, queue' = queue, pendingStage' = pendingStage
      PROVE  AwaitInv' /\ JudgedStageIsPending'
  BY <1>a, <1>k DEF flow, AwaitInv, JudgedStageIsPending
<1> USE DEF At, Go
<1>1. CASE Preparation
  <2>1. queue' = queue
    BY <1>1 DEF Preparation, CloneTarget, claimTarget, KeepSource, CloneFails,
       DiscardClone, recordInitialRunManifest, recordCheckpoint,
       recordRetentionRef, retainInTarget, closeStore, abortVars, memory
  <2>2. pc \notin AwaitCall /\ pc' \notin AwaitCall /\ pc' \notin Judging
    BY <1>1 DEF Preparation, CloneTarget, claimTarget, KeepSource, CloneFails,
       DiscardClone, recordInitialRunManifest, recordCheckpoint,
       recordRetentionRef, retainInTarget, AwaitCall, Judging, flow
  <2>3. QED
    BY <1>q, <2>1, <2>2
<1>2. CASE GradedStages
  <2>1. CASE PauseAtBoundary \/ beginGradedStage \/ judgeRunCandidate
    BY <1>q, <2>1 DEF PauseAtBoundary, beginGradedStage, judgeRunCandidate,
       recordStageStarted, abortVars, memory, AwaitCall, Judging
  <2>2. CASE publishPendingStage
    <3>1. writePendingStage(stage) /\ pc' = "writePendingStage"
          /\ stage' = stage /\ queue = <<>>
      BY <1>a, <1>b, <2>2 DEF publishPendingStage, CallOr, AwaitCall
    <3>2. Len(queue') = 1 /\ queue'[1].call = "writePendingStage"
          /\ pendingStage' = stage
      BY <3>1, OneCall DEF writePendingStage
    <3>3. QED
      BY <3>1, <3>2 DEF AwaitInv, AwaitedCall, AwaitCall,
                        JudgedStageIsPending
  <2>3. CASE prepareStageJudgment
    BY <1>a, <1>b, <2>3 DEF prepareStageJudgment, updatePendingStage,
       AwaitInv, AwaitCall, JudgedStageIsPending
  <2>4. CASE reviewStoppedStage
    BY <1>a, <1>b, <2>4 DEF reviewStoppedStage, updatePendingStage,
       AwaitInv, AwaitCall, JudgedStageIsPending
  <2>5. CASE StagePasses
    <3>1. completeStage /\ pc = "judge" /\ pc' = "recordPass"
          /\ stage' = stage /\ queue = <<>>
      BY <1>a, <1>b, <2>5 DEF StagePasses, CallOr, AwaitCall
    <3>2. Len(queue') = 1 /\ queue'[1].call = "completeStage"
          /\ pendingStage' = pendingStage
      BY <3>1, OneCall DEF completeStage
    <3>3. QED
      BY <1>a, <3>1, <3>2 DEF AwaitInv, AwaitedCall, AwaitCall,
                              JudgedStageIsPending
  <2>6. CASE StageStops
    <3>1. writeStageProgress /\ pc = "judge" /\ pc' = "recordStop"
          /\ stage' = stage /\ queue = <<>>
      BY <1>a, <1>b, <2>6 DEF StageStops, CallOr, AwaitCall
    <3>2. Len(queue') = 1 /\ queue'[1].call = "writeStageProgress"
          /\ pendingStage' = pendingStage
      BY <3>1, OneCall DEF writeStageProgress
    <3>3. QED
      BY <1>a, <3>1, <3>2 DEF AwaitInv, AwaitedCall, AwaitCall,
                              JudgedStageIsPending
  <2>7. CASE calibrateStageFailure
    <3>1. completeStage /\ pc = "calibrateStage" /\ pc' = "completeStopped"
          /\ stage' = stage /\ queue = <<>>
      BY <1>a, <1>b, <2>7 DEF calibrateStageFailure, CallOr, AwaitCall
    <3>2. Len(queue') = 1 /\ queue'[1].call = "completeStage"
          /\ pendingStage' = pendingStage
      BY <3>1, OneCall DEF completeStage
    <3>3. QED
      BY <1>a, <3>1, <3>2 DEF AwaitInv, AwaitedCall, AwaitCall,
                              JudgedStageIsPending
  <2>8. QED
    BY <1>2, <2>1, <2>2, <2>3, <2>4, <2>5, <2>6, <2>7 DEF GradedStages
<1>3. CASE Candidate
  <2>1. CASE finishPausedRun
    BY <1>q, <2>1 DEF finishPausedRun, abortVars, memory, AwaitCall, Judging
  <2>2. ASSUME NEW p \in {"writeFailedArtifact", "writePendingArtifact",
                          "awaitArtifactReview", "completeArtifact"},
               pc \notin AwaitCall, pc' = p,
               NEW s, NEW status, Enqueue(p, s, status)
        PROVE  AwaitInv' /\ JudgedStageIsPending'
    <3>1. Len(queue') = 1 /\ queue'[1].call = p
      BY <1>b, <2>2, OneCall
    <3>2. p \in AwaitCall /\ AwaitedCall[p] = p
      BY DEF AwaitCall, AwaitedCall
    <3>3. QED
      BY <2>2, <3>1, <3>2 DEF AwaitInv, JudgedStageIsPending
  <2>3. CASE FinalJudgeFailsPaid
    BY <2>2, <2>3 DEF FinalJudgeFailsPaid, writeFailedArtifact, ArtifactCall,
       AwaitCall
  <2>4. CASE FinalJudgeGrades
    BY <1>a, <2>2, <2>4 DEF FinalJudgeGrades, CallOr, writePendingArtifact,
       ArtifactCall, AwaitCall
  <2>5. CASE finishGradedRun
    BY <1>a, <2>2, <2>5 DEF finishGradedRun, CallOr, awaitArtifactReview,
       AwaitCall
  <2>6. CASE collectCalibration
    BY <1>a, <2>2, <2>6 DEF collectCalibration, CallOr, completeArtifact,
       ArtifactCall, AwaitCall
  <2>7. QED
    BY <1>3, <2>1, <2>3, <2>4, <2>5, <2>6 DEF Candidate
<1>4. CASE WorkFails
  BY <1>q, <1>4 DEF WorkFails, Work, stopAtCeiling, abortVars, memory,
     AwaitCall, Judging
<1>5. CASE CallReturns \/ CallThrows
  <2>1. Len(queue) = 1 /\ queue[1].call = AwaitedCall[pc] /\ pc \in AwaitCall
    BY <1>a, <1>5 DEF CallReturns, CallThrows, AwaitInv
  <2>2. Resolve /\ ~SkipTransition
    BY <1>a, <1>5 DEF CallReturns, CallThrows, SkipTransition,
       RunArtifactReview, FinishTransition, FailTransition
  <2>3. queue' = <<>> /\ Current.call = AwaitedCall[pc]
    BY <1>a, <2>1, <2>2, LastCall
  <2>4. pc' \notin AwaitCall /\ stage' = stage
    BY <1>5 DEF CallReturns, CallThrows, AfterCall, AwaitCall
  <2>5. CASE pc \in {"writePendingStage", "recordStop"}
    <3>1. Current.call # "completeStage"
      BY <2>3, <2>5 DEF AwaitedCall, AwaitCall
    <3>2. pendingStage' = pendingStage
      BY <1>5, <2>2, <3>1 DEF CallReturns, CallThrows, RunArtifactReview,
         FinishTransition, FailTransition
    <3>3. QED
      BY <1>a, <2>3, <2>4, <2>5, <3>2 DEF AwaitInv, JudgedStageIsPending
  <2>6. CASE pc \notin {"writePendingStage", "recordStop"}
    <3>1. pc' \notin Judging
      BY <1>5, <2>1, <2>6 DEF CallReturns, CallThrows, AfterCall, AwaitCall,
                              Judging
    <3>2. QED
      BY <2>3, <2>4, <3>1 DEF AwaitInv, JudgedStageIsPending, Judging
  <2>7. QED
    BY <2>5, <2>6
<1>m. ASSUME NEW operatorStop, Mark(operatorStop) PROVE FALSE
  BY <1>a, <1>m DEF Mark, markAborted
<1>6. CASE Finish
  <2>1. ~reportRunFailure
    BY <1>m DEF reportRunFailure
  <2>2. queue' = queue
    BY <1>6, <2>1 DEF Finish, reportError, FailureRecorded,
       pauseForFailureInspection, recordPaused, CloseBegins, CloseEnds,
       MainExits, closeStore, abortVars, memory
  <2>3. pc \notin AwaitCall /\ pc' \notin AwaitCall /\ pc' \notin Judging
    BY <1>6, <2>1 DEF Finish, reportError, FailureRecorded,
       pauseForFailureInspection, recordPaused, CloseBegins, CloseEnds,
       MainExits, AwaitCall, Judging, flow
  <2>4. QED
    BY <1>q, <2>2, <2>3
<1>7. CASE JudgeProgress
  BY <1>k, <1>7 DEF JudgeProgress, recordJudgeProgress, memory
<1>8. CASE ChainStep
  <2>1. UNCHANGED flow /\ (StartTransition \/ WriteLands \/ WriteFails)
    BY <1>a, <1>8, NoRecord DEF ChainStep
  <2>2. queue' = queue /\ pendingStage' = pendingStage
    BY <2>1 DEF StartTransition, StartPendingStage, StartCompleteStage,
       StartStageEvent, StartWrite, Await, WriteLands, WriteFails
  <2>3. QED
    BY <1>k, <2>1, <2>2
<1>9. CASE SignalHandler \/ Signal
  BY <1>k, <1>m, <1>9 DEF SignalHandler, KilledCommandExits,
     HandlerTearsDown, HandlerExits, Signal, SignalKills, SignalMarks,
     abortVars, memory
<1>10. CASE UNCHANGED <<abortVars, flow>>
  BY <1>k, <1>10 DEF abortVars, memory
<1>11. QED
  BY <1>1, <1>2, <1>3, <1>4, <1>5, <1>6, <1>7, <1>8, <1>9, <1>10
     DEF RunNext, MainFlow, runCommand, CommandExits, Teardown, releaseClone,
         discardClone, StopServices, requestPause, Crash, runVars

(* While a stage is judged and no abort was requested, it is the stage      *)
(* RunAbort holds pending, for every pipeline and every outcome.            *)
THEOREM JudgedPending == RunSpec => []JudgedStageIsPending
<1>1. RunInit => RunInv
  BY InitIInv, RunAbortAssumption DEF RunInit, InitAbort, RunInv, StageInv,
     InStage, Judging, Stages, AwaitInv, AwaitCall, JudgedStageIsPending
<1>2. RunInv /\ [RunNext]_runVars => RunInv'
  BY StageStep, ComponentStep, NextIInv, AwaitStep DEF RunInv
<1>3. RunInv => JudgedStageIsPending
  BY DEF RunInv
<1>4. QED
  BY <1>1, <1>2, <1>3, PTL DEF RunSpec

(* What any caller of RunAbort may rely on holds of every run: at most one  *)
(* stopped stage, a finished record complete, and nothing written over it.  *)
THEOREM RunRecords ==
    RunSpec => []OneStoppedStage /\ []AbortRecordsPending /\ AbortIsFinal
  BY RunImplementsAbort, OneStop, PendingRecorded, Final, PTL

-----------------------------------------------------------------------------
(* The commits of the run.                                                 *)

(* Without a signal only the main flow tears down, at its end, and the      *)
(* checkout goes after the copy.                                            *)
CommitInv ==
    handler = "idle" =>
       /\ teardown # "none" => pc \in {"tearing", "done"}
       /\ teardown = "discard" => targetPin = clonePin
       /\ clone = "removed" => targetPin = clonePin /\ pc \in {"tearing", "done"}
       /\ pc \in {"cloning", "claimed", "discarding"} => targetPin = clonePin
       /\ clone = "removed" => teardown # "copy"

(* A step of the run keeps it, whatever fails. *)
LEMMA CommitStep ==
    ASSUME CommitInv, [RunNext]_runVars
    PROVE  CommitInv'
<1> USE DEF CommitInv, At, Go, flow, process, checkout
<1>1. CASE Preparation
  BY <1>1 DEF Preparation, CloneTarget, claimTarget, KeepSource, CloneFails,
     DiscardClone, recordInitialRunManifest, recordCheckpoint,
     recordRetentionRef, retainInTarget
<1>2. CASE GradedStages
  BY <1>2 DEF GradedStages, PauseAtBoundary, beginGradedStage,
     judgeRunCandidate, publishPendingStage, prepareStageJudgment,
     StagePasses, StageStops, reviewStoppedStage, calibrateStageFailure,
     CallOr
<1>3. CASE Candidate
  BY <1>3 DEF Candidate, FinalJudgeFailsPaid, FinalJudgeGrades,
     finishGradedRun, finishPausedRun, collectCalibration, CallOr
<1>4. CASE WorkFails
  BY <1>4 DEF WorkFails, Work
<1>5. CASE CallReturns \/ CallThrows
  BY <1>5 DEF CallReturns, CallThrows, AfterCall, AwaitCall
<1>6. CASE Finish
  BY <1>6 DEF Finish, reportError, reportRunFailure, FailureRecorded,
     pauseForFailureInspection, recordPaused, CloseBegins, StartTeardown,
     CloseEnds, MainExits
<1>7. CASE Teardown
  BY <1>7 DEF Teardown, releaseClone, discardClone, StopServices
<1>8. CASE SignalHandler \/ Signal
  BY <1>8 DEF SignalHandler, KilledCommandExits, HandlerTearsDown,
     HandlerExits, Signal, SignalKills, SignalMarks
<1>9. QED
  BY <1>1, <1>2, <1>3, <1>4, <1>5, <1>6, <1>7, <1>8
     DEF RunNext, MainFlow, runCommand, CommandExits, JudgeProgress,
         ChainStep, requestPause, Crash, runVars

(* Without a signal, a removed checkout took no pinned commit with it.      *)
THEOREM CommitsKept == RunSpec => []CommitsKeptWithoutSignal
<1>1. RunInit => CommitInv
  BY DEF RunInit, CommitInv
<1>2. CommitInv /\ [RunNext]_runVars => CommitInv'
  BY CommitStep
<1>3. CommitInv => CommitsKeptWithoutSignal
  BY DEF CommitInv, CommitsKeptWithoutSignal
<1>4. QED
  BY <1>1, <1>2, <1>3, PTL DEF RunSpec

-----------------------------------------------------------------------------
(***************************************************************************)
(* What the run reads as, with the server's reconciliation pass beside it, *)
(* whatever signals and crashes meet it.                                   *)
(*                                                                         *)
(* The readings are taken from the files alone, so the invariant relates   *)
(* the place of the main flow to what it has written by then: how a run    *)
(* ends (EndInv), which stages are accepted (AcceptInv), that nothing is   *)
(* left to write once the artifact is released (ReleaseInv), and what a    *)
(* pass that has read half of the run still may rely on (PassInv).         *)
(***************************************************************************)
(* The main flow's places after the last stage, at its end, and at which    *)
(* the artifact has been dealt with.                                        *)
Deciding == {"finalJudge", "writeFailedArtifact", "writePendingArtifact",
             "judged", "awaitArtifactReview", "calibrate",
             "completeArtifact"}
Ending == {"awaitRecord", "inspect", "closing", "tearing", "done"}
PastArtifact ==
    \/ pc \in {"failing", "failed"} \cup Ending
    \/ pc \in {"pin", "copy"} /\ stage = N + 1

LatestIsTerminal == events # <<>> /\ IsTerminal(LatestEvent.kind)

(* What the place of the main flow says of the stage and the checkout. *)
FlowInv ==
    /\ pc = "pausing" => stage \in Stages
    /\ pc \in Deciding => stage = N + 1
    /\ manifest => pc \notin {"cloning", "claimed", "discarding", "prepare"}
    /\ manifest \/ pc \in {"claimed", "prepare"} =>
          clone \in {"claimed", "removed"}

(* The handler tears down once the record is done. *)
HandlerInv == handler \in {"tearing", "exited"} => RecordDone

(* What a pass that began after the process ended has seen still holds. *)
PassInv ==
    (pass.afterEnd /\ pass.at # "idle") =>
       /\ proc # "running"
       /\ events # <<>>
       /\ ~IsTerminal(LatestEvent.kind)
       /\ pass.at \in {"manifest", "marker", "alive", "append"} =>
             artifact = "none"
       /\ pass.at \in {"alive", "append"} => clone = "claimed"

(* What any pass has seen that never changes again. *)
SeenInv ==
    /\ pass.at # "idle" => events # <<>>
    /\ pass.at \in {"marker", "alive", "append"} => manifest

(* No pass calls a live run interrupted. *)
InterruptInv ==
    proc = "running" =>
       /\ pass.at # "append"
       /\ \A i \in 1..Len(events) : events[i].kind # "run-interrupted"

(* How a run that no signal reached ends: with a terminal event, its last,  *)
(* or with paused.json, before it tears down.                               *)
UnabortedEnd ==
    /\ pc \notin {"awaitRecord", "inspect"}
    /\ pc \in {"writePendingArtifact", "judged", "awaitArtifactReview"} =>
          pendingArtifact # "none"
    /\ terminalRecorded => PastArtifact
    /\ (pc \in {"pin", "copy"} /\ stage = N + 1) => terminalRecorded
    /\ (~Faulty /\ manifest /\ pc \in {"closing", "tearing", "done"}) =>
          terminalRecorded \/ pausedFile # NoStage

FailedEnd ==
    /\ pc \in Ending
    /\ ~snapshot.operatorStop
    /\ phase # "operatorStop"
    /\ phase # "queued" => terminalRecorded
    /\ IF queue = <<>>
         THEN terminalRecorded
         ELSE /\ pc = "awaitRecord"
              /\ Len(queue) = 1
              /\ queue[1].call = "record"

(* What both share: the store is open to the end. *)
StoreInv ==
    /\ storeOpen \/ pc = "done"
    /\ (terminalRecorded /\ ~Faulty) => LatestIsTerminal

EndInv ==
    /\ ~aborted => UnabortedEnd
    /\ (aborted /\ handler = "idle") => FailedEnd
    /\ (~aborted \/ handler = "idle") => StoreInv

(* What a reading of a live run that no signal reached may rely on: one     *)
(* begun after the end was recorded never comes to ask for the claim, and   *)
(* one that found the claim gone raced the end.                             *)
Live == proc = "running" /\ handler = "idle" /\ ~Faulty

Ended == terminalRecorded \/ pausedFile # NoStage

ReaderInv ==
    /\ reader.at \in {"marker", "alive"} => manifest
    /\ Live =>
          /\ reader.ended => Ended
          /\ reader.ended =>
                reader.at \notin {"unjudged", "manifest", "marker", "alive",
                                  "interrupted"}
          /\ (reader.ended /\ reader.at \in {"stop", "latest"}) =>
                terminalRecorded
          /\ reader.at = "interrupted" => Ended

(* The event store of a live run ends with a terminal event only once the   *)
(* run has noted it. *)
TerminalInv == (proc = "running" /\ LatestIsTerminal) => terminalRecorded

(* While no abort is requested: what is pending is the stage the flow is    *)
(* in, not accepted yet, and a stage is accepted once its record is JUDGED. *)
OpenStage(s) == s = stage /\ s \notin checkpoints

Accepting ==
    /\ unaborted.accepted = checkpoints \cap Stages
    /\ pc \in InStage => stage \notin checkpoints
    /\ pendingStage # NoStage =>
          pc \in Judging \cup {"failing", "failed"} /\ OpenStage(pendingStage)
    /\ ceilingStop # NoStage =>
          pc \in {"failing", "failed"} /\ OpenStage(ceilingStop)
    /\ pc \in Judging \cap AwaitCall => queue[1].stage = stage
    /\ (pc = "recordPass" /\ io = "landed") => stageFile[stage] = "JUDGED"
    /\ (pc = "checkpoint" /\ stage \in Stages) => stageFile[stage] = "JUDGED"

(* Nothing queued, and no stop, names a stage accepted before the abort. *)
QueuedStages ==
    \A i \in 1..Len(queue) :
       queue[i].call \in StageCalls =>
          queue[i].stage \in Stages \ unaborted.accepted

AcceptInv ==
    /\ checkpoints \subseteq 0..stage
    /\ QueuedStages
    /\ \A s \in unaborted.accepted : stageFile[s] = "JUDGED"
    /\ aborted => StoppedStage \notin unaborted.accepted
    /\ ~aborted => Accepting

(* Once the artifact is released nothing is left that would write it. *)
Settled ==
    /\ PastArtifact
    /\ artifact # "FAILED"
    /\ \A i \in 1..Len(queue) : queue[i].call = "record"
    /\ phase # "artifactStop"
    /\ pendingArtifact = "none"
    /\ aborted => snapshot.artifact = "none"

FailedPlaces == {"writeFailedArtifact", "failing", "failed"}

Releasing ==
    /\ unaborted.released = HasEvent("run-completed")
    /\ artifact = "FAILED" => pc \in FailedPlaces
    /\ \A i \in 1..Len(queue) :
          queue[i].call \in {"writePendingArtifact", "completeArtifact"}
             => queue[i].artifact # "FAILED"

ReleaseInv ==
    /\ ~aborted => Releasing
    /\ unaborted.released => Settled

-----------------------------------------------------------------------------
(* The server's pass beside the run.                                       *)

ReportInv ==
    /\ RunInv
    /\ ReportTypeOK
    /\ CommitInv
    /\ FlowInv
    /\ HandlerInv
    /\ PassInv
    /\ SeenInv
    /\ InterruptInv
    /\ EndInv
    /\ TerminalInv
    /\ ReaderInv
    /\ AcceptInv
    /\ ReleaseInv

(* Nothing of the run moves once its process has ended. *)
LEMMA EndedRunIsStill ==
    ASSUME RunNext
    PROVE  proc = "running"
<1>1. CASE MainFlow
  BY <1>1 DEF MainFlow, Preparation, CloneTarget, claimTarget, KeepSource,
     CloneFails, DiscardClone, recordInitialRunManifest, recordCheckpoint,
     recordRetentionRef, retainInTarget, GradedStages, PauseAtBoundary,
     beginGradedStage, judgeRunCandidate, publishPendingStage,
     prepareStageJudgment, StagePasses, StageStops, reviewStoppedStage,
     calibrateStageFailure, Candidate, FinalJudgeFailsPaid,
     FinalJudgeGrades, finishGradedRun, finishPausedRun, collectCalibration,
     WorkFails, CallReturns, CallThrows, Finish, reportError,
     reportRunFailure, FailureRecorded, pauseForFailureInspection,
     recordPaused, CloseBegins, CloseEnds, MainExits, At
<1>2. QED
  BY <1>1 DEF RunNext, runCommand, CommandExits, JudgeProgress, ChainStep,
     Teardown, releaseClone, discardClone, StopServices, SignalHandler,
     KilledCommandExits, HandlerTearsDown, HandlerExits, Signal,
     SignalKills, SignalMarks, requestPause, Crash

(* What the pass may change of the run: one event at the end. *)
PassOnly ==
    /\ UNCHANGED <<memory, artifact, stageFile, stopFile, flow, process,
                   checkout>>
    /\ \/ UNCHANGED events
       \/ /\ pass.at = "append"
          /\ events' = Append(events, [kind |-> "run-interrupted",
                                       stage |-> pass.stage])

LEMMA ReconcileFrame ==
    ASSUME reconcileInterruptedRuns
    PROVE  PassOnly
  BY DEF reconcileInterruptedRuns, readLatest, artifactExists, loadManifest,
     readMarker, isAlive, appendInterrupted, PassOnly, runVars, abortVars,
     disk

(* A step of the whole is a step of the run, or one of the pass's; a        *)
(* reader's changes neither.                                                *)
LEMMA ReportStep ==
    ASSUME [ReportNext]_reportVars
    PROVE  \/ /\ [RunNext]_runVars
              /\ UNCHANGED pass
              /\ NoteUnaborted \/ UNCHANGED <<runVars, unaborted>>
           \/ PassOnly /\ reconcileInterruptedRuns /\ NoteUnaborted
<1>1. CASE UNCHANGED reportVars
  BY <1>1 DEF reportVars
<1>2. CASE ReportNext
  BY <1>2, ReconcileFrame DEF ReportNext, readRunEnding
<1>3. QED
  BY <1>1, <1>2

(* Who moves the reader: a reading, and a server that starts. *)
LEMMA ReaderStep ==
    ASSUME [ReportNext]_reportVars
    PROVE  \/ UNCHANGED reader
           \/ reader' = NoReading /\ UNCHANGED runVars
           \/ readRunEnding
<1>1. CASE UNCHANGED reportVars
  BY <1>1 DEF reportVars
<1>2. CASE reconcileInterruptedRuns
  BY <1>2 DEF reconcileInterruptedRuns, readLatest, artifactExists,
     loadManifest, readMarker, isAlive, appendInterrupted, PassBegins,
     PassGoes
<1>3. QED
  BY <1>1, <1>2 DEF ReportNext

(* The pass leaves alone what the invariants of the run read. *)
LEMMA PassKeepsRun ==
    ASSUME RunInv, CommitInv, FlowInv, HandlerInv, ReportTypeOK, PassOnly
    PROVE  RunInv' /\ CommitInv' /\ FlowInv' /\ HandlerInv'
<1>1. IInv'
  <2>1. UNCHANGED <<queue, phase, io, ChainState>>
    BY DEF PassOnly, memory, ChainState
  <2>2. SafetyInv'
    BY <2>1, QuietStep DEF RunInv, IInv, SafetyInv
  <2>3. events' \in Seq(Events)
    <3>1. [kind |-> "run-interrupted", stage |-> pass.stage] \in Events
      BY DEF ReportTypeOK, Events, EventKinds, TerminalKinds
    <3>2. events \in Seq(Events)
      BY DEF ReportTypeOK, RunTypeOK, TypeOK
    <3>3. QED
      BY <3>1, <3>2, AppendQueue DEF PassOnly
  <2>4. TypeOK'
    BY <2>3 DEF PassOnly, memory, RunInv, IInv, TypeOK
  <2>5. QED
    BY <2>2, <2>4 DEF IInv, SafetyInv
<1>2. StageInv' /\ AwaitInv' /\ JudgedStageIsPending'
  BY DEF PassOnly, memory, flow, RunInv, StageInv, AwaitInv,
     JudgedStageIsPending
<1>3. CommitInv' /\ FlowInv'
  BY DEF PassOnly, process, checkout, flow, CommitInv, FlowInv
<1>4. HandlerInv'
  BY DEF PassOnly, memory, process, HandlerInv, RecordDone, RecordWaiting
<1>5. QED
  BY <1>1, <1>2, <1>3, <1>4 DEF RunInv

-----------------------------------------------------------------------------
(* Types.                                                                  *)

(* What the steps of each part of the run leave alone.                      *)

CloseSteps == {"failing", "failed", "awaitRecord", "inspect", "pausing",
               "closing", "tearing", "done"}

(* The end of the main flow moves only there. *)
LEMMA FinishFrame ==
    ASSUME Finish
    PROVE  /\ pc \in CloseSteps
           /\ pc' \in CloseSteps \ {"failing", "pausing"}
           /\ UNCHANGED <<stage, calibrated, cmd, handler, source>>
           /\ UNCHANGED <<clone, manifest, pauseRequest, checkpoints, clonePin,
                          targetPin>>
<1> USE DEF At, Go, CloseSteps, process, checkout
<1>1. CASE reportError \/ reportRunFailure
  BY <1>1 DEF reportError, reportRunFailure
<1>2. CASE FailureRecorded \/ pauseForFailureInspection
  BY <1>2 DEF FailureRecorded, pauseForFailureInspection
<1>3. CASE recordPaused
  BY <1>3 DEF recordPaused
<1>4. CASE CloseBegins
  BY <1>4 DEF CloseBegins
<1>5. CASE CloseEnds
  BY <1>5 DEF CloseEnds
<1>6. CASE MainExits
  BY <1>6 DEF MainExits, flow
<1>7. QED
  BY <1>1, <1>2, <1>3, <1>4, <1>5, <1>6 DEF Finish

(* The stages and the candidate leave the process and the checkout alone. *)
LEMMA WorkFrame ==
    ASSUME GradedStages \/ Candidate \/ WorkFails \/ CallReturns \/ CallThrows
    PROVE  UNCHANGED <<process, checkout>>
<1>1. CASE GradedStages
  BY <1>1 DEF GradedStages, PauseAtBoundary, beginGradedStage,
     judgeRunCandidate, publishPendingStage, prepareStageJudgment,
     StagePasses, StageStops, reviewStoppedStage, calibrateStageFailure
<1>2. CASE Candidate
  BY <1>2 DEF Candidate, FinalJudgeFailsPaid, FinalJudgeGrades,
     finishGradedRun, finishPausedRun, collectCalibration
<1>3. QED
  BY <1>1, <1>2 DEF WorkFails, CallReturns, CallThrows

(* Preparation moves the main flow and the checkout. *)
LEMMA PreparationFrame ==
    ASSUME Preparation
    PROVE  /\ pc \in {"cloning", "claimed", "discarding", "prepare",
                      "checkpoint", "pin", "copy"}
           /\ UNCHANGED <<stage, calibrated, cmd, handler, teardown, proc>>
           /\ UNCHANGED <<pauseRequest, pausedFile>>
<1> USE DEF At, Go, flow, process, checkout
<1>1. CASE CloneTarget \/ claimTarget \/ KeepSource \/ CloneFails
  BY <1>1 DEF CloneTarget, claimTarget, KeepSource, CloneFails
<1>2. CASE DiscardClone \/ recordInitialRunManifest
  BY <1>2 DEF DiscardClone, recordInitialRunManifest
<1>3. CASE recordCheckpoint \/ recordRetentionRef \/ retainInTarget
  BY <1>3 DEF recordCheckpoint, recordRetentionRef, retainInTarget
<1>4. QED
  BY <1>1, <1>2, <1>3 DEF Preparation

(* The other steps do not move the main flow. *)
LEMMA ProcessFrame ==
    ASSUME \/ runCommand \/ CommandExits \/ JudgeProgress \/ ChainStep
           \/ Teardown \/ SignalHandler \/ Signal \/ requestPause \/ Crash
    PROVE  /\ UNCHANGED flow
           /\ UNCHANGED <<manifest, pausedFile, checkpoints, clonePin>>
           /\ UNCHANGED <<registered, source>>
<1> USE DEF process, checkout
<1>1. CASE runCommand \/ CommandExits \/ JudgeProgress \/ ChainStep
  BY <1>1 DEF runCommand, CommandExits, JudgeProgress, ChainStep
<1>2. CASE Teardown
  BY <1>2 DEF Teardown, releaseClone, discardClone, StopServices
<1>3. CASE SignalHandler
  BY <1>3 DEF SignalHandler, KilledCommandExits, HandlerTearsDown,
     HandlerExits
<1>4. CASE Signal
  BY <1>4 DEF Signal, SignalKills, SignalMarks
<1>5. QED
  BY <1>1, <1>2, <1>3, <1>4 DEF requestPause, Crash

(* The place of the main flow keeps what it says. *)
LEMMA FlowStep ==
    ASSUME FlowInv, StageInv, [RunNext]_runVars
    PROVE  FlowInv'
<1>k. ASSUME UNCHANGED <<pc, stage, manifest>>,
             clone' = clone \/ clone' = "removed"
      PROVE  FlowInv'
  BY <1>k DEF FlowInv
<1>w. ASSUME UNCHANGED <<manifest, clone>>,
             pc' = "pausing" => stage' \in Stages,
             pc' \in Deciding => stage' = N + 1,
             pc' \notin {"cloning", "claimed", "discarding", "prepare"}
      PROVE  FlowInv'
  BY <1>w DEF FlowInv
<1>1. CASE Preparation
  <2>1. CASE CloneTarget \/ claimTarget \/ KeepSource \/ CloneFails
               \/ DiscardClone
    BY <2>1 DEF CloneTarget, claimTarget, KeepSource, CloneFails,
       DiscardClone, FlowInv, Deciding, At, Go, flow, checkout
  <2>2. CASE recordInitialRunManifest
    BY <2>2 DEF recordInitialRunManifest, FlowInv, Deciding, At, Go
  <2>3. CASE recordCheckpoint \/ recordRetentionRef \/ retainInTarget
    BY <1>w, <2>3 DEF recordCheckpoint, recordRetentionRef, retainInTarget,
       Deciding, At, Go
  <2>4. QED
    BY <1>1, <2>1, <2>2, <2>3 DEF Preparation
<1>2. CASE GradedStages
  <2>1. UNCHANGED <<manifest, clone>>
    BY <1>2, WorkFrame DEF checkout
  <2>2. /\ pc' = "pausing" => stage' \in Stages
        /\ pc' \in Deciding => stage' = N + 1
        /\ pc' \notin {"cloning", "claimed", "discarding", "prepare"}
    BY <1>2, RunAbortAssumption DEF GradedStages, PauseAtBoundary,
       beginGradedStage, judgeRunCandidate, publishPendingStage,
       prepareStageJudgment, StagePasses, StageStops, reviewStoppedStage,
       calibrateStageFailure, CallOr, Stages, Deciding, At, Go
  <2>3. QED
    BY <1>w, <2>1, <2>2
<1>3. CASE Candidate
  <2>1. UNCHANGED <<manifest, clone>>
    BY <1>3, WorkFrame DEF checkout
  <2>2. pc \in Deciding /\ stage' = stage
        /\ pc' \in Deciding \cup {"pin", "closing"}
    BY <1>3 DEF Candidate, FinalJudgeFailsPaid, FinalJudgeGrades,
       finishGradedRun, finishPausedRun, collectCalibration, CallOr,
       Deciding, At, Go
  <2>3. stage = N + 1
    BY <2>2 DEF FlowInv
  <2>4. QED
    BY <1>w, <2>1, <2>2, <2>3 DEF Deciding
<1>4. CASE WorkFails
  BY <1>4, <1>w, WorkFrame DEF WorkFails, Deciding, checkout
<1>5. CASE CallReturns \/ CallThrows
  <2>1. UNCHANGED <<manifest, clone>>
    BY <1>5, WorkFrame DEF checkout
  <2>2. /\ stage' = stage
        /\ pc' \in Deciding => pc \in Deciding
        /\ pc' \notin {"cloning", "claimed", "discarding", "prepare",
                       "pausing"}
    BY <1>5 DEF CallReturns, CallThrows, AfterCall, AwaitCall, Deciding, Go
  <2>3. QED
    BY <1>w, <2>1, <2>2 DEF FlowInv
<1>6. CASE Finish
  BY <1>6, <1>w, FinishFrame DEF CloseSteps, Deciding
<1>7. CASE Teardown
  BY <1>k, <1>7, ProcessFrame DEF Teardown, releaseClone, discardClone,
     StopServices, flow, checkout
<1>8. CASE SignalHandler \/ Signal
  <2>1. clone' = clone
    BY <1>8 DEF SignalHandler, KilledCommandExits, HandlerTearsDown,
       HandlerExits, Signal, SignalKills, SignalMarks, checkout
  <2>2. QED
    BY <1>k, <1>8, <2>1, ProcessFrame DEF flow
<1>9. CASE runCommand \/ CommandExits \/ JudgeProgress \/ ChainStep
             \/ requestPause \/ Crash \/ UNCHANGED runVars
  BY <1>k, <1>9 DEF runCommand, CommandExits, JudgeProgress, ChainStep,
     requestPause, Crash, runVars, flow, checkout
<1>10. QED
  BY <1>1, <1>2, <1>3, <1>4, <1>5, <1>6, <1>7, <1>8, <1>9
     DEF RunNext, MainFlow

-----------------------------------------------------------------------------
(* Types.                                                                  *)

(* The main flow goes from one of its places to another. *)
LEMMA PlaceType ==
    ASSUME pc \in PCs, [RunNext]_runVars
    PROVE  pc' \in PCs
<1>1. CASE Preparation
  BY <1>1 DEF Preparation, CloneTarget, claimTarget, KeepSource, CloneFails,
     DiscardClone, recordInitialRunManifest, recordCheckpoint,
     recordRetentionRef, retainInTarget, At, Go, flow, PCs, Work
<1>2. CASE GradedStages
  BY <1>2 DEF GradedStages, PauseAtBoundary, beginGradedStage,
     judgeRunCandidate, publishPendingStage, prepareStageJudgment,
     StagePasses, StageStops, reviewStoppedStage, calibrateStageFailure,
     CallOr, At, Go, PCs, Work, AwaitCall
<1>3. CASE Candidate
  BY <1>3 DEF Candidate, FinalJudgeFailsPaid, FinalJudgeGrades,
     finishGradedRun, finishPausedRun, collectCalibration, CallOr, Go, PCs,
     Work, AwaitCall
<1>4. CASE WorkFails
  BY <1>4 DEF WorkFails, PCs
<1>5. CASE CallReturns \/ CallThrows
  BY <1>5 DEF CallReturns, CallThrows, AfterCall, AwaitCall, Go, Work, PCs
<1>6. CASE Finish
  BY <1>6, FinishFrame DEF CloseSteps, PCs
<1>7. CASE \/ runCommand \/ CommandExits \/ JudgeProgress \/ ChainStep
           \/ Teardown \/ SignalHandler \/ Signal \/ requestPause \/ Crash
           \/ UNCHANGED runVars
  BY <1>7, ProcessFrame DEF flow, runVars
<1>8. QED
  BY <1>1, <1>2, <1>3, <1>4, <1>5, <1>6, <1>7 DEF RunNext, MainFlow

(* The types of the process, of the checkout and of what is pinned. *)
ProcessTypeOK ==
    /\ calibrated \in BOOLEAN
    /\ cmd \in {"none", "running", "killed"}
    /\ handler \in {"idle", "killing", "recording", "tearing", "exited"}
    /\ teardown \in {"none", "services", "copy", "discard", "done", "failed"}
    /\ registered \in BOOLEAN
    /\ source \in BOOLEAN
    /\ proc \in {"running", "exited", "killed"}

CheckoutTypeOK ==
    /\ clone \in {"none", "present", "claimed", "removed"}
    /\ manifest \in BOOLEAN
    /\ pauseRequest \in BOOLEAN
    /\ pausedFile \in Stages \cup {NoStage}
    /\ checkpoints \subseteq 0..N
    /\ clonePin \in 0..(N + 2)
    /\ targetPin \in 0..(N + 2)

LEMMA ProcessType ==
    ASSUME ProcessTypeOK, [RunNext]_runVars
    PROVE  ProcessTypeOK'
<1> USE DEF ProcessTypeOK
<1>1. CASE Preparation
  <2>1. registered' \in BOOLEAN /\ source' \in BOOLEAN
    BY <1>1 DEF Preparation, CloneTarget, claimTarget, KeepSource,
       CloneFails, DiscardClone, recordInitialRunManifest, recordCheckpoint,
       recordRetentionRef, retainInTarget, process
  <2>2. QED
    BY <1>1, <2>1, PreparationFrame
<1>2. CASE GradedStages \/ Candidate \/ WorkFails \/ CallReturns \/ CallThrows
  <2>1. calibrated' = calibrated \/ calibrated' = TRUE
    BY <1>2 DEF GradedStages, PauseAtBoundary, beginGradedStage,
       judgeRunCandidate, publishPendingStage, prepareStageJudgment,
       StagePasses, StageStops, reviewStoppedStage, calibrateStageFailure,
       Candidate, FinalJudgeFailsPaid, FinalJudgeGrades, finishGradedRun,
       finishPausedRun, collectCalibration, WorkFails, CallReturns,
       CallThrows, Go
  <2>2. UNCHANGED process
    BY <1>2, WorkFrame
  <2>3. QED
    BY <2>1, <2>2 DEF process
<1>3. CASE Finish
  <2>1. /\ teardown' \in {"none", "services", "copy", "discard", "done",
                          "failed"}
        /\ registered' \in BOOLEAN
        /\ proc' \in {"running", "exited", "killed"}
    BY <1>3 DEF Finish, reportError, reportRunFailure, FailureRecorded,
       pauseForFailureInspection, recordPaused, CloseBegins, StartTeardown,
       CloseEnds, MainExits, process
  <2>2. QED
    BY <1>3, <2>1, FinishFrame
<1>4. CASE \/ runCommand \/ CommandExits \/ JudgeProgress \/ ChainStep
           \/ Teardown \/ SignalHandler \/ Signal \/ requestPause \/ Crash
  <2>1. UNCHANGED <<calibrated, registered, source>>
    BY <1>4, ProcessFrame DEF flow
  <2>2. CASE runCommand \/ CommandExits \/ JudgeProgress \/ ChainStep
               \/ requestPause \/ Crash
    BY <2>1, <2>2 DEF runCommand, CommandExits, JudgeProgress, ChainStep,
       requestPause, Crash, process
  <2>3. CASE Teardown
    BY <2>1, <2>3 DEF Teardown, releaseClone, discardClone, StopServices
  <2>4. CASE SignalHandler \/ Signal
    BY <2>1, <2>4 DEF SignalHandler, KilledCommandExits, HandlerTearsDown,
       HandlerExits, StartTeardown, Signal, SignalKills, SignalMarks
  <2>5. QED
    BY <1>4, <2>2, <2>3, <2>4
<1>5. CASE UNCHANGED runVars
  BY <1>5 DEF runVars, flow, process
<1>6. QED
  BY <1>1, <1>2, <1>3, <1>4, <1>5 DEF RunNext, MainFlow

LEMMA CheckoutType ==
    ASSUME CheckoutTypeOK, StageInv, FlowInv, [RunNext]_runVars
    PROVE  CheckoutTypeOK'
<1> USE DEF CheckoutTypeOK
<1>1. CASE Preparation
  <2>1. checkpoints' \subseteq 0..N
    BY <1>1 DEF Preparation, CloneTarget, claimTarget, KeepSource,
       CloneFails, DiscardClone, recordInitialRunManifest, recordCheckpoint,
       recordRetentionRef, retainInTarget, StageInv, checkout, At
  <2>2. clonePin' \in 0..(N + 2) /\ targetPin' \in 0..(N + 2)
    BY <1>1, RunAbortAssumption DEF Preparation, CloneTarget, claimTarget,
       KeepSource, CloneFails, DiscardClone, recordInitialRunManifest,
       recordCheckpoint, recordRetentionRef, retainInTarget, StageInv,
       Commit, checkout
  <2>3. clone' \in {"none", "present", "claimed", "removed"}
        /\ manifest' \in BOOLEAN
    BY <1>1 DEF Preparation, CloneTarget, claimTarget, KeepSource,
       CloneFails, DiscardClone, recordInitialRunManifest, recordCheckpoint,
       recordRetentionRef, retainInTarget, checkout
  <2>4. QED
    BY <1>1, <2>1, <2>2, <2>3, PreparationFrame
<1>2. CASE GradedStages \/ Candidate \/ WorkFails \/ CallReturns \/ CallThrows
  BY <1>2, WorkFrame DEF checkout
<1>3. CASE Finish
  <2>1. pausedFile' \in Stages \cup {NoStage}
    BY <1>3 DEF Finish, reportError, reportRunFailure, FailureRecorded,
       pauseForFailureInspection, recordPaused, CloseBegins, CloseEnds,
       MainExits, FlowInv, At, checkout
  <2>2. QED
    BY <1>3, <2>1, FinishFrame
<1>4. CASE Teardown
  BY <1>4, ProcessFrame DEF Teardown, releaseClone, discardClone,
     StopServices, checkout
<1>5. CASE SignalHandler \/ Signal
  BY <1>5 DEF SignalHandler, KilledCommandExits, HandlerTearsDown,
     HandlerExits, Signal, SignalKills, SignalMarks, checkout
<1>6. CASE \/ runCommand \/ CommandExits \/ JudgeProgress \/ ChainStep
           \/ requestPause \/ Crash \/ UNCHANGED runVars
  BY <1>6 DEF runCommand, CommandExits, JudgeProgress, ChainStep,
     requestPause, Crash, runVars, checkout
<1>7. QED
  BY <1>1, <1>2, <1>3, <1>4, <1>5, <1>6 DEF RunNext, MainFlow

(* The types of the run and of the pass. *)
LEMMA TypeStep ==
    ASSUME RunInv, FlowInv, ReportTypeOK, [ReportNext]_reportVars
    PROVE  ReportTypeOK'
<1>1. RunTypeOK'
  <2>1. CASE [RunNext]_runVars
    <3>1. TypeOK' /\ stage' \in 0..(N + 1)
      BY <2>1, StageStep, ComponentStep, NextIInv DEF RunInv, IInv, StageInv
    <3>2. pc' \in PCs /\ ProcessTypeOK' /\ CheckoutTypeOK'
      BY <2>1, PlaceType, ProcessType, CheckoutType DEF RunInv, ReportTypeOK,
         RunTypeOK, ProcessTypeOK, CheckoutTypeOK
    <3>3. QED
      BY <3>1, <3>2 DEF RunTypeOK, ProcessTypeOK, CheckoutTypeOK
  <2>2. CASE PassOnly
    <3>1. TypeOK'
      <4>1. [kind |-> "run-interrupted", stage |-> pass.stage] \in Events
        BY DEF ReportTypeOK, Events, EventKinds, TerminalKinds
      <4>2. events \in Seq(Events)
        BY DEF ReportTypeOK, RunTypeOK, TypeOK
      <4>3. events' \in Seq(Events)
        BY <2>2, <4>1, <4>2, AppendQueue DEF PassOnly
      <4>4. QED
        BY <2>2, <4>3 DEF PassOnly, memory, RunInv, IInv, TypeOK
    <3>2. QED
      BY <2>2, <3>1 DEF PassOnly, flow, process, checkout, ReportTypeOK,
         RunTypeOK
  <2>3. QED
    BY <2>1, <2>2, ReportStep
<1>2. pass' \in [at : Passes, stage : Stages \cup {NoStage},
                 afterEnd : BOOLEAN]
  <2>1. CASE readLatest
    <3>1. LatestEvent \in Events
      BY <2>1 DEF readLatest, LatestEvent, ReportTypeOK, RunTypeOK, TypeOK
    <3>2. QED
      BY <2>1, <3>1 DEF readLatest, PassBegins, Passes, Events
  <2>2. ASSUME NEW at \in Passes, PassGoes(at)
        PROVE  pass' \in [at : Passes, stage : Stages \cup {NoStage},
                          afterEnd : BOOLEAN]
    BY <2>2 DEF PassGoes, NoPass, Passes, ReportTypeOK
  <2>3. CASE artifactExists \/ loadManifest \/ readMarker \/ isAlive
               \/ appendInterrupted
    BY <2>2, <2>3 DEF artifactExists, loadManifest, readMarker, isAlive,
       appendInterrupted, Passes
  <2>4. CASE UNCHANGED pass
    BY <2>4 DEF ReportTypeOK
  <2>5. QED
    BY <2>1, <2>3, <2>4, ReportStep DEF reconcileInterruptedRuns
<1>3. unaborted' \in [accepted : SUBSET Stages, released : BOOLEAN]
  <2>1. HasEvent("run-completed")' \in BOOLEAN
    BY DEF HasEvent
  <2>2. QED
    BY <2>1, ReportStep DEF NoteUnaborted, ReportTypeOK
<1>4. reader' \in [at : Reads \cup {"idle", "interrupted"}, ended : BOOLEAN]
  <2>1. ASSUME NEW at \in Reads, ReaderGoes(at)
        PROVE  reader' \in [at : Reads \cup {"idle", "interrupted"},
                            ended : BOOLEAN]
    BY <2>1 DEF ReaderGoes, ReportTypeOK
  <2>2. ASSUME NEW ending, Answers(ending)
        PROVE  reader' \in [at : Reads \cup {"idle", "interrupted"},
                            ended : BOOLEAN]
    BY <2>2 DEF Answers, NoReading, ReportTypeOK
  <2>3. ASSUME NEW at, NEW found, NEW ending, NEW next \in Reads,
               ReadRecord(at, found, ending, next)
        PROVE  reader' \in [at : Reads \cup {"idle", "interrupted"},
                            ended : BOOLEAN]
    BY <2>1, <2>2, <2>3 DEF ReadRecord
  <2>4. CASE readRunEnding
    <3>1. CASE beginReading
      BY <3>1 DEF beginReading, EndRecorded, Reads
    <3>2. CASE recordedEnding \/ ownMarker
      BY <2>2, <2>3, <3>2 DEF recordedEnding, ownMarker, Reads
    <3>3. CASE eventEnding \/ awaitingJudgeStage \/ runClaim
      BY <2>1, <2>2, <3>3 DEF eventEnding, awaitingJudgeStage, runClaim, Reads
    <3>4. QED
      BY <2>4, <3>1, <3>2, <3>3 DEF readRunEnding
  <2>5. CASE reader' = NoReading
    BY <2>5 DEF NoReading
  <2>6. CASE UNCHANGED reader
    BY <2>6 DEF ReportTypeOK
  <2>7. QED
    BY <2>4, <2>5, <2>6, ReaderStep
<1>5. QED
  BY <1>1, <1>2, <1>3, <1>4 DEF ReportTypeOK

-----------------------------------------------------------------------------
(* The record of a signal's abort.                                         *)

(* A finished record stays finished: nothing queues another. *)
LEMMA RecordStaysDone ==
    ASSUME IInv, RecordDone, [Next]_abortVars
    PROVE  RecordDone'
<1>1. aborted /\ recorded /\ OnlyFailedArtifacts /\ queue \in Seq(Transitions)
  BY DEF IInv, QueueInv, RecordDone, TypeOK
<1>2. ASSUME recorded', queue' = queue PROVE RecordDone'
  BY <1>2 DEF RecordDone, RecordWaiting
<1>3. ASSUME recorded', queue # <<>>, Resolve PROVE RecordDone'
  <2>1. /\ Len(queue) \in Nat \ {0}
        /\ Len(queue') = Len(queue) - 1
        /\ \A i \in 1..Len(queue') : queue'[i] = queue[i + 1]
    BY <1>1, <1>3, TailQueue DEF Resolve
  <2>2. \A i \in 1..Len(queue') : queue'[i].call = "writeFailedArtifact"
    BY <1>1, <2>1 DEF OnlyFailedArtifacts
  <2>3. QED
    BY <1>3, <2>2 DEF RecordDone, RecordWaiting
<1>4. CASE Call
  <2>1. CASE writeFailedArtifact
    <3>1. recorded' /\ queue' = Append(queue, [call |-> "writeFailedArtifact",
                          stage |-> NoStage, artifact |-> "FAILED"])
      BY <1>1, <2>1 DEF writeFailedArtifact, ArtifactCall, Enqueue
    <3>2. [call |-> "writeFailedArtifact", stage |-> NoStage,
           artifact |-> "FAILED"] \in Transitions
      BY DEF Transitions, Calls, ArtifactStatus
    <3>3. /\ Len(queue) \in Nat
          /\ Len(queue') = Len(queue) + 1
          /\ \A i \in 1..Len(queue) : queue'[i] = queue[i]
          /\ queue'[Len(queue) + 1].call = "writeFailedArtifact"
      BY <1>1, <3>1, <3>2, AppendQueue
    <3>4. \A i \in 1..Len(queue') : queue'[i].call = "writeFailedArtifact"
      BY <1>1, <3>3 DEF OnlyFailedArtifacts
    <3>5. QED
      BY <3>1, <3>4 DEF RecordDone, RecordWaiting
  <2>2. CASE ~writeFailedArtifact
    BY <1>1, <1>2, <1>4, <2>2 DEF Call, writePendingStage, writeStageProgress,
       completeStage, writePendingArtifact, completeArtifact,
       awaitArtifactReview, recordStageStarted, recordJudgeProgress, memory
  <2>3. QED
    BY <2>1, <2>2
<1>5. CASE Note \/ Abort \/ WriteFails \/ closeStore \/ UNCHANGED abortVars
  BY <1>1, <1>2, <1>5 DEF Note, stopAtCeiling, updatePendingStage, Abort,
     markAborted, WriteFails, closeStore, abortVars, memory
<1>6. CASE Chain
  <2>1. CASE SkipTransition \/ RunArtifactReview
    BY <1>1, <1>3, <2>1 DEF SkipTransition, RunArtifactReview, Runs
  <2>2. CASE StartTransition \/ WriteLands
    BY <1>1, <1>2, <2>2 DEF StartTransition, StartPendingStage,
       StartCompleteStage, StartStageEvent, StartWrite, Await, WriteLands
  <2>3. CASE FinishTransition \/ FailTransition
    BY <1>1, <1>3, <2>3 DEF FinishTransition, FailTransition, IInv, ChainInv
  <2>4. CASE RunRecord
    <3>1. queue # <<>> /\ Current.call = "record"
      <4>1. CASE StartRecord
        BY <4>1 DEF StartRecord, Runs
      <4>2. CASE ContinueRecord
        BY <4>2, RecordPhases DEF ContinueRecord, IInv, SafetyInv, ChainInv
      <4>3. QED
        BY <2>4, <4>1, <4>2 DEF RunRecord
    <3>2. Len(queue) \in Nat \ {0} /\ Current = queue[1]
      BY <1>1, <3>1, TailQueue DEF Current
    <3>3. QED
      BY <1>1, <3>1, <3>2 DEF OnlyFailedArtifacts
  <2>5. QED
    BY <1>6, <2>1, <2>2, <2>3, <2>4 DEF Chain
<1>7. QED
  BY <1>4, <1>5, <1>6 DEF Next

LEMMA HandlerStep ==
    ASSUME IInv, StageInv, HandlerInv, [RunNext]_runVars
    PROVE  HandlerInv'
<1>1. CASE RecordDone
  BY <1>1, ComponentStep, RecordStaysDone DEF HandlerInv
<1>2. CASE ~RecordDone
  <2>1. handler \notin {"tearing", "exited"}
    BY <1>2 DEF HandlerInv
  <2>2. handler' \notin {"tearing", "exited"}
    <3>1. CASE MainFlow
      BY <2>1, <3>1, PreparationFrame, WorkFrame, FinishFrame
         DEF MainFlow, process
    <3>2. CASE \/ runCommand \/ CommandExits \/ JudgeProgress \/ ChainStep
               \/ Teardown \/ requestPause \/ Crash \/ UNCHANGED runVars
      BY <2>1, <3>2 DEF runCommand, CommandExits, JudgeProgress, ChainStep,
         Teardown, releaseClone, discardClone, StopServices, requestPause,
         Crash, runVars, process
    <3>3. CASE SignalHandler \/ Signal
      BY <1>2, <2>1, <3>3 DEF SignalHandler, KilledCommandExits,
         HandlerTearsDown, HandlerExits, Signal, SignalKills, SignalMarks
    <3>4. QED
      BY <3>1, <3>2, <3>3 DEF RunNext
  <2>3. QED
    BY <2>2 DEF HandlerInv
<1>3. QED
  BY <1>1, <1>2

(* A signal that came before any failure is what the run reads. *)
LEMMA StopReading ==
    ASSUME IInv, HandlerInv
    PROVE  StopReadsAsStop
<1> SUFFICES ASSUME handler = "exited", snapshot.operatorStop, ~Faulty
             PROVE  /\ runEnding \in {"main-artifact", "stopped", "paused",
                                      "operator-stopped"}
                    /\ snapshot.artifact # "none" => artifact = "FAILED"
                    /\ (runEnding = "stopped") =
                         (artifact = "none" /\ StoppedStage # NoStage)
  BY DEF StopReadsAsStop
<1>1. stopFile /\ StageWritten /\ ArtifactWritten /\ recorded
  BY DEF HandlerInv, IInv, ProgressInv, StopWritten, RecordDone
<1>2. runEnding \in {"main-artifact", "stopped", "paused",
                     "operator-stopped"}
  BY <1>1 DEF runEnding
<1>3. StageWith("STAGE_JUDGE_FAILED") <=> StoppedStage # NoStage
  <2>1. StoppedStage \in Stages \cup {NoStage}
    BY DEF IInv, TypeOK, Snapshots, StoppedStage
  <2>2. NoStage \notin Stages
    BY RunAbortAssumption DEF NoStage, Stages
  <2>3. QED
    BY <1>1, <2>1, <2>2 DEF StageWith, StageWritten, IInv, StopInv
<1>4. (runEnding = "stopped") <=> (artifact = "none" /\ StoppedStage # NoStage)
  BY <1>1, <1>3 DEF runEnding
<1>5. QED
  BY <1>1, <1>2, <1>4 DEF ArtifactWritten

-----------------------------------------------------------------------------
(* The pass.                                                               *)

LEMMA PassStep ==
    ASSUME PassInv, ReportTypeOK, [ReportNext]_reportVars
    PROVE  PassInv'
<1>1. CASE [RunNext]_runVars /\ UNCHANGED pass
  <2>1. CASE proc = "running"
    BY <1>1, <2>1 DEF PassInv
  <2>2. CASE proc # "running"
    <3>1. UNCHANGED runVars
      BY <1>1, <2>2, EndedRunIsStill
    <3>2. QED
      BY <1>1, <3>1 DEF PassInv, LatestEvent, runVars, abortVars, disk,
         process, checkout
  <2>3. QED
    BY <2>1, <2>2
<1>2. CASE readLatest
  <2>1. pass'.at = "artifact" /\ pass'.afterEnd = (proc # "running")
    BY <1>2 DEF readLatest, PassBegins
  <2>2. /\ events # <<>> /\ ~IsTerminal(LatestEvent.kind)
        /\ UNCHANGED <<proc, events>>
    BY <1>2 DEF readLatest, runVars, process, abortVars, disk
  <2>3. QED
    BY <2>1, <2>2 DEF PassInv, LatestEvent
<1>p. ASSUME NEW at, PassGoes(at)
      PROVE  pass'.at = at /\ (at # "idle" => pass'.afterEnd = pass.afterEnd)
  BY <1>p DEF PassGoes, NoPass, ReportTypeOK
<1>3. CASE artifactExists
  <2>1. /\ pass.at = "artifact"
        /\ pass'.at # "idle" => pass'.afterEnd = pass.afterEnd
        /\ pass'.at = IF artifact # "none" THEN "idle" ELSE "manifest"
    BY <1>p, <1>3 DEF artifactExists
  <2>2. UNCHANGED <<proc, events, artifact>>
    BY <1>3 DEF artifactExists, runVars, process, abortVars, disk
  <2>3. QED
    BY <2>1, <2>2 DEF PassInv, LatestEvent
<1>4. CASE loadManifest
  <2>1. /\ pass.at = "manifest"
        /\ pass'.at # "idle" => pass'.afterEnd = pass.afterEnd
        /\ pass'.at = IF manifest THEN "marker" ELSE "idle"
    BY <1>p, <1>4 DEF loadManifest
  <2>2. UNCHANGED <<proc, events, artifact, manifest>>
    BY <1>4 DEF loadManifest, runVars, process, abortVars, disk, checkout
  <2>3. QED
    BY <2>1, <2>2 DEF PassInv, LatestEvent
<1>5. CASE readMarker
  <2>1. /\ pass.at = "marker"
        /\ pass'.at # "idle" => pass'.afterEnd = pass.afterEnd
        /\ pass'.at = IF clone = "claimed" THEN "alive" ELSE "idle"
    BY <1>p, <1>5 DEF readMarker
  <2>2. UNCHANGED <<proc, events, artifact, clone>>
    BY <1>5 DEF readMarker, runVars, process, abortVars, disk, checkout
  <2>3. QED
    BY <2>1, <2>2 DEF PassInv, LatestEvent
<1>a. CASE isAlive
  <2>1. /\ pass.at = "alive"
        /\ pass'.at # "idle" => pass'.afterEnd = pass.afterEnd
        /\ pass'.at = IF proc = "running" THEN "idle" ELSE "append"
    BY <1>p, <1>a DEF isAlive
  <2>2. UNCHANGED <<proc, events, artifact, clone>>
    BY <1>a DEF isAlive, runVars, process, abortVars, disk, checkout
  <2>3. QED
    BY <2>1, <2>2 DEF PassInv, LatestEvent
<1>6. CASE appendInterrupted
  BY <1>p, <1>6 DEF appendInterrupted, PassInv
<1>7. QED
  BY <1>1, <1>2, <1>3, <1>4, <1>5, <1>a, <1>6, ReportStep
     DEF reconcileInterruptedRuns

(* A pass appends an interruption only where the readers see one, or over   *)
(* the terminal event of a run whose end it missed.                         *)
LEMMA PassReading ==
    ASSUME PassInv, SeenInv, InterruptInv, ReportTypeOK,
           [ReportNext]_reportVars, pass' # pass
    PROVE  \/ runEnding' = runEnding
           \/ /\ ~pass.afterEnd
              /\ runEnding \in {"failed", "completed-without-artifact"}
              /\ runEnding' = "interrupted"
<1>1. ASSUME UNCHANGED runVars PROVE runEnding' = runEnding
  BY <1>1 DEF runVars, abortVars, disk, process, checkout, runEnding,
     StageWith, withoutEvents, LatestEvent, RunClaim
<1>2. CASE appendInterrupted
  <2>1. UNCHANGED <<artifact, stageFile, stopFile, pausedFile>>
    BY <1>2 DEF appendInterrupted, checkout
  <2>2. /\ events' # <<>> /\ IsTerminal(LatestEvent'.kind)
        /\ terminalEnding(LatestEvent'.kind) = "interrupted"
    <3>1. events \in Seq(Events)
      BY DEF ReportTypeOK, RunTypeOK, TypeOK
    <3>2. [kind |-> "run-interrupted", stage |-> pass.stage] \in Events
      BY DEF ReportTypeOK, Events, EventKinds, TerminalKinds
    <3>3. events' # <<>> /\ LatestEvent'.kind = "run-interrupted"
      BY <1>2, <3>1, <3>2, AppendQueue DEF appendInterrupted, LatestEvent
    <3>4. QED
      BY <3>3 DEF terminalEnding, IsTerminal, TerminalKinds
  <2>3. events # <<>> /\ RunClaim = "gone"
    BY <1>2 DEF appendInterrupted, SeenInv, InterruptInv, RunClaim
  <2>4. pass.afterEnd => ~IsTerminal(LatestEvent.kind)
    BY <1>2 DEF appendInterrupted, PassInv
  <2>5. CASE IsTerminal(LatestEvent.kind)
    <3>1. terminalEnding(LatestEvent.kind) \in
             {"interrupted", "failed", "completed-without-artifact"}
      BY <2>5 DEF terminalEnding, IsTerminal, TerminalKinds
    <3>2. QED
      BY <2>1, <2>2, <2>3, <2>4, <2>5, <3>1 DEF runEnding, StageWith
  <2>6. CASE ~IsTerminal(LatestEvent.kind)
    BY <2>1, <2>2, <2>3, <2>6 DEF runEnding, StageWith, claimedEnding
  <2>7. QED
    BY <2>5, <2>6
<1>3. QED
  BY <1>1, <1>2, ReportStep DEF reconcileInterruptedRuns, readLatest,
     artifactExists, loadManifest, readMarker, isAlive

-----------------------------------------------------------------------------
(* The end of a run that no signal reached.                                *)

(* The two transitions that end with the artifact's completion. *)
Completes ==
    \/ RunArtifactReview
    \/ FinishTransition /\ Current.call = "completeArtifact"

EventAdded(kind, s) ==
    /\ events' = Append(events, [kind |-> kind, stage |-> s])
    /\ kind = "run-completed" => Completes
    /\ kind \in TerminalKinds => terminalRecorded'

(* A step of the run records at most one event, never an interruption. *)
LEMMA NewEvent ==
    ASSUME TypeOK, [Next]_abortVars
    PROVE  \/ UNCHANGED events
           \/ \E kind \in EventKinds \ {"run-interrupted"},
                 s \in Stages \cup {NoStage} : EventAdded(kind, s)
<1> DEFINE Grown ==
       \/ UNCHANGED events
       \/ \E kind \in EventKinds \ {"run-interrupted"},
             s \in Stages \cup {NoStage} : EventAdded(kind, s)
<1>r. ASSUME NEW kind \in EventKinds \ {"run-interrupted"},
             NEW s \in Stages \cup {NoStage}, Recorded(kind, s),
             kind = "run-completed" => Completes,
             kind \in TerminalKinds => terminalRecorded'
      PROVE  Grown
  BY <1>r DEF Recorded, EventAdded
<1>k. {"stage-started", "stage-judging", "judge-progress", "stage-completed",
       "run-completed", "run-failed"} = EventKinds \ {"run-interrupted"}
  BY DEF EventKinds, TerminalKinds
<1>1. CASE Call
  <2>1. CASE \E s \in Stages : recordStageStarted(s) \/ recordJudgeProgress(s)
    BY <1>r, <1>k, <2>1 DEF recordStageStarted, recordJudgeProgress,
       TerminalKinds
  <2>2. CASE ~\E s \in Stages : recordStageStarted(s) \/ recordJudgeProgress(s)
    BY <1>1, <2>2 DEF Call, writePendingStage, writeStageProgress,
       completeStage, writePendingArtifact, completeArtifact,
       awaitArtifactReview, writeFailedArtifact, ArtifactCall, disk
  <2>3. QED
    BY <2>1, <2>2
<1>2. CASE Note \/ Abort \/ WriteFails \/ closeStore \/ UNCHANGED abortVars
  BY <1>2 DEF Note, stopAtCeiling, updatePendingStage, Abort, markAborted,
     WriteFails, closeStore, abortVars, disk
<1>3. CASE Chain
  <2>1. CASE SkipTransition \/ WriteLands \/ FailTransition
    BY <2>1 DEF SkipTransition, WriteLands, FailTransition, disk
  <2>2. CASE StartTransition
    <3>1. CASE StartPendingStage \/ StartCompleteStage
      <4>1. Current \in Transitions
        BY <3>1, CurrentType DEF StartPendingStage, StartCompleteStage,
           StartStageEvent, Runs
      <4>2. Current.stage \in Stages \cup {NoStage}
        BY <4>1 DEF Transitions
      <4>3. QED
        BY <1>r, <1>k, <3>1, <4>2 DEF StartPendingStage, StartCompleteStage,
           StartStageEvent, TerminalKinds
    <3>2. QED
      BY <2>2, <3>1 DEF StartTransition, StartWrite, disk
  <2>3. CASE RunArtifactReview
    <3>1. Completes
      BY <2>3 DEF Completes
    <3>2. QED
      BY <1>r, <1>k, <2>3, <3>1 DEF RunArtifactReview, artifactCompleted
  <2>4. CASE FinishTransition
    <3>1. CASE Current.call = "completeArtifact"
      <4>1. Completes
        BY <2>4, <3>1 DEF Completes
      <4>2. Recorded("run-completed", NoStage) /\ terminalRecorded'
        BY <2>4, <3>1 DEF FinishTransition, artifactCompleted
      <4>3. QED
        BY <1>r, <1>k, <4>1, <4>2
    <3>2. CASE Current.call = "writeFailedArtifact"
      <4>1. Recorded("run-failed", NoStage) /\ terminalRecorded'
        BY <2>4, <3>2 DEF FinishTransition, artifactCompleted
      <4>2. QED
        BY <1>r, <1>k, <4>1
    <3>3. CASE Current.call \notin {"completeArtifact", "writeFailedArtifact"}
      BY <2>4, <3>3 DEF FinishTransition
    <3>4. QED
      BY <3>1, <3>2, <3>3
  <2>5. CASE RunRecord
    <3>1. ASSUME abortedEvent PROVE Grown
      <4>1. (IF snapshot.stage # NoStage THEN snapshot.stage
                                         ELSE snapshot.ceiling)
               \in Stages \cup {NoStage}
        BY DEF TypeOK, Snapshots
      <4>2. QED
        BY <1>r, <1>k, <3>1, <4>1 DEF abortedEvent
    <3>2. QED
      BY <2>5, <3>1 DEF RunRecord, StartRecord, ContinueRecord, RecordAborted
  <2>6. QED
    BY <1>3, <2>1, <2>2, <2>3, <2>4, <2>5 DEF Chain
<1>4. QED
  BY <1>1, <1>2, <1>3 DEF Next

LEMMA InterruptStep ==
    ASSUME RunInv, ReportTypeOK, InterruptInv, [ReportNext]_reportVars
    PROVE  InterruptInv'
<1>1. CASE [RunNext]_runVars /\ UNCHANGED pass
  <2> DEFINE Uninterrupted ==
         \A i \in 1..Len(events') : events'[i].kind # "run-interrupted"
  <2> SUFFICES ASSUME proc' = "running"
               PROVE  pass.at # "append" /\ Uninterrupted
    BY <1>1 DEF InterruptInv
  <2>1. proc = "running"
    BY <1>1, EndedRunIsStill DEF runVars, process
  <2>2. events \in Seq(Events)
    BY DEF RunInv, IInv, TypeOK
  <2>3. ASSUME UNCHANGED events PROVE Uninterrupted
    BY <2>1, <2>3 DEF InterruptInv
  <2>4. ASSUME NEW kind \in EventKinds \ {"run-interrupted"},
               NEW s \in Stages \cup {NoStage}, EventAdded(kind, s)
        PROVE  Uninterrupted
    <3>1. [kind |-> kind, stage |-> s] \in Events
      BY DEF Events
    <3>2. /\ Len(events) \in Nat
          /\ Len(events') = Len(events) + 1
          /\ \A i \in 1..Len(events) : events'[i] = events[i]
          /\ events'[Len(events) + 1].kind = kind
      BY <2>2, <2>4, <3>1, AppendQueue DEF EventAdded
    <3>3. QED
      BY <2>1, <3>2 DEF InterruptInv
  <2>5. QED
    <3>1. pass.at # "append"
      BY <2>1 DEF InterruptInv
    <3>2. [Next]_abortVars /\ TypeOK
      BY <1>1, ComponentStep DEF RunInv, IInv
    <3>3. QED
      BY <2>3, <2>4, <3>1, <3>2, NewEvent
<1>2. CASE reconcileInterruptedRuns
  <2>1. UNCHANGED proc
    BY <1>2, ReconcileFrame DEF PassOnly, process
  <2>2. CASE appendInterrupted
    BY <2>1, <2>2 DEF appendInterrupted, InterruptInv, PassGoes, NoPass
  <2>3. CASE ~appendInterrupted
    <3>1. UNCHANGED events
      BY <1>2, <2>3 DEF reconcileInterruptedRuns, readLatest, artifactExists,
         loadManifest, readMarker, isAlive, runVars, abortVars, disk
    <3>2. proc = "running" => pass'.at # "append"
      BY <1>2, <2>3 DEF reconcileInterruptedRuns, readLatest, artifactExists,
         loadManifest, readMarker, isAlive, PassBegins, PassGoes, NoPass,
         ReportTypeOK
    <3>3. QED
      BY <2>1, <3>1, <3>2 DEF InterruptInv
  <2>4. QED
    BY <2>2, <2>3
<1>3. QED
  BY <1>1, <1>2, ReportStep

(* A terminal event that reaches the store is the latest. *)
LEMMA TerminalIsLatest ==
    ASSUME TypeOK, NEW kind \in TerminalKinds, NEW s \in Stages \cup {NoStage},
           Recorded(kind, s), storeOpen, ~Faulty
    PROVE  LatestIsTerminal'
<1>1. events \in Seq(Events) /\ [kind |-> kind, stage |-> s] \in Events
  BY DEF TypeOK, Events, EventKinds
<1>2. events' = Append(events, [kind |-> kind, stage |-> s])
  BY DEF Recorded
<1>3. events' # <<>> /\ events'[Len(events')].kind = kind
  BY <1>1, <1>2, AppendQueue
<1>4. QED
  BY <1>3 DEF LatestIsTerminal, LatestEvent, IsTerminal

(* Only a failure and a signal mark the abort. *)
LEMMA AbortedBy ==
    ASSUME RunInv, [RunNext]_runVars, ~aborted, aborted'
    PROVE  reportRunFailure \/ KilledCommandExits \/ SignalMarks
<1>1. CASE Preparation
  BY <1>1 DEF Preparation, CloneTarget, claimTarget, KeepSource, CloneFails,
     DiscardClone, recordInitialRunManifest, recordCheckpoint,
     recordRetentionRef, retainInTarget, closeStore, abortVars, memory
<1>2. CASE GradedStages
  BY <1>2 DEF GradedStages, PauseAtBoundary, beginGradedStage,
     judgeRunCandidate, publishPendingStage, prepareStageJudgment,
     StagePasses, StageStops, reviewStoppedStage, calibrateStageFailure,
     CallOr, recordStageStarted, writePendingStage, updatePendingStage,
     completeStage, writeStageProgress, abortVars, memory
<1>3. CASE Candidate
  BY <1>3 DEF Candidate, FinalJudgeFailsPaid, FinalJudgeGrades,
     finishGradedRun, finishPausedRun, collectCalibration, CallOr,
     writeFailedArtifact, writePendingArtifact, awaitArtifactReview,
     completeArtifact, ArtifactCall, abortVars, memory
<1>4. CASE WorkFails \/ CallReturns \/ CallThrows
  BY <1>4 DEF WorkFails, CallReturns, CallThrows, stopAtCeiling,
     SkipTransition, RunArtifactReview, FinishTransition, FailTransition,
     abortVars, memory
<1>5. CASE Finish /\ ~reportRunFailure
  BY <1>5 DEF Finish, reportError, FailureRecorded,
     pauseForFailureInspection, recordPaused, CloseBegins, CloseEnds,
     MainExits, closeStore, abortVars, memory
<1>6. CASE ChainStep
  BY <1>6 DEF ChainStep, StartTransition, StartPendingStage,
     StartCompleteStage, StartStageEvent, StartWrite, RunRecord, StartRecord,
     ContinueRecord, WriteLands, WriteFails
<1>7. CASE \/ runCommand \/ CommandExits \/ JudgeProgress \/ Teardown
           \/ requestPause \/ Crash \/ UNCHANGED runVars
  BY <1>7 DEF runCommand, CommandExits, JudgeProgress, recordJudgeProgress,
     Teardown, releaseClone, discardClone, StopServices, requestPause, Crash,
     runVars, abortVars, memory
<1>8. CASE SignalHandler \/ Signal
  BY <1>8 DEF SignalHandler, HandlerTearsDown, HandlerExits, Signal,
     SignalKills, abortVars, memory
<1>9. QED
  BY <1>1, <1>2, <1>3, <1>4, <1>5, <1>6, <1>7, <1>8 DEF RunNext, MainFlow

(* While no abort is requested the run keeps the record of its end. *)
LEMMA UnabortedEndStep ==
    ASSUME RunInv, FlowInv, EndInv, [RunNext]_runVars, ~aborted'
    PROVE  UnabortedEnd' /\ StoreInv'
<1>a. ~aborted /\ ~recorded /\ TypeOK
  BY ComponentStep, AbortStays DEF RunInv, IInv, QueueInv
<1>b. UnabortedEnd /\ StoreInv
  BY <1>a DEF EndInv
<1>c. IF pc \in AwaitCall
        THEN Len(queue) = 1 /\ queue[1].call = AwaitedCall[pc]
        ELSE queue = <<>>
  BY <1>a DEF RunInv, AwaitInv
<1> DEFINE Early(p) == p \notin {"pin", "copy", "failing", "failed"} \cup Ending
<1>e. ASSUME Early(pc) PROVE ~terminalRecorded /\ storeOpen
  BY <1>b, <1>e DEF UnabortedEnd, StoreInv, PastArtifact, Ending
<1>l. ASSUME UNCHANGED events PROVE LatestIsTerminal' = LatestIsTerminal
  BY <1>l DEF LatestIsTerminal, LatestEvent
(* A step within the work of the run. *)
<1>w. ASSUME Early(pc), Early(pc') \/ pc' = "failing",
             UNCHANGED <<terminalRecorded, storeOpen>>,
             pc' \in {"writePendingArtifact", "judged", "awaitArtifactReview"}
               => pendingArtifact' # "none"
      PROVE  UnabortedEnd' /\ StoreInv'
  BY <1>e, <1>w DEF UnabortedEnd, StoreInv, Ending
(* A step elsewhere. *)
<1>k. ASSUME UNCHANGED <<flow, manifest, pausedFile, pendingArtifact,
                         terminalRecorded, storeOpen, events>>
      PROVE  UnabortedEnd' /\ StoreInv'
  BY <1>b, <1>k, <1>l DEF UnabortedEnd, StoreInv, PastArtifact, flow
<1>1. CASE Preparation
  <2>1. UNCHANGED <<terminalRecorded, events, pendingArtifact, pausedFile,
                    stage>>
    BY <1>1, PreparationFrame DEF Preparation, CloneTarget, claimTarget,
       KeepSource, CloneFails, DiscardClone, recordInitialRunManifest,
       recordCheckpoint, recordRetentionRef, retainInTarget, closeStore,
       abortVars, memory, disk
  <2>2. storeOpen' \/ pc' = "done"
    BY <1>1, <1>b DEF Preparation, CloneTarget, claimTarget, KeepSource,
       CloneFails, DiscardClone, recordInitialRunManifest, recordCheckpoint,
       recordRetentionRef, retainInTarget, abortVars, memory, At, Go, StoreInv
  <2>3. StoreInv'
    BY <1>b, <1>l, <2>1, <2>2 DEF StoreInv
  <2>4. CASE CloneTarget \/ claimTarget \/ KeepSource \/ CloneFails
               \/ recordInitialRunManifest
    BY <1>w, <2>1, <2>4 DEF CloneTarget, claimTarget, KeepSource, CloneFails,
       recordInitialRunManifest, abortVars, memory, At, Go, flow, Ending
  <2>5. CASE DiscardClone
    <3>1. ~manifest' /\ pc' = "done" /\ ~terminalRecorded'
      BY <1>e, <2>1, <2>5 DEF DiscardClone, FlowInv, At, Go, Ending
    <3>2. QED
      BY <2>3, <3>1 DEF UnabortedEnd, Ending
  <2>6. CASE recordCheckpoint
    <3>1. pc' = "pin" /\ stage' # N + 1 /\ ~terminalRecorded'
      BY <1>e, <2>1, <2>6, RunAbortAssumption DEF recordCheckpoint, RunInv,
         StageInv, At, Go, Ending
    <3>2. QED
      BY <2>3, <3>1 DEF UnabortedEnd
  <2>7. CASE recordRetentionRef
    <3>1. pc = "pin" /\ pc' = "copy"
      BY <2>7 DEF recordRetentionRef, At, Go
    <3>2. QED
      BY <1>b, <2>1, <2>3, <3>1 DEF UnabortedEnd, PastArtifact, Ending
  <2>8. CASE retainInTarget
    <3>1. pc = "copy" /\ pc' = IF stage = N + 1 THEN "closing" ELSE "boundary"
      BY <2>8 DEF retainInTarget, At, Go
    <3>2. QED
      BY <1>b, <2>1, <2>3, <3>1 DEF UnabortedEnd, PastArtifact, Ending
  <2>9. QED
    BY <1>1, <2>4, <2>5, <2>6, <2>7, <2>8 DEF Preparation
<1>2. CASE GradedStages
  <2>1. UNCHANGED <<terminalRecorded, storeOpen>>
    BY <1>2 DEF GradedStages, PauseAtBoundary, beginGradedStage,
       judgeRunCandidate, publishPendingStage, prepareStageJudgment,
       StagePasses, StageStops, reviewStoppedStage, calibrateStageFailure,
       CallOr, recordStageStarted, writePendingStage, updatePendingStage,
       completeStage, writeStageProgress, abortVars, memory
  <2>2. /\ Early(pc) /\ (Early(pc') \/ pc' = "failing")
        /\ pc' \notin {"writePendingArtifact", "judged",
                       "awaitArtifactReview"}
    BY <1>a, <1>2 DEF GradedStages, PauseAtBoundary, beginGradedStage,
       judgeRunCandidate, publishPendingStage, prepareStageJudgment,
       StagePasses, StageStops, reviewStoppedStage, calibrateStageFailure,
       CallOr, At, Go, Ending
  <2>3. QED
    BY <1>w, <2>1, <2>2
<1>3. CASE Candidate
  <2>1. UNCHANGED <<terminalRecorded, storeOpen>>
    BY <1>3 DEF Candidate, FinalJudgeFailsPaid, FinalJudgeGrades,
       finishGradedRun, finishPausedRun, collectCalibration, CallOr,
       writeFailedArtifact, writePendingArtifact, awaitArtifactReview,
       completeArtifact, ArtifactCall, abortVars, memory
  <2>2. Early(pc) /\ Early(pc')
    BY <1>a, <1>3 DEF Candidate, FinalJudgeFailsPaid, FinalJudgeGrades,
       finishGradedRun, finishPausedRun, collectCalibration, CallOr, At, Go,
       Ending
  <2>3. pc' \in {"writePendingArtifact", "judged", "awaitArtifactReview"}
          => pendingArtifact' # "none"
    <3>1. CASE FinalJudgeGrades
      BY <1>a, <3>1 DEF FinalJudgeGrades, CallOr, writePendingArtifact,
         ArtifactCall
    <3>2. CASE finishGradedRun
      BY <1>a, <1>b, <3>2 DEF finishGradedRun, CallOr, awaitArtifactReview,
         UnabortedEnd, At
    <3>3. CASE FinalJudgeFailsPaid \/ finishPausedRun \/ collectCalibration
      BY <1>a, <3>3 DEF FinalJudgeFailsPaid, finishPausedRun,
         collectCalibration, CallOr, Go
    <3>4. QED
      BY <1>3, <3>1, <3>2, <3>3 DEF Candidate
  <2>4. QED
    BY <1>w, <2>1, <2>2, <2>3
<1>4. CASE WorkFails
  <2>1. UNCHANGED <<terminalRecorded, storeOpen, events>> /\ pc' = "failing"
        /\ pc # "done"
    BY <1>4 DEF WorkFails, Work, stopAtCeiling, abortVars, memory, disk
  <2>2. QED
    BY <1>b, <1>l, <2>1 DEF UnabortedEnd, StoreInv, PastArtifact, Ending
<1>5. CASE CallReturns \/ CallThrows
  <2>1. /\ Len(queue) = 1 /\ queue[1].call = AwaitedCall[pc]
        /\ pc \in AwaitCall /\ Resolve
    BY <1>a, <1>c, <1>5 DEF CallReturns, CallThrows, SkipTransition,
       RunArtifactReview, FinishTransition, FailTransition
  <2>2. Current.call = AwaitedCall[pc]
    BY <1>a, <2>1, LastCall
  <2>3. Early(pc) /\ UNCHANGED <<storeOpen, stage, manifest, pausedFile>>
    BY <1>5, <2>1, WorkFrame DEF CallReturns, CallThrows, AwaitCall, Ending,
       SkipTransition, RunArtifactReview, FinishTransition, FailTransition,
       checkout, Go
  <2>4. ~terminalRecorded /\ storeOpen
    BY <1>e, <2>3
  <2>5. CASE CallThrows
    BY <1>w, <2>3, <2>5 DEF CallThrows, FailTransition, Go
  (* The transition whose end is recorded, and where the flow goes. *)
  <2>6. ASSUME terminalRecorded', pc' \in {"failing", "pin", "closing"},
               pc' = "pin" => stage = N + 1,
               ~Faulty => LatestIsTerminal'
        PROVE  UnabortedEnd' /\ StoreInv'
    BY <2>3, <2>4, <2>6 DEF UnabortedEnd, StoreInv, PastArtifact, Ending
  <2>7. CASE CallReturns
    <3>a. RunArtifactReview \/ FinishTransition
      BY <1>a, <2>7 DEF CallReturns, SkipTransition
    <3>b. pc' = AfterCall
      BY <2>7 DEF CallReturns, Go
    <3>1. CASE pc = "awaitArtifactReview"
      <4>1. Current.call = "awaitArtifactReview" /\ pc' = "pin"
        BY <2>2, <3>1, <3>b DEF AwaitedCall, AwaitCall, AfterCall
      <4>2. RunArtifactReview /\ pendingArtifact # "none" /\ stage = N + 1
        BY <1>b, <3>1, <3>a, <4>1 DEF FinishTransition, UnabortedEnd,
           FlowInv, Deciding, RunInv, IInv, ChainInv
      <4>3. terminalRecorded' /\ Recorded("run-completed", NoStage)
        BY <4>2 DEF RunArtifactReview, artifactCompleted
      <4>4. ~Faulty => LatestIsTerminal'
        BY <1>a, <2>4, <4>3, TerminalIsLatest DEF TerminalKinds
      <4>5. QED
        BY <2>6, <4>1, <4>2, <4>3, <4>4
    <3>2. CASE pc # "awaitArtifactReview"
      <4>1. FinishTransition
        BY <2>1, <2>2, <3>2, <3>a DEF RunArtifactReview, Runs, AwaitedCall,
           AwaitCall
      <4>2. CASE pc = "completeArtifact"
        <5>1. Current.call = "completeArtifact" /\ pc' = "closing"
          BY <2>2, <3>b, <4>2 DEF AwaitedCall, AwaitCall, AfterCall
        <5>2. terminalRecorded' /\ Recorded("run-completed", NoStage)
          BY <4>1, <5>1 DEF FinishTransition, artifactCompleted
        <5>3. ~Faulty => LatestIsTerminal'
          BY <1>a, <2>4, <5>2, TerminalIsLatest DEF TerminalKinds
        <5>4. QED
          BY <2>6, <5>1, <5>2, <5>3
      <4>3. CASE pc = "writeFailedArtifact"
        <5>1. Current.call = "writeFailedArtifact" /\ pc' = "failing"
          BY <2>2, <3>b, <4>3 DEF AwaitedCall, AwaitCall, AfterCall
        <5>2. terminalRecorded' /\ Recorded("run-failed", NoStage)
          BY <4>1, <5>1 DEF FinishTransition, artifactCompleted
        <5>3. ~Faulty => LatestIsTerminal'
          BY <1>a, <2>4, <5>2, TerminalIsLatest DEF TerminalKinds
        <5>4. QED
          BY <2>6, <5>1, <5>2, <5>3
      <4>4. CASE pc \notin {"completeArtifact", "writeFailedArtifact"}
        <5>1. Current.call \notin {"completeArtifact", "writeFailedArtifact"}
          BY <2>1, <2>2, <4>4 DEF AwaitedCall, AwaitCall
        <5>2. UNCHANGED <<terminalRecorded, pendingArtifact>>
          BY <4>1, <5>1 DEF FinishTransition
        <5>3. pc' \in {"sources", "checkpoint", "review", "failing",
                       "judged"}
              /\ (pc' = "judged" => pc = "writePendingArtifact")
          BY <2>1, <3>2, <3>b, <4>4 DEF AfterCall, AwaitCall
        <5>4. pc' = "judged" => pendingArtifact # "none"
          BY <1>b, <5>3 DEF UnabortedEnd
        <5>5. QED
          BY <1>w, <2>3, <5>2, <5>3, <5>4 DEF Ending
      <4>5. QED
        BY <4>2, <4>3, <4>4
    <3>3. QED
      BY <3>1, <3>2
  <2>8. QED
    BY <1>5, <2>5, <2>7
<1>6. CASE Finish
  <2>1. UNCHANGED <<terminalRecorded, events, pendingArtifact, stage,
                    manifest>>
    <3>1. ~reportRunFailure
      BY <1>a DEF reportRunFailure, Mark, markAborted
    <3>2. QED
      BY <1>6, <3>1, FinishFrame DEF Finish, reportError, FailureRecorded,
         pauseForFailureInspection, recordPaused, CloseBegins, CloseEnds,
         MainExits, closeStore, abortVars, memory, disk
  <2>2. CASE reportError
    BY <1>b, <1>l, <2>1, <2>2 DEF reportError, At, Go, UnabortedEnd,
       StoreInv, PastArtifact, Ending, abortVars, memory
  <2>3. CASE reportRunFailure \/ FailureRecorded \/ pauseForFailureInspection
    BY <1>a, <1>b, <2>3 DEF reportRunFailure, Mark, markAborted,
       FailureRecorded, RecordDone, pauseForFailureInspection, At,
       UnabortedEnd
  <2>4. CASE recordPaused
    <3>1. /\ pc = "pausing" /\ pc' = "closing" /\ storeOpen' = storeOpen
          /\ ~Faulty => pausedFile' = stage
      BY <2>4 DEF recordPaused, At, Go, abortVars, memory
    <3>2. stage # NoStage /\ ~terminalRecorded /\ storeOpen
      BY <1>e, <3>1, RunAbortAssumption DEF FlowInv, Stages, NoStage, Ending
    <3>3. QED
      BY <2>1, <3>1, <3>2 DEF UnabortedEnd, StoreInv
  <2>5. CASE CloseBegins
    <3>1. /\ pc = "closing" /\ pc' = "tearing"
          /\ UNCHANGED <<storeOpen, pausedFile>>
      BY <2>5 DEF CloseBegins, At, Go, abortVars, memory, checkout
    <3>2. QED
      BY <1>b, <1>l, <2>1, <3>1 DEF UnabortedEnd, StoreInv, PastArtifact,
         Ending
  <2>6. CASE CloseEnds \/ MainExits
    <3>1. /\ pc \in {"tearing", "done"} /\ pc' = "done"
          /\ UNCHANGED pausedFile
      BY <2>6 DEF CloseEnds, MainExits, At, Go, flow, checkout
    <3>2. QED
      BY <1>b, <1>l, <2>1, <3>1 DEF UnabortedEnd, StoreInv, PastArtifact,
         Ending
  <2>7. QED
    BY <1>6, <2>2, <2>3, <2>4, <2>5, <2>6 DEF Finish
<1>7. CASE JudgeProgress
  <2>1. pc = "judge" /\ pc' = pc /\ UNCHANGED <<terminalRecorded, storeOpen>>
    BY <1>7 DEF JudgeProgress, recordJudgeProgress, memory, flow
  <2>2. QED
    BY <1>w, <2>1 DEF Ending
<1>8. CASE ChainStep
  <2>1. UNCHANGED <<flow, manifest, pausedFile>>
        /\ (StartTransition \/ WriteLands \/ WriteFails)
    BY <1>a, <1>8, NoRecord DEF ChainStep, RunInv, checkout
  <2>2. UNCHANGED <<terminalRecorded, storeOpen, pendingArtifact>>
    BY <2>1 DEF StartTransition, StartPendingStage, StartCompleteStage,
       StartStageEvent, StartWrite, WriteLands, WriteFails
  <2>3. CASE StartTransition
    <3>1. pc \in AwaitCall
      BY <1>c, <2>3 DEF StartTransition, StartPendingStage,
         StartCompleteStage, StartStageEvent, StartWrite, Runs
    <3>2. Early(pc) /\ pc' = pc
      BY <2>1, <3>1 DEF AwaitCall, Ending, flow
    <3>3. QED
      BY <1>b, <1>w, <2>2, <3>2 DEF UnabortedEnd
  <2>4. CASE WriteLands \/ WriteFails
    BY <1>k, <2>1, <2>2, <2>4 DEF WriteLands, WriteFails, disk
  <2>5. QED
    BY <2>1, <2>3, <2>4
<1>9. CASE SignalHandler \/ Signal
  <2>1. UNCHANGED abortVars
    BY <1>a, <1>9 DEF SignalHandler, KilledCommandExits, HandlerTearsDown,
       HandlerExits, Signal, SignalKills, SignalMarks, Mark, markAborted
  <2>2. UNCHANGED <<flow, manifest, pausedFile>>
    BY <1>9, ProcessFrame
  <2>3. QED
    BY <1>k, <2>1, <2>2 DEF abortVars, memory, disk
<1>10. CASE runCommand \/ CommandExits \/ Teardown \/ requestPause \/ Crash
  <2>1. UNCHANGED abortVars
    BY <1>10 DEF runCommand, CommandExits, Teardown, releaseClone,
       discardClone, StopServices, requestPause, Crash
  <2>2. UNCHANGED <<flow, manifest, pausedFile>>
    BY <1>10, ProcessFrame
  <2>3. QED
    BY <1>k, <2>1, <2>2 DEF abortVars, memory, disk
<1>11. CASE UNCHANGED runVars
  BY <1>k, <1>11 DEF runVars, abortVars, memory, disk, checkout
<1>12. QED
  BY <1>1, <1>2, <1>3, <1>4, <1>5, <1>6, <1>7, <1>8, <1>9, <1>10, <1>11
     DEF RunNext, MainFlow

(* Once it has failed, with no signal, the record it awaits is all that is  *)
(* left of the chain.                                                       *)
LEMMA FailedEndStep ==
    ASSUME RunInv, EndInv, [RunNext]_runVars, aborted', handler' = "idle"
    PROVE  FailedEnd' /\ StoreInv'
<1>l. ASSUME UNCHANGED events PROVE LatestIsTerminal' = LatestIsTerminal
  BY <1>l DEF LatestIsTerminal, LatestEvent
<1>t. TypeOK /\ SafetyInv /\ aborted = recorded
  BY DEF RunInv, IInv, SafetyInv, QueueInv
<1>1. CASE ~aborted
  <2>1. reportRunFailure
    BY <1>1, AbortedBy DEF KilledCommandExits, SignalMarks
  <2>2. markAborted(FALSE) /\ pc = "failed" /\ pc' = "awaitRecord"
    BY <1>1, <1>t, <2>1 DEF reportRunFailure, Mark, At, Go
  <2>3. queue = <<>> /\ phase = "queued" /\ StoreInv
    BY <1>1, <2>2 DEF RunInv, AwaitInv, AwaitCall, IInv, ChainInv, EndInv
  <2>4. Len(queue') = 1 /\ queue'[1].call = "record" /\ queue' # <<>>
    BY <2>2, <2>3, OneCall DEF markAborted, Enqueue
  <2>5. ~snapshot'.operatorStop
        /\ UNCHANGED <<phase, terminalRecorded, storeOpen, events>>
    BY <2>2 DEF markAborted, Snapshot, disk
  <2>6. QED
    BY <1>l, <2>2, <2>3, <2>4, <2>5 DEF FailedEnd, StoreInv, Ending
<1>2. CASE aborted
  <2>h. handler = "idle"
    <3>1. CASE MainFlow
      BY <3>1, PreparationFrame, WorkFrame, FinishFrame
         DEF MainFlow, process
    <3>2. CASE \/ runCommand \/ CommandExits \/ JudgeProgress \/ ChainStep
               \/ Teardown \/ requestPause \/ Crash \/ UNCHANGED runVars
      BY <3>2 DEF runCommand, CommandExits, JudgeProgress, ChainStep,
         Teardown, releaseClone, discardClone, StopServices, requestPause,
         Crash, runVars, process
    <3>3. CASE SignalHandler \/ Signal
      BY <3>3 DEF SignalHandler, KilledCommandExits, HandlerTearsDown,
         HandlerExits, Signal, SignalKills, SignalMarks
    <3>4. QED
      BY <3>1, <3>2, <3>3 DEF RunNext
  <2>b. FailedEnd /\ StoreInv
    BY <1>2, <2>h DEF EndInv
  <2>p. pc \in Ending
    BY <2>b DEF FailedEnd
  <2>r. queue # <<>> => /\ Current.call = "record" /\ pc = "awaitRecord"
                        /\ Current = queue[1] /\ Len(queue) = 1
    BY <1>t, <2>b, TailQueue DEF FailedEnd, TypeOK, Current
  <2>k. ASSUME UNCHANGED <<flow, phase, queue, snapshot, terminalRecorded,
                           storeOpen, events>>
        PROVE  FailedEnd' /\ StoreInv'
    BY <1>l, <2>b, <2>k DEF FailedEnd, StoreInv, flow
  <2>1. CASE Preparation
    BY <2>p, <2>1, PreparationFrame DEF Ending
  <2>2. CASE GradedStages \/ Candidate
    BY <2>p, <2>2 DEF GradedStages, PauseAtBoundary, beginGradedStage,
       judgeRunCandidate, publishPendingStage, prepareStageJudgment,
       StagePasses, StageStops, reviewStoppedStage, calibrateStageFailure,
       Candidate, FinalJudgeFailsPaid, FinalJudgeGrades, finishGradedRun,
       finishPausedRun, collectCalibration, At, Ending
  <2>3. CASE WorkFails \/ CallReturns \/ CallThrows \/ JudgeProgress
    BY <2>p, <2>3 DEF WorkFails, Work, CallReturns, CallThrows, AwaitCall,
       JudgeProgress, Ending
  <2>4. CASE Finish
    <3>1. ~reportError /\ ~reportRunFailure /\ ~recordPaused
      BY <2>p DEF reportError, reportRunFailure, recordPaused, At, Ending
    <3>2. queue = <<>>
      <4>1. ASSUME queue # <<>>, RecordDone PROVE FALSE
        BY <2>r, <4>1 DEF RecordDone, RecordWaiting
      <4>2. QED
        BY <2>4, <2>r, <3>1, <4>1 DEF Finish, FailureRecorded,
           pauseForFailureInspection, CloseBegins, CloseEnds, MainExits, At
    <3>3. UNCHANGED <<phase, queue, snapshot, terminalRecorded, events>>
      BY <2>4, <3>1 DEF Finish, FailureRecorded, pauseForFailureInspection,
         CloseBegins, CloseEnds, MainExits, closeStore, abortVars, memory,
         disk
    <3>4. pc' \in Ending
      BY <2>4, <3>1 DEF Finish, FailureRecorded, pauseForFailureInspection,
         CloseBegins, CloseEnds, MainExits, At, Go, flow, Ending
    <3>5. storeOpen' \/ pc' = "done"
      <4>1. CASE CloseEnds \/ MainExits
        BY <4>1 DEF CloseEnds, MainExits, At, Go, flow
      <4>2. CASE FailureRecorded \/ pauseForFailureInspection \/ CloseBegins
        BY <2>b, <4>2 DEF FailureRecorded, pauseForFailureInspection,
           CloseBegins, At, StoreInv, abortVars, memory
      <4>3. QED
        BY <2>4, <3>1, <4>1, <4>2 DEF Finish
    <3>6. QED
      BY <1>l, <2>b, <3>2, <3>3, <3>4, <3>5 DEF FailedEnd, StoreInv
  <2>5. CASE ChainStep
    <3>f. UNCHANGED flow
      BY <2>5 DEF ChainStep
    <3>1. ~StartTransition
      BY <2>r DEF StartTransition, StartPendingStage, StartCompleteStage,
         StartStageEvent, StartWrite, Runs
    <3>2. CASE WriteLands \/ WriteFails
      BY <2>k, <3>2, <3>f DEF WriteLands, WriteFails, disk
    <3>3. ASSUME terminalRecorded', snapshot' = snapshot,
                 storeOpen' = storeOpen, ~Faulty => LatestIsTerminal',
                 \/ Resolve /\ queue # <<>>
                 \/ \E p \in {"stageStop", "artifactStop"} :
                       Await(p) /\ queue # <<>>
          PROVE  FailedEnd' /\ StoreInv'
      <4>1. CASE Resolve /\ queue # <<>>
        <5>1. queue' = <<>> /\ phase' = "queued"
          BY <1>t, <2>r, <4>1, LastCall DEF Resolve
        <5>2. QED
          BY <2>b, <3>3, <3>f, <5>1 DEF FailedEnd, StoreInv, flow
      <4>2. CASE \E p \in {"stageStop", "artifactStop"} :
                    Await(p) /\ queue # <<>>
        BY <2>b, <2>r, <3>3, <3>f, <4>2 DEF FailedEnd, StoreInv, flow, Await
      <4>3. QED
        BY <3>3, <4>1, <4>2
    <3>4. CASE StartRecord
      <4>1. RecordAborted /\ queue # <<>> /\ UNCHANGED <<snapshot, storeOpen>>
        BY <2>b, <3>4 DEF StartRecord, Runs, FailedEnd
      <4>2. storeOpen
        BY <2>b, <2>r, <4>1 DEF StoreInv
      <4>3. terminalRecorded' /\ (~Faulty => LatestIsTerminal')
        <5>1. abortedEvent
          BY <4>1 DEF RecordAborted
        <5>2. CASE terminalRecorded
          BY <1>l, <2>b, <5>1, <5>2 DEF abortedEvent, StoreInv
        <5>3. CASE ~terminalRecorded
          <6> DEFINE s == IF snapshot.stage # NoStage THEN snapshot.stage
                                                      ELSE snapshot.ceiling
          <6>1. s \in Stages \cup {NoStage}
            BY <1>t DEF TypeOK, Snapshots
          <6>2. Recorded("run-failed", s) /\ terminalRecorded'
            BY <5>1, <5>3 DEF abortedEvent
          <6>3. "run-failed" \in TerminalKinds
            BY DEF TerminalKinds
          <6> HIDE DEF s
          <6>4. QED
            BY <1>t, <4>2, <6>1, <6>2, <6>3, TerminalIsLatest
        <5>4. QED
          BY <5>2, <5>3
      <4>4. QED
        BY <3>3, <4>1, <4>3 DEF RecordAborted, AwaitArtifactStop
    <3>5. CASE ContinueRecord
      <4>1. /\ phase \in {"stageStop", "artifactStop"}
            /\ AwaitArtifactStop \/ Resolve
            /\ UNCHANGED <<events, terminalRecorded, snapshot, storeOpen>>
        BY <2>b, <3>5 DEF ContinueRecord, FailedEnd
      <4>2. queue # <<>> /\ terminalRecorded
        BY <1>t, <2>b, <4>1 DEF SafetyInv, ChainInv, FailedEnd
      <4>3. ~Faulty => LatestIsTerminal'
        BY <1>l, <2>b, <4>1, <4>2 DEF StoreInv
      <4>4. QED
        BY <3>3, <4>1, <4>2, <4>3 DEF AwaitArtifactStop
    <3>6. QED
      BY <2>5, <3>1, <3>2, <3>4, <3>5 DEF ChainStep, RunRecord
  <2>6. CASE SignalHandler \/ Signal
    BY <2>6, <2>h DEF SignalHandler, KilledCommandExits, HandlerTearsDown,
       HandlerExits, Signal, SignalKills, SignalMarks
  <2>7. CASE runCommand \/ CommandExits \/ Teardown \/ requestPause \/ Crash
    <3>1. UNCHANGED abortVars
      BY <2>7 DEF runCommand, CommandExits, Teardown, releaseClone,
         discardClone, StopServices, requestPause, Crash
    <3>2. QED
      BY <2>k, <2>7, <3>1, ProcessFrame DEF abortVars, memory, disk
  <2>8. CASE UNCHANGED runVars
    BY <2>k, <2>8 DEF runVars, abortVars, memory, disk
  <2>9. QED
    BY <2>1, <2>2, <2>3, <2>4, <2>5, <2>6, <2>7, <2>8 DEF RunNext, MainFlow
<1>3. QED
  BY <1>1, <1>2 DEF RunInv, IInv, TypeOK

(* The pass, which only runs on once the process has ended, and the run.    *)
LEMMA EndInvStep ==
    ASSUME RunInv, FlowInv, EndInv, ReportTypeOK, [ReportNext]_reportVars
    PROVE  EndInv'
<1>1. CASE [RunNext]_runVars
  <2>1. aborted' \in BOOLEAN
    BY <1>1, StageStep, ComponentStep, NextIInv DEF RunInv, IInv, TypeOK
  <2>2. ~aborted' => UnabortedEnd' /\ StoreInv'
    BY <1>1, UnabortedEndStep
  <2>3. (aborted' /\ handler' = "idle") => FailedEnd' /\ StoreInv'
    BY <1>1, FailedEndStep
  <2>4. QED
    BY <2>1, <2>2, <2>3 DEF EndInv
<1>2. CASE PassOnly
  <2>1. LatestIsTerminal => LatestIsTerminal'
    <3>1. CASE UNCHANGED events
      BY <3>1 DEF LatestIsTerminal, LatestEvent
    <3>2. CASE events' = Append(events, [kind |-> "run-interrupted",
                                         stage |-> pass.stage])
      <4>1. events \in Seq(Events)
            /\ [kind |-> "run-interrupted", stage |-> pass.stage] \in Events
        BY DEF RunInv, IInv, TypeOK, ReportTypeOK, Events, EventKinds,
           TerminalKinds
      <4>2. events' # <<>> /\ events'[Len(events')].kind = "run-interrupted"
        BY <3>2, <4>1, AppendQueue
      <4>3. QED
        BY <4>2 DEF LatestIsTerminal, LatestEvent, IsTerminal, TerminalKinds
    <3>3. QED
      BY <1>2, <3>1, <3>2 DEF PassOnly
  <2>2. UNCHANGED <<memory, flow, handler, manifest, pausedFile>>
    BY <1>2 DEF PassOnly, process, checkout
  <2>3. QED
    BY <2>1, <2>2 DEF EndInv, UnabortedEnd, FailedEnd, StoreInv,
       PastArtifact, memory, flow
<1>3. QED
  BY <1>1, <1>2, ReportStep

(* What never goes back: the manifest, paused.json, the note of a terminal  *)
(* event and an idle handler.                                               *)
LEMMA FactsStay ==
    ASSUME RunInv, FlowInv, [RunNext]_runVars
    PROVE  /\ manifest => manifest'
           /\ pausedFile # NoStage => pausedFile' # NoStage
           /\ terminalRecorded => terminalRecorded'
           /\ handler' = "idle" => handler = "idle"
           /\ proc' = "running" => proc = "running"
<1>1. terminalRecorded => terminalRecorded'
  <2>0. [Next]_abortVars
    BY ComponentStep DEF RunInv
  <2>1. CASE Call \/ Note \/ Abort \/ closeStore \/ WriteFails
    BY <2>1 DEF Call, Note, Abort, closeStore, WriteFails, writePendingStage,
       writeStageProgress, completeStage, writePendingArtifact,
       completeArtifact, awaitArtifactReview, writeFailedArtifact,
       ArtifactCall, recordStageStarted, recordJudgeProgress, stopAtCeiling,
       updatePendingStage, markAborted, memory
  <2>2. CASE Chain
    BY <2>2 DEF Chain, SkipTransition, StartTransition, StartPendingStage,
       StartCompleteStage, StartStageEvent, StartWrite, RunArtifactReview,
       artifactCompleted, RunRecord, StartRecord, ContinueRecord,
       RecordAborted, abortedEvent, WriteLands, FinishTransition,
       FailTransition
  <2>3. QED
    BY <2>0, <2>1, <2>2 DEF Next, abortVars, memory
<1>2. CASE Preparation
  <2>1. manifest => manifest'
    BY <1>2 DEF Preparation, CloneTarget, claimTarget, KeepSource, CloneFails,
       DiscardClone, recordInitialRunManifest, recordCheckpoint,
       recordRetentionRef, retainInTarget, checkout
  <2>2. QED
    BY <1>1, <1>2, <2>1, PreparationFrame
<1>3. CASE GradedStages \/ Candidate \/ WorkFails \/ CallReturns \/ CallThrows
  BY <1>1, <1>3, WorkFrame DEF process, checkout
<1>4. CASE Finish
  <2>1. UNCHANGED <<manifest, handler>>
    BY <1>4, FinishFrame
  <2>n. NoStage \notin Stages
    BY RunAbortAssumption DEF NoStage, Stages
  <2>2. pausedFile # NoStage => pausedFile' # NoStage
    BY <1>4, <2>n DEF Finish, reportError, reportRunFailure,
       FailureRecorded, pauseForFailureInspection, recordPaused, CloseBegins,
       CloseEnds, MainExits, FlowInv, At, Go, checkout
  <2>3. proc = "running"
    BY <1>4, EndedRunIsStill DEF RunNext, MainFlow
  <2>4. QED
    BY <1>1, <2>1, <2>2, <2>3
<1>5. CASE UNCHANGED runVars
  BY <1>5 DEF runVars, abortVars, memory, process, checkout
<1>6. CASE \/ runCommand \/ CommandExits \/ JudgeProgress \/ ChainStep
           \/ Teardown \/ SignalHandler \/ Signal \/ requestPause \/ Crash
  <2>1. UNCHANGED <<manifest, pausedFile>> /\ proc = "running"
    BY <1>6, ProcessFrame, EndedRunIsStill DEF RunNext
  <2>2. handler' = "idle" => handler = "idle"
    BY <1>6 DEF runCommand, CommandExits, JudgeProgress, ChainStep, Teardown,
       releaseClone, discardClone, StopServices, SignalHandler,
       KilledCommandExits, HandlerTearsDown, HandlerExits, Signal,
       SignalKills, SignalMarks, requestPause, Crash, process
  <2>3. QED
    BY <1>1, <2>1, <2>2
<1>7. QED
  BY <1>2, <1>3, <1>4, <1>5, <1>6 DEF RunNext, MainFlow

(* What a pass has seen stays. *)
LEMMA SeenStep ==
    ASSUME RunInv, FlowInv, ReportTypeOK, SeenInv, [ReportNext]_reportVars
    PROVE  SeenInv'
<1>1. events \in Seq(Events)
  BY DEF ReportTypeOK, RunTypeOK, TypeOK
<1>2. CASE [RunNext]_runVars /\ UNCHANGED pass
  <2>1. events # <<>> => events' # <<>>
    <3>1. [Next]_abortVars /\ TypeOK
      BY <1>2, ComponentStep DEF RunInv, IInv
    <3>2. ASSUME NEW kind \in EventKinds, NEW s \in Stages \cup {NoStage},
                 EventAdded(kind, s)
          PROVE  events' # <<>>
      <4>1. [kind |-> kind, stage |-> s] \in Events
        BY DEF Events
      <4>2. QED
        BY <1>1, <3>2, <4>1, AppendQueue DEF EventAdded
    <3>3. QED
      BY <3>1, <3>2, NewEvent
  <2>2. QED
    BY <1>2, <2>1, FactsStay DEF SeenInv
<1>3. CASE reconcileInterruptedRuns
  <2>1. UNCHANGED manifest
    BY <1>3, ReconcileFrame DEF PassOnly, checkout
  <2>2. CASE appendInterrupted
    BY <2>2 DEF appendInterrupted, PassGoes, NoPass, SeenInv
  <2>3. CASE ~appendInterrupted
    BY <1>3, <2>1, <2>3 DEF reconcileInterruptedRuns, readLatest,
       artifactExists, loadManifest, readMarker, isAlive, PassBegins,
       PassGoes, NoPass, ReportTypeOK, SeenInv, runVars, abortVars, disk
  <2>4. QED
    BY <2>2, <2>3
<1>4. QED
  BY <1>2, <1>3, ReportStep

(* A terminal event of a live run is one the run noted. *)
LEMMA TerminalStep ==
    ASSUME RunInv, FlowInv, ReportTypeOK, InterruptInv, TerminalInv,
           [ReportNext]_reportVars
    PROVE  TerminalInv'
<1> SUFFICES ASSUME proc' = "running", LatestIsTerminal'
             PROVE  terminalRecorded'
  BY DEF TerminalInv
<1>1. ASSUME UNCHANGED events PROVE LatestIsTerminal
  BY <1>1 DEF LatestIsTerminal, LatestEvent
<1>2. CASE [RunNext]_runVars
  <2>1. proc = "running" /\ (terminalRecorded => terminalRecorded')
    BY <1>2, FactsStay
  <2>2. CASE UNCHANGED events
    BY <1>1, <2>1, <2>2 DEF TerminalInv
  <2>3. ASSUME NEW kind \in EventKinds, NEW s \in Stages \cup {NoStage},
               EventAdded(kind, s)
        PROVE  terminalRecorded'
    <3>1. events \in Seq(Events) /\ [kind |-> kind, stage |-> s] \in Events
      BY DEF ReportTypeOK, RunTypeOK, TypeOK, Events
    <3>2. events'[Len(events')].kind = kind
      BY <2>3, <3>1, AppendQueue DEF EventAdded
    <3>3. QED
      BY <2>3, <3>2 DEF LatestIsTerminal, LatestEvent, IsTerminal, EventAdded
  <2>4. QED
    <3>1. [Next]_abortVars /\ TypeOK
      BY <1>2, ComponentStep DEF RunInv, IInv
    <3>2. QED
      BY <2>2, <2>3, <3>1, NewEvent
<1>3. CASE PassOnly
  <2>1. UNCHANGED <<proc, terminalRecorded, events>>
    BY <1>3 DEF PassOnly, process, memory, InterruptInv
  <2>2. QED
    BY <1>1, <2>1 DEF TerminalInv
<1>4. QED
  BY <1>2, <1>3, ReportStep

(* What a live run whose claim is gone has recorded. *)
LEMMA GoneIsEnded ==
    ASSUME CommitInv, FlowInv, EndInv, RunInv, Live, manifest,
           clone # "claimed"
    PROVE  Ended
<1>1. pc \in {"tearing", "done"}
  BY DEF FlowInv, CommitInv, Live
<1>2. QED
  BY <1>1 DEF EndInv, UnabortedEnd, FailedEnd, Live, Ended

(* A reading, read by read. *)
LEMMA ReadingStep ==
    ASSUME RunInv, ReportTypeOK, CommitInv, FlowInv, InterruptInv, EndInv,
           TerminalInv, ReaderInv, readRunEnding
    PROVE  ReaderInv'
<1>0. UNCHANGED <<manifest, proc, handler, terminalRecorded, pausedFile>>
  BY DEF readRunEnding, runVars, abortVars, memory, process, checkout
<1>u. UNCHANGED <<Live, Ended>>
  BY <1>0 DEF Live, Ended
<1>g. ASSUME NEW at, ReaderGoes(at)
      PROVE  reader'.at = at /\ reader'.ended = reader.ended
  BY <1>g DEF ReaderGoes, ReportTypeOK
<1>a. ASSUME NEW ending, Answers(ending),
             (ending = "interrupted" /\ Live) => Ended /\ ~reader.ended
      PROVE  ReaderInv'
  <2>1. CASE ending = "interrupted"
    <3>1. reader'.at = "interrupted" /\ reader'.ended = reader.ended
      BY <1>a, <2>1 DEF Answers, ReportTypeOK
    <3>2. QED
      BY <1>0, <1>u, <1>a, <2>1, <3>1 DEF ReaderInv
  <2>2. CASE ending # "interrupted"
    BY <1>u, <1>a, <2>2 DEF Answers, NoReading, ReaderInv
  <2>3. QED
    BY <2>1, <2>2
<1>1. CASE beginReading
  <2>1. reader'.at = "artifact" /\ reader'.ended = EndRecorded
    BY <1>1 DEF beginReading
  <2>2. (Live /\ EndRecorded) => Ended
    BY DEF TerminalInv, EndRecorded, LatestIsTerminal, Live, Ended
  <2>3. QED
    BY <1>u, <2>1, <2>2 DEF ReaderInv
<1>2. CASE recordedEnding
  <2>1. CASE \E ending \in {"main-artifact", "stopped", "paused",
                           "operator-stopped"} : Answers(ending)
    BY <1>a, <2>1
  <2>2. CASE \/ reader.at = "artifact" /\ ReaderGoes("stages")
             \/ reader.at = "stages" /\ ReaderGoes("paused")
    BY <1>0, <1>u, <1>g, <2>2 DEF ReaderInv
  <2>3. CASE /\ reader.at = "paused" /\ pausedFile = NoStage
             /\ ReaderGoes("stop")
    BY <1>0, <1>u, <1>g, <2>3 DEF ReaderInv, Ended
  <2>4. CASE reader.at = "stop" /\ ReaderGoes("latest")
    BY <1>0, <1>u, <1>g, <2>4 DEF ReaderInv
  <2>5. QED
    BY <1>2, <2>1, <2>2, <2>3, <2>4 DEF recordedEnding, ReadRecord
<1>3. CASE eventEnding
  <2>1. (Live /\ reader.ended) => LatestIsTerminal
    BY <1>3 DEF eventEnding, ReaderInv, Live, EndInv, StoreInv
  <2>2. CASE LatestIsTerminal
    <3>1. Live => LatestEvent.kind # "run-interrupted"
      <4>1. events \in Seq(Events) /\ events # <<>>
        BY <2>2 DEF RunInv, IInv, TypeOK, LatestIsTerminal
      <4>2. Len(events) \in 1..Len(events)
        BY <4>1, TailQueue
      <4>3. QED
        BY <4>2 DEF InterruptInv, LatestEvent, Live
    <3>2. Live => terminalEnding(LatestEvent.kind) # "interrupted"
      BY <2>2, <3>1 DEF terminalEnding, LatestIsTerminal, IsTerminal,
         TerminalKinds
    <3>3. QED
      BY <1>3, <1>a, <2>2, <3>2 DEF eventEnding, LatestIsTerminal
  <2>3. CASE ~LatestIsTerminal
    <3>1. ReaderGoes("unjudged") \/ ReaderGoes("manifest")
      BY <1>3, <2>3 DEF eventEnding, LatestIsTerminal
    <3>2. QED
      BY <1>u, <1>g, <2>1, <2>3, <3>1 DEF ReaderInv
  <2>4. QED
    BY <2>2, <2>3
<1>4. CASE awaitingJudgeStage
  BY <1>4, <1>a DEF awaitingJudgeStage, withoutEvents
<1>5. CASE ownMarker
  <2>1. CASE reader.at = "manifest" /\ manifest /\ ReaderGoes("marker")
    BY <1>0, <1>u, <1>g, <2>1 DEF ReaderInv
  <2>2. CASE reader.at = "marker" /\ ReaderGoes("alive")
    BY <1>0, <1>u, <1>g, <2>2 DEF ReaderInv
  <2>3. CASE reader.at = "marker" /\ clone # "claimed" /\ Answers("interrupted")
    <3>1. Live => Ended /\ ~reader.ended
      BY <2>3, GoneIsEnded DEF ReaderInv
    <3>2. QED
      BY <1>a, <2>3, <3>1
  <2>4. CASE Answers("unconfirmed")
    BY <1>a, <2>4
  <2>5. QED
    BY <1>5, <2>1, <2>2, <2>3, <2>4 DEF ownMarker, ReadRecord, claimedEnding
<1>6. CASE runClaim
  <2>1. CASE proc = "running"
    BY <1>6, <1>a, <2>1 DEF runClaim, claimedEnding
  <2>2. CASE proc # "running"
    BY <1>6, <1>a, <2>2 DEF runClaim, Live
  <2>3. QED
    BY <2>1, <2>2
<1>7. QED
  BY <1>1, <1>2, <1>3, <1>4, <1>5, <1>6 DEF readRunEnding

LEMMA ReaderInvStep ==
    ASSUME RunInv, ReportTypeOK, CommitInv, FlowInv, InterruptInv, EndInv,
           TerminalInv, ReaderInv, [ReportNext]_reportVars
    PROVE  ReaderInv'
<1>1. CASE readRunEnding
  BY <1>1, ReadingStep
<1>2. CASE reader' = NoReading
  BY <1>2 DEF NoReading, ReaderInv
<1>3. CASE UNCHANGED reader
  <2>1. /\ manifest => manifest'
        /\ Live' => Live
        /\ Ended => Ended'
        /\ terminalRecorded => terminalRecorded'
    <3>1. CASE [RunNext]_runVars
      BY <3>1, FactsStay DEF Live, Ended
    <3>2. CASE PassOnly
      BY <3>2 DEF PassOnly, memory, process, checkout, Live, Ended
    <3>3. QED
      BY <3>1, <3>2, ReportStep
  <2>2. QED
    BY <1>3, <2>1 DEF ReaderInv
<1>4. QED
  BY <1>1, <1>2, <1>3, ReaderStep

(* A reading that calls a live run interrupted raced its end. *)
LEMMA LiveReading ==
    ASSUME EndInv, ReaderInv
    PROVE  LiveRunNotInterrupted
<1> SUFFICES ASSUME reader.at = "interrupted", Live
             PROVE  ~reader.ended /\ EndRecorded
  BY DEF LiveRunNotInterrupted, ProcessEnded, Live
<1>1. ~reader.ended /\ Ended
  BY DEF ReaderInv
<1>2. terminalRecorded => LatestIsTerminal
  BY DEF EndInv, StoreInv, Live
<1>3. QED
  BY <1>1, <1>2 DEF Ended, EndRecorded, LatestIsTerminal

-----------------------------------------------------------------------------
(* What was accepted before an abort.                                      *)

(* A call that joins the chain: refused after an abort request, unless it   *)
(* writes a failure.                                                        *)
NewCall(t) ==
    /\ t.call \in NormalCalls => ~aborted'
    /\ t.call \in {"writePendingArtifact", "completeArtifact"} =>
          t.artifact # "FAILED"

LEMMA QueueMembers ==
    ASSUME IInv, [Next]_abortVars
    PROVE  \A i \in 1..Len(queue') :
              \/ \E j \in 1..Len(queue) : queue'[i] = queue[j]
              \/ NewCall(queue'[i])
<1> DEFINE Members == \A i \in 1..Len(queue') :
                         \/ \E j \in 1..Len(queue) : queue'[i] = queue[j]
                         \/ NewCall(queue'[i])
<1>t. TypeOK
  BY DEF IInv
<1>1. ASSUME queue' = queue PROVE Members
  BY <1>1
<1>2. ASSUME queue # <<>>, Resolve PROVE Members
  <2>1. /\ Len(queue) \in Nat \ {0}
        /\ Len(queue') = Len(queue) - 1
        /\ \A i \in 1..Len(queue') : queue'[i] = queue[i + 1]
    BY <1>2, <1>t, TailQueue DEF TypeOK, Resolve
  <2>2. \A i \in 1..Len(queue') : i + 1 \in 1..Len(queue)
    BY <2>1
  <2>3. QED
    BY <2>1, <2>2
<1>3. ASSUME NEW call \in Calls, NEW s \in Stages \cup {NoStage},
             NEW status \in ArtifactStatus, Enqueue(call, s, status),
             call \in NormalCalls => ~aborted',
             call \in {"writePendingArtifact", "completeArtifact"} =>
                status # "FAILED"
      PROVE  Members
  <2> DEFINE t == [call |-> call, stage |-> s, artifact |-> status]
  <2>1. t \in Transitions /\ t.call = call /\ t.artifact = status
    BY DEF Transitions
  <2>2. queue' = Append(queue, t) /\ queue \in Seq(Transitions)
    BY <1>3, <1>t DEF Enqueue, TypeOK
  <2>3. NewCall(t)
    BY <1>3, <2>1 DEF NewCall
  <2> HIDE DEF t
  <2>4. /\ Len(queue) \in Nat
        /\ Len(queue') = Len(queue) + 1
        /\ \A i \in 1..Len(queue) : queue'[i] = queue[i]
        /\ queue'[Len(queue) + 1] = t
    BY <2>1, <2>2, AppendQueue
  <2>5. ASSUME NEW i \in 1..Len(queue')
        PROVE  i \in 1..Len(queue) \/ i = Len(queue) + 1
    BY <2>4
  <2>6. QED
    BY <2>3, <2>4, <2>5
<1>c. /\ NormalCalls \subseteq Calls
      /\ {"writeFailedArtifact", "record"} \cap NormalCalls = {}
      /\ {"writeFailedArtifact", "record"} \subseteq Calls
      /\ {"writePendingStage", "writeStageProgress", "completeStage",
          "writePendingArtifact", "completeArtifact", "awaitArtifactReview"}
            = NormalCalls
      /\ {"none", "AWAITING_HUMAN_REVIEW", "COMPLETE", "FAILED"}
            = ArtifactStatus
  BY DEF NormalCalls, Calls, StageCalls, ArtifactCalls, ArtifactStatus
<1>4. CASE Call
  <2>1. CASE (\E s \in Stages : writePendingStage(s)) \/ writeStageProgress
               \/ completeStage \/ awaitArtifactReview
    <3>1. PICK call \in {"writePendingStage", "writeStageProgress",
                         "completeStage", "awaitArtifactReview"},
               s \in Stages \cup {NoStage} :
             Enqueue(call, s, "none") /\ ~aborted'
      BY <1>t, <2>1 DEF writePendingStage, writeStageProgress, completeStage,
         awaitArtifactReview, TypeOK
    <3>2. QED
      BY <1>3, <1>c, <3>1
  <2>2. CASE writePendingArtifact \/ completeArtifact \/ writeFailedArtifact
    <3>1. NoStage \in Stages \cup {NoStage}
      OBVIOUS
    <3>2. CASE writePendingArtifact
      <4>1. Enqueue("writePendingArtifact", NoStage, "AWAITING_HUMAN_REVIEW")
            /\ ~aborted'
        BY <3>2 DEF writePendingArtifact, ArtifactCall
      <4>2. QED
        BY <1>3, <1>c, <3>1, <4>1
    <3>3. CASE completeArtifact
      <4>1. Enqueue("completeArtifact", NoStage, "COMPLETE") /\ ~aborted'
        BY <3>3 DEF completeArtifact, ArtifactCall
      <4>2. QED
        BY <1>3, <1>c, <3>1, <4>1
    <3>4. CASE writeFailedArtifact
      <4>1. Enqueue("writeFailedArtifact", NoStage, "FAILED")
        BY <3>4 DEF writeFailedArtifact, ArtifactCall
      <4>2. QED
        BY <1>3, <1>c, <3>1, <4>1
    <3>5. QED
      BY <2>2, <3>2, <3>3, <3>4
  <2>3. CASE \E s \in Stages : recordStageStarted(s) \/ recordJudgeProgress(s)
    BY <1>1, <2>3 DEF recordStageStarted, recordJudgeProgress, memory
  <2>4. QED
    BY <1>4, <2>1, <2>2, <2>3 DEF Call
<1>5. CASE Abort
  <2>1. Enqueue("record", NoStage, "none")
    BY <1>5 DEF Abort, markAborted
  <2>2. QED
    BY <1>3, <1>c, <2>1
<1>6. CASE Note \/ WriteFails \/ closeStore \/ UNCHANGED abortVars
  BY <1>1, <1>6 DEF Note, stopAtCeiling, updatePendingStage, WriteFails,
     closeStore, abortVars, memory
<1>7. CASE Chain
  <2>1. CASE SkipTransition \/ RunArtifactReview
    BY <1>2, <2>1 DEF SkipTransition, RunArtifactReview, Runs
  <2>2. CASE StartTransition \/ WriteLands
    BY <1>1, <2>2 DEF StartTransition, StartPendingStage,
       StartCompleteStage, StartStageEvent, StartWrite, Await, WriteLands
  <2>3. CASE FinishTransition \/ FailTransition
    BY <1>2, <2>3 DEF FinishTransition, FailTransition, IInv, ChainInv
  <2>4. CASE RunRecord
    <3>1. queue # <<>>
      BY <2>4 DEF RunRecord, StartRecord, ContinueRecord, Runs, IInv,
         ChainInv
    <3>2. UNCHANGED queue \/ Resolve
      BY <2>4 DEF RunRecord, StartRecord, ContinueRecord, RecordAborted,
         AwaitArtifactStop, Await
    <3>3. QED
      BY <1>1, <1>2, <3>1, <3>2
  <2>5. QED
    BY <1>7, <2>1, <2>2, <2>3, <2>4 DEF Chain
<1>8. QED
  BY <1>4, <1>5, <1>6, <1>7 DEF Next

(* No write that lands is of a stage accepted before the abort. *)
LEMMA AcceptedKept ==
    ASSUME IInv, AcceptInv, [Next]_abortVars
    PROVE  \A s \in unaborted.accepted : stageFile'[s] = "JUDGED"
<1>1. CASE WriteLands
  <2>1. phase # "queued" /\ queue # <<>> /\ TypeOK /\ SafetyInv
    BY <1>1 DEF IInv, ChainInv, SafetyInv, WriteLands
  <2>2. Len(queue) \in Nat \ {0} /\ Current = queue[1]
    BY <2>1, TailQueue DEF TypeOK, Current
  <2>3. WritesStage => WrittenStage \notin unaborted.accepted
    <3>1. CASE phase = "stageStop"
      <4>1. aborted
        BY <2>1, <3>1, RecordPhases DEF SafetyInv, QueueInv
      <4>2. QED
        BY <3>1, <4>1 DEF AcceptInv, WrittenStage
    <3>2. CASE phase # "stageStop"
      BY <2>2, <3>2 DEF AcceptInv, QueuedStages, WritesStage, WrittenStage
    <3>3. QED
      BY <3>1, <3>2
  <2>4. ASSUME NEW s \in unaborted.accepted
        PROVE  stageFile'[s] = "JUDGED"
    <3>1. stageFile[s] = "JUDGED" /\ stageFile \in [Stages -> StageStatus]
      BY <2>1 DEF AcceptInv, TypeOK
    <3>2. CASE ~WritesStage
      BY <1>1, <3>1, <3>2 DEF WriteLands
    <3>3. CASE WritesStage
      <4>1. stageFile' = [stageFile EXCEPT ![WrittenStage] = WrittenStatus]
            /\ WrittenStage # s
        BY <1>1, <2>3, <3>3 DEF WriteLands
      <4> HIDE DEF WrittenStage, WrittenStatus
      <4>2. s \in DOMAIN stageFile => stageFile'[s] = stageFile[s]
        BY <3>1, <4>1
      <4>3. QED
        BY <2>1, <3>1, <4>1, <4>2
    <3>4. QED
      BY <3>2, <3>3
  <2>5. QED
    BY <2>4
<1>2. CASE ~WriteLands
  <2>1. stageFile' = stageFile
    <3>1. CASE Call \/ Note \/ Abort \/ closeStore
      BY <3>1 DEF Call, Note, Abort, closeStore, writePendingStage,
         writeStageProgress, completeStage, writePendingArtifact,
         completeArtifact, awaitArtifactReview, writeFailedArtifact,
         ArtifactCall, recordStageStarted, recordJudgeProgress,
         stopAtCeiling, updatePendingStage, markAborted, disk
    <3>2. CASE Chain \/ WriteFails
      BY <1>2, <3>2 DEF Chain, WriteFails, SkipTransition, StartTransition,
         StartPendingStage, StartCompleteStage, StartStageEvent, StartWrite,
         RunArtifactReview, RunRecord, StartRecord, ContinueRecord,
         FinishTransition, FailTransition, disk
    <3>3. QED
      BY <3>1, <3>2 DEF Next, abortVars, disk
  <2>2. QED
    BY <2>1 DEF AcceptInv
<1>3. QED
  BY <1>1, <1>2

(* An abort names a stage that was not accepted. *)
LEMMA StopNamesOpenStage ==
    ASSUME RunInv, AcceptInv, [RunNext]_runVars, aborted'
    PROVE  StoppedStage' \notin unaborted.accepted
<1>1. CASE aborted
  <2>1. snapshot' = snapshot
    <3>1. [Next]_abortVars /\ ~Abort
      BY <1>1, ComponentStep DEF RunInv, IInv, QueueInv, Abort, markAborted
    <3>2. CASE Call \/ Note \/ closeStore \/ UNCHANGED abortVars
      BY <3>2 DEF Call, Note, closeStore, writePendingStage,
         writeStageProgress, completeStage, writePendingArtifact,
         completeArtifact, awaitArtifactReview, writeFailedArtifact,
         ArtifactCall, recordStageStarted, recordJudgeProgress,
         stopAtCeiling, updatePendingStage, abortVars, memory
    <3>3. CASE Chain \/ WriteFails
      BY <3>3 DEF Chain, WriteFails, SkipTransition, StartTransition,
         StartPendingStage, StartCompleteStage, StartStageEvent, StartWrite,
         RunArtifactReview, RunRecord, StartRecord, ContinueRecord,
         WriteLands, FinishTransition, FailTransition
    <3>4. QED
      BY <3>1, <3>2, <3>3 DEF Next
  <2>2. QED
    BY <1>1, <2>1 DEF AcceptInv, StoppedStage
<1>2. CASE ~aborted
  <2>1. \E operatorStop \in BOOLEAN : markAborted(operatorStop)
    BY <1>2, AbortedBy DEF reportRunFailure, KilledCommandExits,
       SignalMarks, Mark, RunInv, IInv, QueueInv
  <2>2. StoppedStage' = IF pendingStage # NoStage THEN pendingStage
                                                  ELSE ceilingStop
    BY <2>1 DEF markAborted, Snapshot, StoppedStage
  <2>3. Accepting
    BY <1>2 DEF AcceptInv
  <2>4. NoStage \notin Stages
    BY RunAbortAssumption DEF Stages, NoStage
  <2>5. QED
    BY <2>2, <2>3, <2>4 DEF Accepting, OpenStage
<1>3. QED
  BY <1>1, <1>2 DEF RunInv, IInv, TypeOK

(* A checkpoint is of a stage the flow has reached. *)
LEMMA CheckpointsReached ==
    ASSUME StageInv, checkpoints \subseteq 0..stage, [RunNext]_runVars
    PROVE  checkpoints' \subseteq 0..stage'
<1>0. stage \in Nat
  BY RunAbortAssumption DEF StageInv
<1>q. ASSUME checkpoints' \subseteq checkpoints \cup {stage},
             stage' = stage \/ stage' = stage + 1
      PROVE  checkpoints' \subseteq 0..stage'
  BY <1>0, <1>q
<1>1. CASE Preparation
  <2>1. checkpoints' = checkpoints \/ checkpoints' = checkpoints \cup {stage}
    BY <1>1 DEF Preparation, CloneTarget, claimTarget, KeepSource,
       CloneFails, DiscardClone, recordInitialRunManifest, recordCheckpoint,
       recordRetentionRef, retainInTarget, checkout
  <2>2. QED
    BY <1>1, <1>q, <2>1, PreparationFrame
<1>2. CASE GradedStages \/ Candidate \/ WorkFails \/ CallReturns \/ CallThrows
  <2>1. stage' = stage \/ stage' = stage + 1
    BY <1>2, RunAbortAssumption DEF GradedStages, PauseAtBoundary,
       beginGradedStage, judgeRunCandidate, publishPendingStage,
       prepareStageJudgment, StagePasses, StageStops, reviewStoppedStage,
       calibrateStageFailure, CallOr, Candidate, FinalJudgeFailsPaid,
       FinalJudgeGrades, finishGradedRun, finishPausedRun,
       collectCalibration, WorkFails, CallReturns, CallThrows, Go
  <2>2. QED
    BY <1>2, <1>q, <2>1, WorkFrame DEF checkout
<1>3. CASE Finish
  BY <1>3, FinishFrame
<1>4. CASE UNCHANGED <<stage, checkpoints>>
  BY <1>4
<1>5. QED
  BY <1>1, <1>2, <1>3, <1>4, ProcessFrame DEF RunNext, MainFlow, runVars,
     flow, checkout

(* While no abort is requested, what is pending stays the open stage.       *)
LEMMA AcceptingStep ==
    ASSUME RunInv, ReportTypeOK, AcceptInv, [RunNext]_runVars, ~aborted',
           unaborted'.accepted = checkpoints' \cap Stages
    PROVE  Accepting'
<1>a. ~aborted /\ ~recorded /\ TypeOK
  BY ComponentStep, AbortStays DEF RunInv, IInv, QueueInv
<1>b. Accepting /\ JudgedStageIsPending /\ StageInv
  BY <1>a DEF AcceptInv, RunInv
<1>c. IF pc \in AwaitCall
        THEN Len(queue) = 1 /\ queue[1].call = AwaitedCall[pc]
        ELSE queue = <<>>
  BY <1>a DEF RunInv, AwaitInv
<1>i. queue = <<>> => io = "idle" /\ phase = "queued"
  BY DEF RunInv, IInv, ChainInv
<1> DEFINE NothingOpen == pendingStage' = NoStage /\ ceilingStop' = NoStage
           Pending == Judging \cup {"failing", "failed"}
<1>n. ASSUME pc \notin Pending
      PROVE  pendingStage = NoStage /\ ceilingStop = NoStage
  BY <1>b, <1>n DEF Accepting
<1>m. ASSUME pc \in Judging
      PROVE  pendingStage = stage /\ ceilingStop = NoStage
             /\ stage \in Stages /\ stage \notin checkpoints
  BY <1>a, <1>b, <1>m DEF Accepting, JudgedStageIsPending, Judging, StageInv,
     InStage
(* A step after which nothing is pending and no stage is being judged. *)
<1>o. ASSUME NothingOpen, pc' \notin Judging,
             pc' = "session" => stage' \notin checkpoints',
             (pc' = "checkpoint" /\ stage' \in Stages) =>
                stageFile'[stage'] = "JUDGED"
      PROVE  Accepting'
  BY <1>o DEF Accepting, InStage, Judging
(* A step into or within the judging of the stage. *)
<1>j. ASSUME pc \in InStage, pc' \in Judging, UNCHANGED <<stage, checkpoints>>,
             pendingStage' = stage, ceilingStop' = NoStage,
             pc' \in AwaitCall => queue'[1].stage = stage,
             (pc' = "recordPass" /\ io' = "landed") =>
                stageFile'[stage] = "JUDGED"
      PROVE  Accepting'
  BY <1>b, <1>j DEF Accepting, OpenStage, InStage, Judging
(* The failure of a stage. *)
<1>f. ASSUME pc' \in {"failing", "failed"}, UNCHANGED <<stage, checkpoints>>,
             pendingStage' # NoStage => OpenStage(pendingStage'),
             ceilingStop' # NoStage => OpenStage(ceilingStop')
      PROVE  Accepting'
  BY <1>f DEF Accepting, OpenStage, InStage, Judging
(* A step elsewhere. *)
<1>k. ASSUME UNCHANGED <<flow, checkpoints, pendingStage, ceilingStop, queue,
                         io, stageFile>>
      PROVE  Accepting'
  BY <1>b, <1>k DEF Accepting, OpenStage, flow
<1>1. CASE Preparation
  <2>1. UNCHANGED <<pendingStage, ceilingStop, queue, io, stageFile, stage>>
    BY <1>1, PreparationFrame DEF Preparation, CloneTarget, claimTarget,
       KeepSource, CloneFails, DiscardClone, recordInitialRunManifest,
       recordCheckpoint, recordRetentionRef, retainInTarget, closeStore,
       abortVars, memory, disk
  <2>2. NothingOpen
    BY <1>1, <1>n, <2>1, PreparationFrame DEF Judging
  <2>3. pc' \notin Judging /\ pc' # "session"
    BY <1>1 DEF Preparation, CloneTarget, claimTarget, KeepSource,
       CloneFails, DiscardClone, recordInitialRunManifest, recordCheckpoint,
       recordRetentionRef, retainInTarget, At, Go, flow, Judging
  <2>4. pc' = "checkpoint" => stage = 0
    BY <1>1, <1>b DEF Preparation, CloneTarget, claimTarget, KeepSource,
       CloneFails, DiscardClone, recordInitialRunManifest, recordCheckpoint,
       recordRetentionRef, retainInTarget, At, Go, flow, StageInv
  <2>5. 0 \notin Stages
    BY RunAbortAssumption DEF Stages
  <2>6. QED
    BY <1>o, <2>1, <2>2, <2>3, <2>4, <2>5
<1>2. CASE GradedStages
  <2>c. UNCHANGED checkpoints
    BY <1>2, WorkFrame DEF checkout
  <2>1. CASE PauseAtBoundary \/ judgeRunCandidate
    <3>1. NothingOpen
      BY <1>n, <2>1 DEF PauseAtBoundary, judgeRunCandidate, At, abortVars,
         memory, Judging
    <3>2. QED
      BY <1>o, <2>1, <3>1 DEF PauseAtBoundary, judgeRunCandidate, Go, Judging
  <2>2. CASE beginGradedStage
    <3>1. NothingOpen
      BY <1>n, <2>2 DEF beginGradedStage, recordStageStarted, memory, At,
         Judging
    <3>2. stage' = stage + 1 /\ stage + 1 \notin checkpoints
      BY <1>b, <2>2, RunAbortAssumption DEF beginGradedStage, AcceptInv,
         StageInv
    <3>3. pc' = "session"
      BY <2>2 DEF beginGradedStage
    <3>4. QED
      BY <1>o, <2>c, <3>1, <3>2, <3>3 DEF Judging
  <2>3. CASE publishPendingStage
    <3>1. /\ pc = "session" /\ pc' = "writePendingStage" /\ stage' = stage
          /\ writePendingStage(stage)
      BY <1>a, <2>3 DEF publishPendingStage, CallOr, At
    <3>2. /\ pendingStage' = stage /\ ceilingStop' = NoStage
          /\ queue' = Append(queue, [call |-> "writePendingStage",
                                     stage |-> stage, artifact |-> "none"])
      BY <1>n, <3>1 DEF writePendingStage, Enqueue, Judging
    <3>3. queue'[1].stage = stage
      BY <1>c, <3>1, <3>2 DEF AwaitCall
    <3>4. QED
      BY <1>j, <2>c, <3>1, <3>2, <3>3 DEF InStage, Judging
  <2>4. CASE prepareStageJudgment
    <3>1. /\ pc = "sources" /\ pc' = "judge" /\ stage' = stage
          /\ pendingStage' = stage /\ ceilingStop' = NoStage
      BY <1>a, <1>m, <2>4 DEF prepareStageJudgment, updatePendingStage, At,
         Go, Judging
    <3>2. QED
      BY <1>j, <2>c, <3>1 DEF InStage, Judging, AwaitCall
  <2>5. ASSUME NEW call, pc \in Judging, pc \notin AwaitCall, pc' \in Judging,
               stage' = stage, Enqueue(call, pendingStage, "none"),
               UNCHANGED <<pendingStage, ceilingStop, io>>
        PROVE  Accepting'
    <3>1. pendingStage = stage /\ ceilingStop = NoStage /\ queue = <<>>
      BY <1>c, <1>m, <2>5
    <3>2. queue'[1].stage = stage
      BY <2>5, <3>1 DEF Enqueue
    <3>3. io' # "landed"
      BY <1>i, <2>5, <3>1
    <3>4. QED
      BY <1>j, <2>5, <2>c, <3>1, <3>2, <3>3 DEF InStage
  <2>6. CASE StagePasses \/ StageStops \/ calibrateStageFailure
    BY <1>a, <2>5, <2>6 DEF StagePasses, StageStops, calibrateStageFailure,
       CallOr, completeStage, writeStageProgress, At, Judging, AwaitCall
  <2>7. CASE reviewStoppedStage
    <3>1. /\ pc = "review" /\ pc' \in {"calibrateStage", "failing"}
          /\ stage' = stage /\ pendingStage' = stage
          /\ ceilingStop' = NoStage
      BY <1>a, <1>m, <2>7 DEF reviewStoppedStage, updatePendingStage, At, Go,
         Judging
    <3>2. stage \notin checkpoints
      BY <1>m, <3>1 DEF Judging
    <3>3. CASE pc' = "calibrateStage"
      BY <1>j, <2>c, <3>1, <3>3 DEF InStage, Judging, AwaitCall
    <3>4. CASE pc' = "failing"
      BY <1>f, <2>c, <3>1, <3>2, <3>4 DEF OpenStage
    <3>5. QED
      BY <3>1, <3>3, <3>4
  <2>8. QED
    BY <1>2, <2>1, <2>2, <2>3, <2>4, <2>6, <2>7 DEF GradedStages
<1>3. CASE Candidate
  <2>1. UNCHANGED <<pendingStage, ceilingStop>>
    BY <1>3 DEF Candidate, FinalJudgeFailsPaid, FinalJudgeGrades,
       finishGradedRun, finishPausedRun, collectCalibration, CallOr,
       writeFailedArtifact, writePendingArtifact, awaitArtifactReview,
       completeArtifact, ArtifactCall, abortVars, memory
  <2>2. pc \notin Pending /\ pc' \notin Pending
        /\ pc' \notin {"session", "checkpoint"}
    BY <1>a, <1>3 DEF Candidate, FinalJudgeFailsPaid, FinalJudgeGrades,
       finishGradedRun, finishPausedRun, collectCalibration, CallOr, At, Go,
       Judging
  <2>3. QED
    BY <1>n, <1>o, <2>1, <2>2
<1>4. CASE WorkFails
  <2>1. /\ pc' = "failing" /\ stage' = stage /\ pendingStage' = pendingStage
        /\ UNCHANGED checkpoints
        /\ \/ ceilingStop' = ceilingStop
           \/ pc \in CeilingSteps /\ ceilingStop' = stage
    BY <1>4 DEF WorkFails, stopAtCeiling, abortVars, memory, checkout
  <2>2. pc \in CeilingSteps => stage \notin checkpoints
    BY <1>b DEF CeilingSteps, Accepting, InStage, Judging
  <2>3. QED
    BY <1>b, <1>f, <2>1, <2>2 DEF Accepting, OpenStage
<1>5. CASE CallReturns \/ CallThrows
  <2>1. /\ Len(queue) = 1 /\ queue[1].call = AwaitedCall[pc]
        /\ pc \in AwaitCall /\ Resolve
    BY <1>a, <1>c, <1>5 DEF CallReturns, CallThrows, SkipTransition,
       RunArtifactReview, FinishTransition, FailTransition
  <2>2. Current.call = AwaitedCall[pc] /\ queue' = <<>>
    BY <1>a, <2>1, LastCall
  <2>3. UNCHANGED <<ceilingStop, stageFile, stage, checkpoints>>
    BY <1>5, WorkFrame DEF CallReturns, CallThrows, SkipTransition,
       RunArtifactReview, FinishTransition, FailTransition, disk, checkout,
       Go
  <2>4. pendingStage' = IF FinishTransition /\ Current.call = "completeStage"
                          THEN NoStage ELSE pendingStage
    BY <1>a, <1>5, <2>1 DEF CallReturns, CallThrows, SkipTransition,
       RunArtifactReview, FinishTransition, FailTransition
  <2>5. CASE pc' = "failing"
    <3>1. pendingStage' \in {pendingStage, NoStage}
      BY <2>4
    <3>2. QED
      BY <1>b, <1>f, <2>3, <2>5, <3>1 DEF Accepting, OpenStage
  <2>6. CASE pc' # "failing"
    <3>1. CallReturns /\ pc' = AfterCall
      BY <1>5, <2>6 DEF CallReturns, CallThrows, Go
    <3>2. CASE pc = "recordPass"
      <4>1. Current.call = "completeStage" /\ pc' = "checkpoint"
        BY <2>2, <3>1, <3>2 DEF AwaitedCall, AwaitCall, AfterCall
      <4>2. FinishTransition
        BY <1>a, <3>1, <4>1 DEF CallReturns, SkipTransition,
           RunArtifactReview, Runs
      <4>3. stageFile[stage] = "JUDGED"
        BY <1>b, <3>2, <4>2 DEF FinishTransition, Accepting
      <4>4. NothingOpen
        BY <1>m, <2>3, <2>4, <3>2, <4>1, <4>2 DEF Judging
      <4>5. QED
        BY <1>o, <2>3, <4>1, <4>3, <4>4 DEF Judging
    <3>3. CASE pc \in {"writePendingStage", "recordStop"}
      <4>1. Current.call # "completeStage" /\ pc' \in {"sources", "review"}
        BY <2>2, <3>1, <3>3 DEF AwaitedCall, AwaitCall, AfterCall
      <4>2. pendingStage' = stage /\ ceilingStop' = NoStage
        BY <1>m, <2>3, <2>4, <3>3, <4>1 DEF Judging
      <4>3. QED
        BY <1>j, <2>3, <3>3, <4>1, <4>2 DEF InStage, Judging, AwaitCall
    <3>4. CASE pc \notin {"recordPass", "writePendingStage", "recordStop"}
      <4>1. pc \notin Pending /\ pc' \in {"judged", "pin", "closing"}
        BY <2>1, <2>6, <3>1, <3>4 DEF AwaitCall, AfterCall, Judging
      <4>2. NothingOpen
        BY <1>n, <2>3, <2>4, <4>1
      <4>3. QED
        BY <1>o, <4>1, <4>2 DEF Judging
    <3>5. QED
      BY <3>2, <3>3, <3>4
  <2>7. QED
    BY <2>5, <2>6
<1>6. CASE Finish
  <2>1. ~reportRunFailure
    BY <1>a DEF reportRunFailure, Mark, markAborted
  <2>2. UNCHANGED <<pendingStage, ceilingStop, stage, checkpoints>>
    BY <1>6, <2>1, FinishFrame DEF Finish, reportError, FailureRecorded,
       pauseForFailureInspection, recordPaused, CloseBegins, CloseEnds,
       MainExits, closeStore, abortVars, memory
  <2>3. CASE reportError
    BY <1>b, <1>f, <2>2, <2>3 DEF reportError, Go, Accepting, OpenStage
  <2>4. CASE ~reportError
    <3>1. pc \notin Pending /\ pc' \notin Pending
      BY <1>6, <2>1, <2>4 DEF Finish, FailureRecorded,
         pauseForFailureInspection, recordPaused, CloseBegins, CloseEnds,
         MainExits, At, Go, flow, Judging
    <3>2. pc' \notin {"session", "checkpoint"}
      BY <1>6, FinishFrame DEF CloseSteps
    <3>3. QED
      BY <1>n, <1>o, <2>2, <3>1, <3>2
  <2>5. QED
    BY <2>3, <2>4
<1>7. CASE JudgeProgress
  BY <1>k, <1>7, ProcessFrame DEF JudgeProgress, recordJudgeProgress, memory
<1>8. CASE ChainStep
  <2>1. UNCHANGED <<flow, checkpoints>>
        /\ (StartTransition \/ WriteLands \/ WriteFails)
    BY <1>a, <1>8, NoRecord DEF ChainStep, RunInv, checkout
  <2>2. UNCHANGED <<pendingStage, ceilingStop, queue>>
    BY <2>1 DEF StartTransition, StartPendingStage, StartCompleteStage,
       StartStageEvent, StartWrite, Await, WriteLands, WriteFails
  <2>3. queue # <<>>
    BY <1>i, <2>1 DEF StartTransition, StartPendingStage,
       StartCompleteStage, StartStageEvent, StartWrite, Runs, WriteLands,
       WriteFails
  <2>4. pc \in AwaitCall /\ Len(queue) = 1 /\ queue[1].call = AwaitedCall[pc]
    BY <1>c, <2>3
  <2>5. (pc = "recordPass" /\ io' = "landed") => stageFile'[stage] = "JUDGED"
    <3> SUFFICES ASSUME pc = "recordPass", io' = "landed"
                 PROVE  stageFile'[stage] = "JUDGED"
      OBVIOUS
    <3>1. WriteLands
      BY <2>1 DEF StartTransition, StartPendingStage, StartCompleteStage,
         StartStageEvent, StartWrite, Await, WriteFails
    <3>2. Current = queue[1] /\ Current.call = "completeStage"
          /\ Current.stage = stage
      BY <1>a, <1>b, <2>3, <2>4, TailQueue DEF TypeOK, Current, AwaitedCall,
         Accepting, Judging
    <3>3. phase = "write"
      BY <2>3, <3>1, <3>2 DEF RunInv, IInv, ChainInv, WriteLands
    <3>4. WritesStage /\ WrittenStage = stage /\ WrittenStatus = "JUDGED"
      BY <3>2, <3>3 DEF WritesStage, WrittenStage, WrittenStatus, StageCalls
    <3>5. stage \in Stages /\ stageFile \in [Stages -> StageStatus]
      BY <1>a, <1>m DEF TypeOK, Judging
    <3>6. stageFile' = [stageFile EXCEPT ![stage] = "JUDGED"]
      BY <3>1, <3>4 DEF WriteLands
    <3>7. QED
      BY <3>5, <3>6
  <2>6. CASE pc \in Judging
    BY <1>b, <1>j, <1>m, <2>1, <2>2, <2>5, <2>6 DEF Accepting, InStage, flow
  <2>7. CASE pc \notin Judging
    <3>1. pc \notin Pending /\ pc \notin {"session", "checkpoint"}
      BY <2>4, <2>7 DEF AwaitCall
    <3>2. QED
      BY <1>n, <1>o, <2>1, <2>2, <3>1 DEF flow
  <2>8. QED
    BY <2>6, <2>7
<1>9. CASE SignalHandler \/ Signal
  <2>1. UNCHANGED abortVars
    BY <1>a, <1>9 DEF SignalHandler, KilledCommandExits, HandlerTearsDown,
       HandlerExits, Signal, SignalKills, SignalMarks, Mark, markAborted
  <2>2. QED
    BY <1>k, <1>9, <2>1, ProcessFrame DEF abortVars, memory, disk
<1>10. CASE runCommand \/ CommandExits \/ Teardown \/ requestPause \/ Crash
  <2>1. UNCHANGED abortVars
    BY <1>10 DEF runCommand, CommandExits, Teardown, releaseClone,
       discardClone, StopServices, requestPause, Crash
  <2>2. QED
    BY <1>k, <1>10, <2>1, ProcessFrame DEF abortVars, memory, disk
<1>11. CASE UNCHANGED runVars
  BY <1>k, <1>11 DEF runVars, abortVars, memory, disk, checkout
<1>12. QED
  BY <1>1, <1>2, <1>3, <1>4, <1>5, <1>6, <1>7, <1>8, <1>9, <1>10, <1>11
     DEF RunNext, MainFlow

LEMMA AcceptStep ==
    ASSUME RunInv, ReportTypeOK, AcceptInv, [ReportNext]_reportVars
    PROVE  AcceptInv'
<1>1. CASE UNCHANGED <<runVars, unaborted>>
  BY <1>1 DEF runVars, abortVars, memory, disk, flow, checkout, AcceptInv,
     QueuedStages, StoppedStage, Accepting, OpenStage
<1>2. CASE [RunNext]_runVars /\ NoteUnaborted
  <2>0. RunInv' /\ [Next]_abortVars
    BY <1>2, StageStep, ComponentStep, NextIInv, AwaitStep DEF RunInv
  <2>1. checkpoints' \subseteq 0..stage'
    BY <1>2, CheckpointsReached DEF RunInv, AcceptInv
  <2>2. CASE ~aborted'
    <3>1. unaborted'.accepted = checkpoints' \cap Stages
      BY <1>2, <2>2 DEF NoteUnaborted
    <3>2. Accepting'
      BY <1>2, <2>2, <3>1, AcceptingStep
    <3>3. QueuedStages'
      <4> SUFFICES ASSUME NEW i \in 1..Len(queue'),
                          queue'[i].call \in StageCalls
                   PROVE  queue'[i].stage \in Stages \ unaborted'.accepted
        BY DEF QueuedStages
      <4>1. pc' \in AwaitCall /\ Len(queue') = 1
            /\ queue'[1].call = AwaitedCall[pc']
        <5>1. queue' # <<>>
          BY EmptySeq
        <5>2. QED
          BY <2>0, <2>2, <5>1 DEF RunInv, AwaitInv
      <4>2. i = 1
        BY <4>1
      <4>3. pc' \in Judging
        BY <4>1, <4>2 DEF AwaitedCall, AwaitCall, StageCalls, Judging
      <4>4. queue'[1].stage = stage' /\ stage' \in Stages
            /\ stage' \notin checkpoints'
        BY <2>0, <3>2, <4>1, <4>3 DEF Accepting, RunInv, StageInv, InStage
      <4>5. QED
        BY <3>1, <4>2, <4>4
    <3>4. \A s \in unaborted'.accepted : stageFile'[s] = "JUDGED"
      <4>1. ~aborted
        BY <2>0, <2>2, AbortStays
      <4>2. unaborted.accepted = checkpoints \cap Stages
        BY <4>1 DEF AcceptInv, Accepting
      <4>3. \A s \in unaborted.accepted : stageFile'[s] = "JUDGED"
        BY <2>0, AcceptedKept DEF RunInv
      <4>4. CASE checkpoints' = checkpoints
        BY <3>1, <4>2, <4>3, <4>4
      <4>5. CASE checkpoints' # checkpoints
        <5>1. recordCheckpoint
          <6>1. CASE Preparation
            BY <4>5, <6>1 DEF Preparation, CloneTarget, claimTarget,
               KeepSource, CloneFails, DiscardClone,
               recordInitialRunManifest, recordRetentionRef, retainInTarget,
               checkout
          <6>2. CASE ~Preparation
            BY <1>2, <4>5, <6>2, WorkFrame, FinishFrame, ProcessFrame
               DEF RunNext, MainFlow, runVars, checkout
          <6>3. QED
            BY <6>1, <6>2
        <5>2. /\ pc = "checkpoint" /\ checkpoints' = checkpoints \cup {stage}
              /\ stageFile' = stageFile
          BY <5>1 DEF recordCheckpoint, At, abortVars, disk
        <5>3. stage \in Stages => stageFile'[stage] = "JUDGED"
          BY <4>1, <5>2 DEF AcceptInv, Accepting
        <5>4. QED
          BY <3>1, <4>2, <4>3, <5>2, <5>3
      <4>6. QED
        BY <4>4, <4>5
    <3>5. QED
      BY <2>1, <2>2, <3>2, <3>3, <3>4 DEF AcceptInv
  <2>3. CASE aborted'
    <3>1. unaborted' = unaborted
      BY <1>2, <2>3 DEF NoteUnaborted
    <3>2. QueuedStages'
      <4> SUFFICES ASSUME NEW i \in 1..Len(queue'),
                          queue'[i].call \in StageCalls
                   PROVE  queue'[i].stage \in Stages \ unaborted.accepted
        BY <3>1 DEF QueuedStages
      <4>1. ~NewCall(queue'[i])
        BY <2>3 DEF NewCall, NormalCalls
      <4>2. PICK j \in 1..Len(queue) : queue'[i] = queue[j]
        BY <2>0, <4>1, QueueMembers DEF RunInv
      <4>3. QED
        BY <4>2 DEF AcceptInv, QueuedStages
    <3>3. \A s \in unaborted'.accepted : stageFile'[s] = "JUDGED"
      BY <2>0, <3>1, AcceptedKept DEF RunInv
    <3>4. StoppedStage' \notin unaborted'.accepted
      BY <1>2, <2>3, <3>1, StopNamesOpenStage
    <3>5. QED
      BY <2>1, <2>3, <3>2, <3>3, <3>4 DEF AcceptInv
  <2>4. QED
    BY <2>0, <2>2, <2>3 DEF RunInv, IInv, TypeOK
<1>3. CASE PassOnly /\ NoteUnaborted
  <2>1. UNCHANGED <<memory, stageFile, flow, checkpoints>>
    BY <1>3 DEF PassOnly, checkout
  <2>2. unaborted'.accepted = unaborted.accepted
    BY <1>3, <2>1 DEF NoteUnaborted, memory, AcceptInv, Accepting
  <2>3. QED
    BY <2>1, <2>2 DEF memory, flow, AcceptInv, QueuedStages, StoppedStage,
       Accepting, OpenStage
<1>4. QED
  BY <1>1, <1>2, <1>3, ReportStep

-----------------------------------------------------------------------------
(* What was released before an abort.                                      *)

(* Past the artifact the flow stays past it. *)
LEMMA PastStays ==
    ASSUME PastArtifact, [RunNext]_runVars
    PROVE  PastArtifact'
<1>1. CASE Preparation
  BY <1>1 DEF Preparation, CloneTarget, claimTarget, KeepSource, CloneFails,
     DiscardClone, recordInitialRunManifest, recordCheckpoint,
     recordRetentionRef, retainInTarget, At, Go, flow, PastArtifact, Ending
<1>2. CASE GradedStages \/ Candidate
  BY <1>2 DEF GradedStages, PauseAtBoundary, beginGradedStage,
     judgeRunCandidate, publishPendingStage, prepareStageJudgment,
     StagePasses, StageStops, reviewStoppedStage, calibrateStageFailure,
     Candidate, FinalJudgeFailsPaid, FinalJudgeGrades, finishGradedRun,
     finishPausedRun, collectCalibration, At, PastArtifact, Ending
<1>3. CASE WorkFails \/ CallReturns \/ CallThrows
  BY <1>3 DEF WorkFails, CallReturns, CallThrows, AwaitCall, PastArtifact,
     Ending
<1>4. CASE Finish
  BY <1>4, FinishFrame DEF CloseSteps, PastArtifact, Ending
<1>5. CASE UNCHANGED flow
  BY <1>5 DEF flow, PastArtifact
<1>6. QED
  BY <1>1, <1>2, <1>3, <1>4, <1>5, ProcessFrame DEF RunNext, MainFlow,
     runVars

(* A settled artifact stays settled, through failures and signals. *)
LEMMA SettledStep ==
    ASSUME RunInv, Settled, [RunNext]_runVars
    PROVE  Settled'
<1>p. PastArtifact'
  BY PastStays DEF Settled
<1>t. TypeOK /\ SafetyInv /\ aborted = recorded
  BY DEF RunInv, IInv, SafetyInv, QueueInv
<1>h. queue # <<>> => Current.call = "record" /\ phase # "write" /\ aborted
  <2> SUFFICES ASSUME queue # <<>>
               PROVE  Current.call = "record" /\ phase # "write" /\ aborted
    OBVIOUS
  <2>1. Len(queue) \in Nat \ {0} /\ Current = queue[1]
    BY <1>t, TailQueue DEF TypeOK, Current
  <2>2. Current.call = "record"
    BY <2>1 DEF Settled
  <2>3. RecordWaiting
    BY <2>1, <2>2 DEF RecordWaiting
  <2>4. QED
    BY <1>t, <2>2, <2>3 DEF SafetyInv, QueueInv, ChainInv
<1>k. ASSUME UNCHANGED <<queue, phase, artifact, pendingArtifact, snapshot,
                         aborted>>
      PROVE  Settled'
  BY <1>k, <1>p DEF Settled
<1>u. ASSUME UNCHANGED abortVars PROVE Settled'
  BY <1>k, <1>u DEF abortVars, memory, disk
<1>m. ASSUME NEW operatorStop, Mark(operatorStop) PROVE Settled'
  <2>1. CASE UNCHANGED abortVars
    BY <1>u, <2>1
  <2>2. CASE markAborted(operatorStop)
    <3> DEFINE t == [call |-> "record", stage |-> NoStage,
                     artifact |-> "none"]
    <3>1. t \in Transitions /\ t.call = "record"
      BY DEF Transitions, Calls, ArtifactStatus
    <3>2. /\ queue' = Append(queue, t)
          /\ UNCHANGED <<phase, artifact, pendingArtifact>>
          /\ snapshot'.artifact = pendingArtifact
      BY <2>2 DEF markAborted, Enqueue, Snapshot, disk
    <3> HIDE DEF t
    <3>3. /\ Len(queue) \in Nat
          /\ Len(queue') = Len(queue) + 1
          /\ \A i \in 1..Len(queue) : queue'[i] = queue[i]
          /\ queue'[Len(queue) + 1] = t
      BY <1>t, <3>1, <3>2, AppendQueue DEF TypeOK
    <3>4. \A i \in 1..Len(queue') : queue'[i].call = "record"
      BY <3>1, <3>3 DEF Settled
    <3>5. QED
      BY <1>p, <3>2, <3>4 DEF Settled
  <2>3. QED
    BY <1>m, <2>1, <2>2 DEF Mark
<1>1. CASE Preparation
  BY <1>k, <1>1 DEF Preparation, CloneTarget, claimTarget, KeepSource,
     CloneFails, DiscardClone, recordInitialRunManifest, recordCheckpoint,
     recordRetentionRef, retainInTarget, closeStore, abortVars, memory, disk
<1>2. CASE GradedStages \/ Candidate
  BY <1>2 DEF GradedStages, PauseAtBoundary, beginGradedStage,
     judgeRunCandidate, publishPendingStage, prepareStageJudgment,
     StagePasses, StageStops, reviewStoppedStage, calibrateStageFailure,
     Candidate, FinalJudgeFailsPaid, FinalJudgeGrades, finishGradedRun,
     finishPausedRun, collectCalibration, At, Settled, PastArtifact, Ending
<1>3. CASE WorkFails \/ CallReturns \/ CallThrows \/ JudgeProgress
  <2>1. CASE WorkFails
    BY <1>u, <2>1 DEF WorkFails, CeilingSteps, Settled, PastArtifact, Ending
  <2>2. QED
    BY <1>3, <2>1 DEF CallReturns, CallThrows, AwaitCall, JudgeProgress,
       Settled, PastArtifact, Ending
<1>4. CASE Finish
  BY <1>k, <1>m, <1>u, <1>4 DEF Finish, reportError, reportRunFailure,
     FailureRecorded, pauseForFailureInspection, recordPaused, CloseBegins,
     CloseEnds, MainExits, closeStore, disk
<1>5. CASE ChainStep
  <2>1. queue # <<>>
    BY <1>5, <1>t DEF ChainStep, StartTransition, StartPendingStage,
       StartCompleteStage, StartStageEvent, StartWrite, Runs, RunRecord,
       StartRecord, ContinueRecord, WriteLands, WriteFails, SafetyInv,
       ChainInv
  <2>2. Current.call = "record" /\ phase # "write" /\ aborted
        /\ snapshot.artifact = "none"
    BY <1>h, <2>1 DEF Settled
  <2>3. CASE StartTransition
    BY <2>2, <2>3 DEF StartTransition, StartPendingStage,
       StartCompleteStage, StartStageEvent, StartWrite, Runs
  <2>4. CASE WriteLands \/ WriteFails
    BY <1>k, <2>2, <2>4 DEF WriteLands, WriteFails, WritesArtifact, disk,
       Settled
  <2>5. CASE RunRecord
    <3>1. UNCHANGED <<artifact, pendingArtifact, snapshot, aborted>>
      BY <2>5 DEF RunRecord, StartRecord, ContinueRecord
    <3>2. \/ Resolve
          \/ UNCHANGED queue /\ phase' \in {"operatorStop", "stageStop"}
      BY <2>2, <2>5 DEF RunRecord, StartRecord, ContinueRecord,
         RecordAborted, AwaitArtifactStop, Await
    <3>3. CASE Resolve
      <4>1. /\ Len(queue) \in Nat \ {0}
            /\ Len(queue') = Len(queue) - 1
            /\ \A i \in 1..Len(queue') : queue'[i] = queue[i + 1]
        BY <1>t, <2>1, <3>3, TailQueue DEF TypeOK, Resolve
      <4>2. \A i \in 1..Len(queue') : i + 1 \in 1..Len(queue)
        BY <4>1
      <4>3. \A i \in 1..Len(queue') : queue'[i].call = "record"
        BY <4>1, <4>2 DEF Settled
      <4>4. QED
        BY <1>p, <3>1, <3>3, <4>3 DEF Settled, Resolve
    <3>4. CASE UNCHANGED queue /\ phase' \in {"operatorStop", "stageStop"}
      BY <1>p, <3>1, <3>4 DEF Settled
    <3>5. QED
      BY <3>2, <3>3, <3>4
  <2>6. QED
    BY <1>5, <2>3, <2>4, <2>5 DEF ChainStep
<1>6. CASE SignalHandler \/ Signal
  BY <1>m, <1>u, <1>6 DEF SignalHandler, KilledCommandExits,
     HandlerTearsDown, HandlerExits, Signal, SignalKills, SignalMarks
<1>7. CASE \/ runCommand \/ CommandExits \/ Teardown \/ requestPause \/ Crash
           \/ UNCHANGED runVars
  BY <1>u, <1>7 DEF runCommand, CommandExits, Teardown, releaseClone,
     discardClone, StopServices, requestPause, Crash, runVars
<1>8. QED
  BY <1>1, <1>2, <1>3, <1>4, <1>5, <1>6, <1>7 DEF RunNext, MainFlow

(* The run's completion is recorded by the call that releases it. *)
LEMMA CompletedBy ==
    ASSUME TypeOK, [Next]_abortVars, ~HasEvent("run-completed"),
           HasEvent("run-completed")'
    PROVE  Completes
<1>1. events' # events
  BY DEF HasEvent
<1>2. PICK kind \in EventKinds, s \in Stages \cup {NoStage} :
         EventAdded(kind, s)
  BY <1>1, NewEvent
<1>3. events \in Seq(Events) /\ [kind |-> kind, stage |-> s] \in Events
  BY DEF TypeOK, Events
<1>4. /\ Len(events) \in Nat
      /\ Len(events') = Len(events) + 1
      /\ \A i \in 1..Len(events) : events'[i] = events[i]
      /\ events'[Len(events) + 1].kind = kind
  BY <1>2, <1>3, AppendQueue DEF EventAdded
<1>5. PICK i \in 1..Len(events') : events'[i].kind = "run-completed"
  BY DEF HasEvent
<1>6. i = Len(events) + 1
  BY <1>4, <1>5 DEF HasEvent
<1>7. QED
  BY <1>2, <1>4, <1>5, <1>6 DEF EventAdded

(* The release itself settles the artifact. *)
LEMMA ReleaseSettles ==
    ASSUME RunInv, FlowInv, Releasing, [RunNext]_runVars, ~aborted',
           ~HasEvent("run-completed"), HasEvent("run-completed")'
    PROVE  Settled'
<1>0. RunInv' /\ [Next]_abortVars
  BY StageStep, ComponentStep, NextIInv, AwaitStep DEF RunInv
<1>a. ~aborted /\ TypeOK
  BY <1>0, AbortStays DEF RunInv, IInv
<1>c. Completes
  BY <1>0, <1>a, CompletedBy
<1>1. queue # <<>> /\ Resolve
  BY <1>c DEF Completes, RunArtifactReview, FinishTransition, Runs, RunInv,
     IInv, ChainInv
<1>2. /\ Len(queue) = 1 /\ queue[1].call = AwaitedCall[pc] /\ pc \in AwaitCall
  BY <1>1, <1>a DEF RunInv, AwaitInv
<1>3. queue' = <<>> /\ Current.call = AwaitedCall[pc]
  BY <1>1, <1>2, <1>a, LastCall
<1>4. pc \in {"awaitArtifactReview", "completeArtifact"}
  BY <1>2, <1>3, <1>c DEF Completes, RunArtifactReview, Runs, AwaitedCall,
     AwaitCall
<1>5. pendingArtifact' = "none" /\ UNCHANGED artifact /\ phase' = "queued"
  BY <1>c DEF Completes, RunArtifactReview, FinishTransition, Resolve
<1>6. artifact' # "FAILED"
  BY <1>4, <1>5 DEF Releasing, FailedPlaces
<1>7. pc' # pc
  <2>1. pc' \notin AwaitCall
    <3>1. Len(queue') # 1
      BY <1>3, EmptySeq
    <3>2. QED
      BY <1>0, <3>1 DEF RunInv, AwaitInv
  <2>2. QED
    BY <1>2, <2>1
<1>8. PastArtifact'
  <2>1. CASE CallReturns \/ CallThrows
    <3>1. pc' \in {"pin", "closing", "failing"} /\ stage' = stage
      BY <1>4, <2>1 DEF CallReturns, CallThrows, AfterCall, Go
    <3>2. stage = N + 1
      BY <1>4 DEF FlowInv, Deciding
    <3>3. QED
      BY <3>1, <3>2 DEF PastArtifact, Ending
  <2>2. CASE Preparation \/ Finish
    BY <1>4, <2>2, PreparationFrame, FinishFrame DEF CloseSteps
  <2>3. CASE GradedStages \/ Candidate \/ WorkFails
    BY <1>4, <2>3 DEF GradedStages, PauseAtBoundary, beginGradedStage,
       judgeRunCandidate, publishPendingStage, prepareStageJudgment,
       StagePasses, StageStops, reviewStoppedStage, calibrateStageFailure,
       Candidate, FinalJudgeFailsPaid, FinalJudgeGrades, finishGradedRun,
       finishPausedRun, collectCalibration, WorkFails, Work, At
  <2>4. CASE UNCHANGED flow
    BY <1>7, <2>4 DEF flow
  <2>5. QED
    BY <2>1, <2>2, <2>3, <2>4, ProcessFrame DEF RunNext, MainFlow, runVars
<1>9. QED
  <2>1. \A i \in 1..Len(queue') : queue'[i].call = "record"
    BY <1>3, EmptySeq
  <2>2. QED
    BY <1>5, <1>6, <1>8, <2>1 DEF Settled

(* A failed artifact is one the main flow wrote as it failed. *)
LEMMA FailedArtifactStep ==
    ASSUME RunInv, Releasing, [RunNext]_runVars, ~aborted',
           artifact' = "FAILED"
    PROVE  pc' \in FailedPlaces
<1>a. ~aborted /\ TypeOK
  BY ComponentStep, AbortStays DEF RunInv, IInv
<1>1. CASE artifact = "FAILED"
  <2>1. pc \in FailedPlaces
    BY <1>1 DEF Releasing
  <2>2. CASE Preparation
    BY <2>1, <2>2, PreparationFrame DEF FailedPlaces
  <2>3. CASE GradedStages \/ Candidate \/ WorkFails
    BY <2>1, <2>3 DEF GradedStages, PauseAtBoundary, beginGradedStage,
       judgeRunCandidate, publishPendingStage, prepareStageJudgment,
       StagePasses, StageStops, reviewStoppedStage, calibrateStageFailure,
       Candidate, FinalJudgeFailsPaid, FinalJudgeGrades, finishGradedRun,
       finishPausedRun, collectCalibration, WorkFails, Work, At,
       FailedPlaces
  <2>4. CASE CallReturns \/ CallThrows
    BY <2>1, <2>4 DEF CallReturns, CallThrows, AfterCall, AwaitCall, Go,
       FailedPlaces
  <2>5. CASE Finish
    <3>1. ~reportRunFailure
      BY <1>a DEF reportRunFailure, Mark, markAborted, RunInv, IInv,
         QueueInv
    <3>2. QED
      BY <2>1, <2>5, <3>1 DEF Finish, reportError, FailureRecorded,
         pauseForFailureInspection, recordPaused, CloseBegins, CloseEnds,
         MainExits, At, Go, FailedPlaces
  <2>6. CASE UNCHANGED flow
    BY <2>1, <2>6 DEF flow
  <2>7. QED
    BY <2>2, <2>3, <2>4, <2>5, <2>6, ProcessFrame DEF RunNext, MainFlow,
       runVars
<1>2. CASE artifact # "FAILED"
  <2>1. WriteLands
    <3>1. CASE Preparation
      BY <1>2, <3>1 DEF Preparation, CloneTarget, claimTarget, KeepSource,
         CloneFails, DiscardClone, recordInitialRunManifest,
         recordCheckpoint, recordRetentionRef, retainInTarget, closeStore,
         abortVars, disk
    <3>2. CASE [Next]_abortVars /\ ~WriteLands
      <4>1. CASE Call \/ Note \/ Abort \/ closeStore \/ UNCHANGED abortVars
        BY <1>2, <4>1 DEF Call, Note, Abort, closeStore, writePendingStage,
           writeStageProgress, completeStage, writePendingArtifact,
           completeArtifact, awaitArtifactReview, writeFailedArtifact,
           ArtifactCall, recordStageStarted, recordJudgeProgress,
           stopAtCeiling, updatePendingStage, markAborted, abortVars, disk
      <4>2. CASE Chain \/ WriteFails
        BY <1>2, <3>2, <4>2 DEF Chain, WriteFails, SkipTransition,
           StartTransition, StartPendingStage, StartCompleteStage,
           StartStageEvent, StartWrite, RunArtifactReview, RunRecord,
           StartRecord, ContinueRecord, FinishTransition, FailTransition,
           disk
      <4>3. QED
        BY <3>2, <4>1, <4>2 DEF Next
    <3>3. QED
      BY <3>2, ComponentStep DEF RunInv
  <2>2. phase # "queued" /\ queue # <<>>
    BY <2>1 DEF WriteLands, RunInv, IInv, ChainInv
  <2>3. /\ Len(queue) = 1 /\ queue[1].call = AwaitedCall[pc]
        /\ pc \in AwaitCall /\ Current = queue[1]
    BY <1>a, <2>2, TailQueue DEF RunInv, AwaitInv, TypeOK, Current
  <2>4. phase = "write" /\ Current.call # "awaitArtifactReview"
    BY <2>2, <2>3 DEF RunInv, IInv, ChainInv, AwaitedCall, AwaitCall
  <2>5. Current.call \notin StageCalls /\ Current.artifact = "FAILED"
    BY <1>2, <2>1, <2>4 DEF WriteLands, WritesArtifact
  <2>6. pc = "writeFailedArtifact"
    BY <2>3, <2>4, <2>5 DEF AwaitedCall, AwaitCall, StageCalls, Releasing
  <2>7. pc' = pc
    <3>1. pc' \in AwaitCall
      <4>1. queue' = queue
        BY <2>1 DEF WriteLands
      <4>2. AwaitInv'
        BY AwaitStep DEF RunInv
      <4>3. QED
        BY <2>2, <4>1, <4>2 DEF AwaitInv
    <3>2. CASE CallReturns \/ CallThrows
      BY <2>6, <3>1, <3>2 DEF CallReturns, CallThrows, AfterCall, AwaitCall,
         Go
    <3>3. CASE Preparation \/ Finish
      BY <2>6, <3>3, PreparationFrame, FinishFrame DEF CloseSteps
    <3>4. CASE GradedStages \/ Candidate \/ WorkFails
      BY <2>6, <3>4 DEF GradedStages, PauseAtBoundary, beginGradedStage,
         judgeRunCandidate, publishPendingStage, prepareStageJudgment,
         StagePasses, StageStops, reviewStoppedStage, calibrateStageFailure,
         Candidate, FinalJudgeFailsPaid, FinalJudgeGrades, finishGradedRun,
         finishPausedRun, collectCalibration, WorkFails, Work, At
    <3>5. CASE UNCHANGED flow
      BY <3>5 DEF flow
    <3>6. QED
      BY <3>2, <3>3, <3>4, <3>5, ProcessFrame DEF RunNext, MainFlow, runVars
  <2>8. QED
    BY <2>6, <2>7 DEF FailedPlaces
<1>3. QED
  BY <1>1, <1>2

LEMMA ReleaseStep ==
    ASSUME RunInv, FlowInv, ReportTypeOK, ReleaseInv, [ReportNext]_reportVars
    PROVE  ReleaseInv'
<1>1. CASE UNCHANGED <<runVars, unaborted>>
  BY <1>1 DEF runVars, abortVars, memory, disk, flow, ReleaseInv, Releasing,
     Settled, PastArtifact, HasEvent
<1>2. CASE [RunNext]_runVars /\ NoteUnaborted
  <2>0. [Next]_abortVars /\ TypeOK /\ IInv'
    BY <1>2, ComponentStep, NextIInv DEF RunInv, IInv
  <2>1. CASE aborted'
    <3>1. unaborted' = unaborted
      BY <1>2, <2>1 DEF NoteUnaborted
    <3>2. QED
      BY <1>2, <2>1, <3>1, SettledStep DEF ReleaseInv
  <2>2. CASE ~aborted'
    <3>1. unaborted'.released = HasEvent("run-completed")'
      BY <1>2, <2>2 DEF NoteUnaborted
    <3>2. ~aborted /\ Releasing
      BY <2>0, <2>2, AbortStays DEF ReleaseInv
    <3>3. unaborted'.released => Settled'
      <4>1. CASE unaborted.released
        BY <1>2, <4>1, SettledStep DEF ReleaseInv
      <4>2. CASE ~unaborted.released
        <5>1. ~HasEvent("run-completed")
          BY <3>2, <4>2 DEF Releasing
        <5>2. QED
          BY <1>2, <2>2, <3>1, <3>2, <5>1, ReleaseSettles
      <4>3. QED
        BY <4>1, <4>2
    <3>4. artifact' = "FAILED" => pc' \in FailedPlaces
      BY <1>2, <2>2, <3>2, FailedArtifactStep
    <3>5. \A i \in 1..Len(queue') :
            queue'[i].call \in {"writePendingArtifact", "completeArtifact"}
               => queue'[i].artifact # "FAILED"
      <4>1. IInv
        BY DEF RunInv
      <4>2. QED
        BY <2>0, <3>2, <4>1, QueueMembers DEF Releasing, NewCall
    <3>6. QED
      BY <3>1, <3>3, <3>4, <3>5 DEF ReleaseInv, Releasing
  <2>3. QED
    BY <2>0, <2>1, <2>2 DEF IInv, TypeOK
<1>3. CASE PassOnly /\ NoteUnaborted
  <2>1. UNCHANGED <<memory, artifact, flow>>
    BY <1>3 DEF PassOnly
  <2>2. HasEvent("run-completed")' <=> HasEvent("run-completed")
    <3>1. CASE UNCHANGED events
      BY <3>1 DEF HasEvent
    <3>2. CASE events' = Append(events, [kind |-> "run-interrupted",
                                         stage |-> pass.stage])
      <4>1. events \in Seq(Events)
            /\ [kind |-> "run-interrupted", stage |-> pass.stage] \in Events
        BY DEF RunInv, IInv, TypeOK, ReportTypeOK, Events, EventKinds,
           TerminalKinds
      <4>2. /\ Len(events) \in Nat
            /\ Len(events') = Len(events) + 1
            /\ \A i \in 1..Len(events) : events'[i] = events[i]
            /\ events'[Len(events) + 1].kind = "run-interrupted"
        BY <3>2, <4>1, AppendQueue
      <4>3. QED
        BY <4>2 DEF HasEvent
    <3>3. QED
      BY <1>3, <3>1, <3>2 DEF PassOnly
  <2>3. unaborted'.released = unaborted.released
    <3>1. CASE aborted'
      BY <1>3, <3>1 DEF NoteUnaborted
    <3>2. CASE ~aborted'
      <4>1. unaborted'.released = HasEvent("run-completed")'
        BY <1>3, <3>2 DEF NoteUnaborted
      <4>2. unaborted.released = HasEvent("run-completed")
        BY <2>1, <3>2 DEF memory, ReleaseInv, Releasing
      <4>3. QED
        BY <2>2, <4>1, <4>2 DEF HasEvent
    <3>3. QED
      BY <3>1, <3>2
  <2>4. CASE ~aborted'
    <3>1. Releasing'
      <4>1. Releasing
        BY <2>1, <2>4 DEF memory, ReleaseInv
      <4>2. unaborted'.released = HasEvent("run-completed")'
        BY <1>3, <2>4 DEF NoteUnaborted
      <4>3. QED
        BY <2>1, <4>1, <4>2 DEF memory, flow, Releasing
    <3>2. QED
      BY <2>1, <2>3, <3>1 DEF memory, flow, ReleaseInv, Settled, PastArtifact
  <2>5. CASE aborted'
    BY <2>1, <2>3, <2>5 DEF memory, flow, ReleaseInv, Settled, PastArtifact
  <2>6. QED
    BY <2>1, <2>4, <2>5 DEF memory, RunInv, IInv, TypeOK
<1>4. QED
  BY <1>1, <1>2, <1>3, ReportStep

-----------------------------------------------------------------------------
(* The inductive invariant, and what the run reads as.                     *)

LEMMA InitReport == ReportInit => ReportInv
<1> SUFFICES ASSUME ReportInit PROVE ReportInv
  OBVIOUS
<1>1. RunInit
  BY DEF ReportInit
<1>2. RunInv
  BY <1>1, InitIInv, RunAbortAssumption DEF RunInit, InitAbort, RunInv,
     StageInv, InStage, Judging, Stages, AwaitInv, AwaitCall,
     JudgedStageIsPending
<1>3. ReportTypeOK
  <2>1. TypeOK
    BY <1>2 DEF RunInv, IInv
  <2>2. RunTypeOK
    <3>1. N \in Nat /\ stage \in 0..(N + 1)
      BY <1>1, RunAbortAssumption DEF RunInit
    <3>2. pausedFile \in Stages \cup {NoStage}
      BY <1>1 DEF RunInit
    <3>3. /\ checkpoints \subseteq 0..N
          /\ clonePin \in 0..(N + 2)
          /\ targetPin \in 0..(N + 2)
      BY <1>1, <3>1 DEF RunInit
    <3>4. QED
      BY <1>1, <2>1, <3>1, <3>2, <3>3 DEF RunInit, RunTypeOK, PCs, Work
  <2>3. pass \in [at : Passes, stage : Stages \cup {NoStage},
                  afterEnd : BOOLEAN]
    BY DEF ReportInit, NoPass, Passes
  <2>r. reader \in [at : Reads \cup {"idle", "interrupted"}, ended : BOOLEAN]
    BY DEF ReportInit, NoReading
  <2>4. unaborted \in [accepted : SUBSET Stages, released : BOOLEAN]
    BY DEF ReportInit
  <2>5. QED
    BY <2>2, <2>3, <2>r, <2>4 DEF ReportTypeOK
<1>4. CommitInv /\ FlowInv /\ HandlerInv
  BY <1>1 DEF RunInit, CommitInv, FlowInv, Deciding, HandlerInv
<1>5. Len(events) = 0 /\ Len(queue) = 0
  BY <1>1, EmptySeq DEF RunInit, InitAbort
<1>6. PassInv /\ SeenInv /\ InterruptInv
  BY <1>5 DEF ReportInit, NoPass, PassInv, SeenInv, InterruptInv
<1>7. EndInv
  BY <1>1 DEF RunInit, InitAbort, EndInv, UnabortedEnd, StoreInv
<1>r. TerminalInv /\ ReaderInv
  BY <1>1 DEF RunInit, InitAbort, ReportInit, NoReading, TerminalInv,
     LatestIsTerminal, ReaderInv
<1>8. AcceptInv
  BY <1>1, <1>5 DEF ReportInit, RunInit, InitAbort, AcceptInv, QueuedStages,
     Accepting, InStage, Judging
<1>9. ReleaseInv
  BY <1>1, <1>5 DEF ReportInit, RunInit, InitAbort, ReleaseInv, Releasing,
     HasEvent
<1>10. QED
  BY <1>2, <1>3, <1>4, <1>6, <1>7, <1>r, <1>8, <1>9 DEF ReportInv

LEMMA NextReport == ReportInv /\ [ReportNext]_reportVars => ReportInv'
<1> SUFFICES ASSUME ReportInv, [ReportNext]_reportVars PROVE ReportInv'
  OBVIOUS
<1>0. /\ RunInv /\ ReportTypeOK /\ CommitInv /\ FlowInv /\ HandlerInv
      /\ PassInv /\ SeenInv /\ InterruptInv /\ EndInv /\ TerminalInv
      /\ ReaderInv /\ AcceptInv /\ ReleaseInv
  BY DEF ReportInv
<1>1. RunInv' /\ CommitInv' /\ FlowInv' /\ HandlerInv'
  <2>1. CASE [RunNext]_runVars
    BY <1>0, <2>1, StageStep, ComponentStep, NextIInv, AwaitStep, CommitStep,
       FlowStep, HandlerStep DEF RunInv
  <2>2. CASE PassOnly
    BY <1>0, <2>2, PassKeepsRun
  <2>3. QED
    BY <2>1, <2>2, ReportStep
<1>2. ReportTypeOK'
  BY <1>0, TypeStep
<1>3. PassInv' /\ SeenInv' /\ InterruptInv'
  BY <1>0, PassStep, SeenStep, InterruptStep
<1>4. EndInv' /\ TerminalInv' /\ ReaderInv'
  BY <1>0, EndInvStep, TerminalStep, ReaderInvStep
<1>5. AcceptInv' /\ ReleaseInv'
  BY <1>0, AcceptStep, ReleaseStep
<1>6. QED
  BY <1>1, <1>2, <1>3, <1>4, <1>5 DEF ReportInv

(* The invariant holds in every state of a run and of the passes over it. *)
THEOREM ReportInvariance == ReportSpec => []ReportInv
  BY InitReport, NextReport, PTL DEF ReportSpec

(* The run, its readers and the server's pass keep their types. *)
THEOREM ReportType == ReportSpec => []ReportTypeOK
<1>1. ReportInv => ReportTypeOK
  BY DEF ReportInv
<1>2. QED
  BY <1>1, ReportInvariance, PTL

(* A reading calls a live run that no signal reached interrupted only when  *)
(* it raced the run's own end, for every pipeline and however the run's     *)
(* steps fall between its reads: the end leaves a terminal event or         *)
(* paused.json before the teardown deletes the claim.                       *)
THEOREM LiveRun == ReportSpec => []LiveRunNotInterrupted
<1>1. ReportInv => LiveRunNotInterrupted
  BY LiveReading DEF ReportInv
<1>2. QED
  BY <1>1, ReportInvariance, PTL

(* A signal that came before any failure reads as a stop, never as a        *)
(* failure, an interruption or a run in flight.                             *)
THEOREM SignalReadsAsStop == ReportSpec => []StopReadsAsStop
<1>1. ReportInv => StopReadsAsStop
  BY StopReading DEF ReportInv, RunInv
<1>2. QED
  BY <1>1, ReportInvariance, PTL

(* An abort rewrites no stage accepted and no artifact released before it.  *)
THEOREM NothingRewritten == ReportSpec => []StopRewritesNothing
<1>1. ReportInv => StopRewritesNothing
  BY DEF ReportInv, AcceptInv, ReleaseInv, Settled, StopRewritesNothing
<1>2. QED
  BY <1>1, ReportInvariance, PTL

(* Reconciliation changes nothing a reader sees, but for the terminal event *)
(* of a run whose end it missed.                                            *)
THEOREM ReadingKept == ReportSpec => PassKeepsReading
<1>1. ReportInv /\ [ReportNext]_reportVars =>
        [pass' # pass =>
            \/ runEnding' = runEnding
            \/ /\ ~pass.afterEnd
               /\ runEnding \in {"failed", "completed-without-artifact"}
               /\ runEnding' = "interrupted"]_reportVars
  BY PassReading DEF ReportInv
<1>2. QED
  BY <1>1, ReportInvariance, PTL DEF ReportSpec, PassKeepsReading

=============================================================================
