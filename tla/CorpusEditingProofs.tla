------------------------- MODULE CorpusEditingProofs ------------------------
(***************************************************************************)
(* Proofs about CorpusEditing, for any number of editors, texts, changes   *)
(* by other programs and restarts: an apply writes the text that was       *)
(* reviewed, under the gate, over a version that is logged.                *)
(***************************************************************************)
EXTENDS CorpusEditing, TLAPS

Held(e) == apply[e] # None /\ apply[e].at \in InGate

(* One apply at a time has the gate, and while it has no launch starts.     *)
GateInv ==
    /\ WrittenUnderGate
    /\ \A e, f \in Editors : Held(e) /\ Held(f) => e = f
    /\ applying # "no" => ~launching

(* An answered review stands for the text the server saw.                   *)
ReviewInv ==
    /\ \A e \in Editors :
          reviewed[e] # None => reviewed[e].text = reviewed[e].of
    /\ AppliedIsReviewed

(* What an apply knows of the directory from its hashes: it holds the       *)
(* starting version until another program writes, and not after one write.  *)
Unchanged(e) ==
    /\ hashed.first <= outside
    /\ outside = hashed.first => tree = apply[e].startsFrom
    /\ outside = hashed.first + 1 => tree # apply[e].startsFrom

HashInv ==
    \A e \in Editors :
        /\ At(e, "fit") => Unchanged(e)
        /\ At(e, "logged") =>
              /\ Unchanged(e)
              /\ outside = hashed.first => apply[e].startsFrom \in logged
        /\ At(e, "current") =>
              /\ hashed.last <= outside
              /\ outside = hashed.last => tree = apply[e].startsFrom
              /\ \/ apply[e].startsFrom \in logged
                 \/ hashed.last > hashed.first + 1

EditInv == EditTypeOK /\ GateInv /\ ReviewInv /\ HashInv

LEMMA EditInit == InitEditing => EditInv
<1> SUFFICES ASSUME InitEditing PROVE EditInv
  OBVIOUS
<1> USE EditingAssumption DEF InitEditing
<1>1. EditTypeOK
  BY DEF EditTypeOK
<1>2. GateInv /\ ReviewInv
  BY DEF GateInv, ReviewInv, WrittenUnderGate, AppliedIsReviewed, Held,
     InitGate
<1>3. HashInv
  BY DEF HashInv, At
<1>4. QED
  BY <1>1, <1>2, <1>3 DEF EditInv

LEMMA EditSteps ==
    ASSUME [NextEdit]_editVars
    PROVE  \/ Launching \/ RestartServer
           \/ \E t \in Texts : EditOutside(t)
           \/ \E e \in Editors : Editor(e)
           \/ \E e \in Editors : Apply(e)
           \/ UNCHANGED editVars
  BY DEF NextEdit

(* What an open editor shows is a text.                                     *)
LEMMA ShownText ==
    ASSUME EditTypeOK, NEW e \in Editors, IsOpen(e)
    PROVE  text(e) \in Texts /\ opened[e] \in File
  BY DEF EditTypeOK, IsOpen, text, File

-----------------------------------------------------------------------------
(* Type correctness.                                                        *)
LEMMA EditTypeStep ==
    ASSUME EditTypeOK, [NextEdit]_editVars
    PROVE  EditTypeOK'
<1> USE EditingAssumption DEF EditTypeOK, File, Asked, Review, Applied,
        InGate, corpusVars, readVars, editorVars
<1>1. CASE Launching
  BY <1>1 DEF Launching
<1>2. CASE RestartServer
  BY <1>2 DEF RestartServer, At
<1>3. ASSUME NEW t \in Texts, EditOutside(t) PROVE EditTypeOK'
  BY <1>3 DEF EditOutside
<1>4. ASSUME NEW e \in Editors, Editor(e) PROVE EditTypeOK'
  <2>1. CASE askFile(e) \/ hashLayout(e) \/ readBytes(e)
    BY <2>1 DEF askFile, hashLayout, readBytes
  <2>2. ASSUME NEW t \in Texts, saveDraft(e, t) PROVE EditTypeOK'
    BY <2>2 DEF saveDraft
  <2>3. CASE discardDraft(e) \/ applied(e)
    BY <2>3 DEF discardDraft, applied
  <2>4. CASE clickReview(e)
    BY <2>4, ShownText DEF clickReview
  <2>5. CASE reviewCorpusEdit(e) \/ reviewRefused(e) \/ applyBusy(e)
    BY <2>5 DEF reviewCorpusEdit, reviewRefused, applyBusy, reopen
  <2>6. CASE clickApply(e)
    <3>1. text(e) \in Texts /\ reviewed[e] \in Review
      BY <2>6, ShownText DEF clickApply, CanApply, current
    <3>2. QED
      BY <2>6, <3>1 DEF clickApply
  <2>7. QED
    BY <1>4, <2>1, <2>2, <2>3, <2>4, <2>5, <2>6 DEF Editor
<1>5. ASSUME NEW e \in Editors, Apply(e) PROVE EditTypeOK'
  <2>1. CASE refuseEditUnderLiveLaunch(e)
    BY <2>1 DEF refuseEditUnderLiveLaunch, At, Go
  <2>2. CASE refuseUnappliable(e)
    BY <2>2 DEF refuseUnappliable, At, Go
  <2>3. CASE recordStartingCorpusVersion(e)
    BY <2>3 DEF recordStartingCorpusVersion, At, Go
  <2>4. CASE assertReviewedCorpusStillCurrent(e)
    BY <2>4 DEF assertReviewedCorpusStillCurrent, At, Go
  <2>5. CASE replaceFile(e)
    BY <2>5 DEF replaceFile, At, Go
  <2>6. CASE recordAppliedCorpusVersion(e)
    BY <2>6 DEF recordAppliedCorpusVersion, At, Go
  <2>7. CASE applyFails(e)
    BY <2>7 DEF applyFails, reopen
  <2>8. QED
    BY <1>5, <2>1, <2>2, <2>3, <2>4, <2>5, <2>6, <2>7 DEF Apply
<1>6. CASE UNCHANGED editVars
  BY <1>6 DEF editVars
<1>7. QED
  BY <1>1, <1>2, <1>3, <1>4, <1>5, <1>6, EditSteps

-----------------------------------------------------------------------------
(* The gate.                                                                *)

(* A step that leaves the gate and every apply alone keeps GateInv.         *)
LEMMA GateKept ==
    ASSUME GateInv, UNCHANGED <<gateVars, apply>>
    PROVE  GateInv'
  BY DEF GateInv, WrittenUnderGate, Held, gateVars

LEMMA GateStep ==
    ASSUME EditTypeOK, GateInv, [NextEdit]_editVars
    PROVE  GateInv'
<1> USE EditingAssumption DEF EditTypeOK, Applied, InGate
<1>1. CASE Launching
  <2>1. apply' = apply /\ applying' = applying
    BY <1>1 DEF Launching, beginStart, endStart, launchEnds, editorVars
  <2>2. applying # "no" => ~launching' /\ (~alive => ~alive')
    BY <1>1 DEF Launching, beginStart, endStart, launchEnds, GateInv
  <2>3. QED
    BY <2>1, <2>2 DEF GateInv, WrittenUnderGate, Held
<1>2. CASE RestartServer
  BY <1>2 DEF RestartServer, restart, At, GateInv, WrittenUnderGate, Held
<1>3. ASSUME NEW t \in Texts, EditOutside(t) PROVE GateInv'
  BY <1>3, GateKept DEF EditOutside, editorVars
<1>4. ASSUME NEW e \in Editors, Editor(e) PROVE GateInv'
  <2>1. CASE clickApply(e)
    <3>1. apply[e] = None /\ beginApplying
          /\ apply' = [apply EXCEPT ![e] =
                [at |-> "gated", text |-> text(e), of |-> reviewed[e].of,
                 startsFrom |-> reviewed[e].startsFrom]]
      BY <2>1 DEF clickApply
    <3>2. \A f \in Editors : ~Held(f)
      BY <3>1 DEF beginApplying, GateInv, WrittenUnderGate, Held
    <3>3. QED
      BY <3>1, <3>2 DEF beginApplying, GateInv, WrittenUnderGate, Held
  <2>2. CASE applied(e)
    BY <2>2 DEF applied, At, GateInv, WrittenUnderGate, Held, gateVars
  <2>3. CASE UNCHANGED <<gateVars, apply>>
    BY <2>3, GateKept
  <2>4. QED
    BY <1>4, <2>1, <2>2, <2>3 DEF Editor, askFile, hashLayout, readBytes,
       saveDraft, discardDraft, clickReview, reviewCorpusEdit,
       reviewRefused, applyBusy, editorVars
<1>5. ASSUME NEW e \in Editors, Apply(e) PROVE GateInv'
  <2>1. CASE refuseEditUnderLiveLaunch(e)
    BY <2>1 DEF refuseEditUnderLiveLaunch, passLiveLaunches,
       passUnreadLaunches, At, Go, GateInv, WrittenUnderGate, Held
  <2>2. CASE recordAppliedCorpusVersion(e)
    BY <2>2 DEF recordAppliedCorpusVersion, endApplying, At, Go,
       GateInv, WrittenUnderGate, Held
  <2>3. CASE applyFails(e)
    BY <2>3 DEF applyFails, endApplying, GateInv, WrittenUnderGate, Held
  <2>4. ASSUME NEW from \in InGate \ {"gated"}, NEW to \in InGate \ {"gated"},
               At(e, from), Go(e, to), UNCHANGED gateVars
        PROVE  GateInv'
    BY <2>4 DEF At, Go, GateInv, WrittenUnderGate, Held, gateVars
  <2>5. QED
    BY <1>5, <2>1, <2>2, <2>3, <2>4 DEF Apply, refuseUnappliable,
       recordStartingCorpusVersion, assertReviewedCorpusStillCurrent,
       replaceFile
<1>6. QED
  BY <1>1, <1>2, <1>3, <1>4, <1>5, EditSteps, GateKept
     DEF editVars, editorVars

-----------------------------------------------------------------------------
(* The reviewed text.                                                       *)
LEMMA ReviewStep ==
    ASSUME EditTypeOK, ReviewInv, [NextEdit]_editVars
    PROVE  ReviewInv'
<1> USE EditingAssumption DEF EditTypeOK, Applied, ReviewInv,
        AppliedIsReviewed
<1>1. CASE RestartServer
  BY <1>1 DEF RestartServer
<1>2. ASSUME NEW e \in Editors, Editor(e) PROVE ReviewInv'
  <2>1. CASE clickApply(e)
    BY <2>1 DEF clickApply, CanApply, current
  <2>2. CASE reviewCorpusEdit(e)
    BY <2>2 DEF reviewCorpusEdit
  <2>3. CASE reviewRefused(e) \/ applyBusy(e) \/ discardDraft(e) \/ applied(e)
    BY <2>3 DEF reviewRefused, applyBusy, reopen, discardDraft, applied
  <2>4. QED
    BY <1>2, <2>1, <2>2, <2>3 DEF Editor, askFile, hashLayout, readBytes,
       saveDraft, clickReview, editorVars
<1>3. ASSUME NEW e \in Editors, Apply(e) PROVE ReviewInv'
  <2>1. CASE applyFails(e)
    BY <2>1 DEF applyFails, reopen
  <2>2. ASSUME NEW at \in InGate \cup {"ok"}, apply[e] # None, Go(e, at),
               UNCHANGED reviewed
        PROVE  ReviewInv'
    BY <2>2 DEF Go
  <2>3. QED
    BY <1>3, <2>1, <2>2 DEF Apply, refuseEditUnderLiveLaunch,
       refuseUnappliable, recordStartingCorpusVersion,
       assertReviewedCorpusStillCurrent, replaceFile,
       recordAppliedCorpusVersion, At, InGate
<1>4. QED
  BY <1>1, <1>2, <1>3, EditSteps DEF Launching, EditOutside, editVars,
     editorVars

-----------------------------------------------------------------------------
(* The hashes of an apply.                                                  *)

(* A step that leaves the corpus alone and moves no apply within its        *)
(* hashes keeps HashInv.                                                    *)
LEMMA HashKept ==
    ASSUME HashInv, UNCHANGED <<tree, logged, outside, hashed>>,
           \A f \in Editors : \A at \in {"fit", "logged", "current"} :
              At(f, at)' => At(f, at) /\ apply'[f] = apply[f]
    PROVE  HashInv'
  BY DEF HashInv, Unchanged

LEMMA HashStep ==
    ASSUME EditTypeOK, GateInv, HashInv, [NextEdit]_editVars
    PROVE  HashInv'
<1> USE EditingAssumption DEF EditTypeOK, Applied, InGate
<1>1. CASE RestartServer
  <2>1. \A f \in Editors : \A at \in {"fit", "logged", "current"} :
            ~At(f, at)'
    BY <1>1 DEF RestartServer, At
  <2>2. QED
    BY <2>1 DEF HashInv
<1>2. ASSUME NEW t \in Texts, EditOutside(t) PROVE HashInv'
  <2>1. apply' = apply /\ logged' = logged /\ hashed' = hashed
        /\ outside' = outside + 1 /\ tree' # tree
    BY <1>2 DEF EditOutside, editorVars
  <2>2. outside \in Nat /\ hashed.first \in Nat /\ hashed.last \in Nat
    OBVIOUS
  <2>3. \A f \in Editors : Unchanged(f) => Unchanged(f)'
    BY <2>1, <2>2 DEF Unchanged
  <2>4. QED
    BY <2>1, <2>2, <2>3 DEF HashInv, Unchanged, At
<1>3. ASSUME NEW e \in Editors, Editor(e) PROVE HashInv'
  <2>1. UNCHANGED <<tree, logged, outside, hashed>>
    BY <1>3 DEF Editor, askFile, hashLayout, readBytes, saveDraft,
       discardDraft, clickReview, reviewCorpusEdit, reviewRefused,
       clickApply, applyBusy, applied, corpusVars
  <2>2. \A f \in Editors : \A at \in {"fit", "logged", "current"} :
            At(f, at)' => At(f, at) /\ apply'[f] = apply[f]
    <3>1. CASE clickApply(e)
      BY <3>1 DEF clickApply, At
    <3>2. CASE applied(e)
      BY <3>2 DEF applied, At
    <3>3. CASE apply' = apply
      BY <3>3 DEF At
    <3>4. QED
      BY <1>3, <3>1, <3>2, <3>3 DEF Editor, askFile, hashLayout, readBytes,
         saveDraft, discardDraft, clickReview, reviewCorpusEdit,
         reviewRefused, applyBusy, editorVars
  <2>3. QED
    BY <2>1, <2>2, HashKept
<1>4. ASSUME NEW e \in Editors, Apply(e) PROVE HashInv'
  <2>0. \A f \in Editors \ {e} : \A at \in {"fit", "logged", "current"} :
            ~At(f, at)
    BY <1>4 DEF Apply, refuseEditUnderLiveLaunch, refuseUnappliable,
       recordStartingCorpusVersion, assertReviewedCorpusStillCurrent,
       replaceFile, recordAppliedCorpusVersion, applyFails, At, GateInv, Held
  <2>1. CASE refuseUnappliable(e)
    BY <2>0, <2>1 DEF refuseUnappliable, At, Go, HashInv, Unchanged
  <2>2. CASE recordStartingCorpusVersion(e)
    BY <2>0, <2>2 DEF recordStartingCorpusVersion, At, Go, HashInv,
       Unchanged
  <2>3. CASE assertReviewedCorpusStillCurrent(e)
    <3>1. outside \in Nat /\ hashed.first \in Nat
      OBVIOUS
    <3>2. apply[e].startsFrom \in logged \/ outside > hashed.first + 1
      <4>1. At(e, "logged") /\ tree = apply[e].startsFrom
        BY <2>3 DEF assertReviewedCorpusStillCurrent
      <4>2. CASE outside = hashed.first
        BY <4>1, <4>2 DEF HashInv
      <4>3. CASE outside # hashed.first
        BY <3>1, <4>1, <4>3 DEF HashInv, Unchanged
      <4>4. QED
        BY <4>2, <4>3
    <3>3. hashed'.last = outside /\ hashed'.first = hashed.first
          /\ tree = apply[e].startsFrom
          /\ UNCHANGED <<tree, logged, outside>>
      BY <2>3 DEF assertReviewedCorpusStillCurrent
    <3>4. apply'[e].startsFrom = apply[e].startsFrom
          /\ \A f \in Editors : \A at \in {"fit", "logged", "current"} :
                At(f, at)' => f = e /\ at = "current"
      BY <2>0, <2>3 DEF assertReviewedCorpusStillCurrent, At, Go
    <3>5. QED
      BY <3>1, <3>2, <3>3, <3>4 DEF HashInv
  <2>4. ASSUME \A at \in {"fit", "logged", "current"} : ~At(e, at)',
               \A f \in Editors \ {e} : apply'[f] = apply[f]
        PROVE  HashInv'
    BY <2>0, <2>4 DEF At, HashInv
  <2>5. CASE refuseEditUnderLiveLaunch(e) \/ replaceFile(e)
               \/ recordAppliedCorpusVersion(e)
    BY <2>4, <2>5 DEF refuseEditUnderLiveLaunch, replaceFile,
       recordAppliedCorpusVersion, At, Go
  <2>6. CASE applyFails(e)
    BY <2>4, <2>6 DEF applyFails, At
  <2>7. QED
    BY <1>4, <2>1, <2>2, <2>3, <2>5, <2>6 DEF Apply
<1>5. CASE UNCHANGED <<corpusVars, apply>>
  BY <1>5, HashKept DEF corpusVars, At
<1>6. QED
  BY <1>1, <1>2, <1>3, <1>4, <1>5, EditSteps DEF Launching, editVars,
     editorVars

LEMMA EditInvariant == EditSpec => []EditInv
<1>1. EditInv /\ [NextEdit]_editVars => EditInv'
  BY EditTypeStep, GateStep, ReviewStep, HashStep DEF EditInv
<1>2. QED
  BY <1>1, EditInit, PTL DEF EditSpec

-----------------------------------------------------------------------------
(* The state of the editors and of the server's edits is well formed.       *)
THEOREM EditType == EditSpec => []EditTypeOK
<1>1. EditInv => EditTypeOK
  BY DEF EditInv
<1>2. QED
  BY <1>1, EditInvariant, PTL

(* An apply holds the gate until it answers, and past its check no launch   *)
(* starts, and none runs but one whose record did not read at the check,    *)
(* however editors, launches and restarts interleave                        *)
(* (applyCorpusEditHandler, CorpusEditGate.applying).                       *)
THEOREM AppliesUnderGate == EditSpec => []WrittenUnderGate
<1>1. EditInv => WrittenUnderGate
  BY DEF EditInv, GateInv
<1>2. QED
  BY <1>1, EditInvariant, PTL

(* What an apply writes is the text the server reviewed, though the draft   *)
(* changes while either request is in flight (useCorpusEditing).            *)
THEOREM WritesReviewed == EditSpec => []AppliedIsReviewed
<1>1. EditInv => AppliedIsReviewed
  BY DEF EditInv, ReviewInv
<1>2. QED
  BY <1>1, EditInvariant, PTL

(* The text an apply replaces is in the version log, unless another program *)
(* wrote after the last hash or there and back before it (applyCorpusEdit). *)
THEOREM ReplacesLogged == EditSpec => OldVersionKept
<1>1. ASSUME EditInv, [NextEdit]_editVars, NEW e \in Editors,
             At(e, "current"), At(e, "written")'
      PROVE  \/ tree \in logged
             \/ outside > hashed.last
             \/ hashed.last > hashed.first + 1
  BY <1>1 DEF EditInv, HashInv, EditTypeOK
<1>2. EditInv /\ [NextEdit]_editVars =>
        [\A e \in Editors : At(e, "current") /\ At(e, "written")'
          => \/ tree \in logged
             \/ outside > hashed.last
             \/ hashed.last > hashed.first + 1]_editVars
  BY <1>1
<1>3. QED
  BY <1>2, EditInvariant, PTL DEF EditSpec, OldVersionKept

-----------------------------------------------------------------------------
(* The edits and the launches beside them use the gate by its operations    *)
(* only, so what Launches is shown to implement is what the edits rely on   *)
(* (corpus-edit-gate.ts).                                                   *)
THEOREM EditsUseGate == EditSpec => GateSpec
<1>1. InitEditing => InitGate
  BY DEF InitEditing
<1>2. [NextEdit]_editVars => [NextGate]_gateVars
  BY EditSteps DEF Launching, RestartServer, EditOutside, Editor, askFile,
     hashLayout, readBytes, saveDraft, discardDraft, clickReview,
     reviewCorpusEdit, reviewRefused, clickApply, applyBusy, applied, Apply,
     refuseEditUnderLiveLaunch, refuseUnappliable,
     recordStartingCorpusVersion, assertReviewedCorpusStillCurrent,
     replaceFile, recordAppliedCorpusVersion, applyFails, NextGate, editVars
<1>3. QED
  BY <1>1, <1>2, PTL DEF EditSpec, GateSpec
=============================================================================
