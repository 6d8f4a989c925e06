--------------------------- MODULE CorpusEditing ----------------------------
(***************************************************************************)
(* The edit of a corpus file from the browser (client/src/corpus): editors *)
(* that open the file, keep a draft, have it reviewed and apply it, and the*)
(* server's handlers of these requests (launch-corpus-edit-routes.ts,      *)
(* corpus-edit.ts), over the EditGate that Launches implements.            *)
(*                                                                         *)
(* The corpus has one file, so its version, a digest, is the file's text.  *)
(* An apply's request reaches the gate as it is sent; the answer of one    *)
(* that succeeds comes later, and a refusal is known as it happens.  An    *)
(* editor is left only when it has no request in flight.  A second Apply of*)
(* one editor is sent only after the first was answered or while it has the*)
(* gate, which refuses the second.                                         *)
(***************************************************************************)
EXTENDS EditGate, Naturals

CONSTANTS
    Editors,     \* the editors open on the file, each in a tab of its own
    Texts,       \* what the file may hold
    None,        \* no draft, no request, no file
    MaxOutside,  \* how often another program changes the file
    MaxRestarts  \* how often the server is restarted

(* The file as an editor shows it, a review that was sent, one that was     *)
(* answered and an apply.                                                   *)
InGate == {"gated", "clear", "fit", "logged", "current", "written"}
File == [text : Texts, version : Texts]
Asked == [text : Texts, startsFrom : Texts]
Review == [text : Texts, startsFrom : Texts, of : Texts]
Applied == [at : InGate \cup {"ok"}, text : Texts, startsFrom : Texts,
            of : Texts]

ASSUME EditingAssumption ==
    /\ Texts # {}
    /\ None \notin Texts \cup File \cup Asked \cup Review \cup Applied
    /\ MaxOutside \in Nat /\ MaxRestarts \in Nat

VARIABLES
    tree,      \* what the linked directory holds
    logged,    \* the versions that its log holds
    outside,   \* the changes made by another program
    hashed,    \* how many there were at an apply's first and last hash
    opened,    \* the file as an editor shows it, its text and its version
    fetch,     \* the read of the file in flight
    draft,     \* the editor's draft
    reviewed,  \* the last review answered, of is the text the server saw
    review,    \* the review in flight
    apply,     \* the apply in flight
    watching,  \* apply.isPending: the editor waits for its answer
    restarts

corpusVars == <<tree, logged, outside, hashed, restarts>>
readVars == <<opened, fetch>>
editorVars == <<draft, reviewed, review, apply, watching>>
editVars == <<gateVars, corpusVars, readVars, editorVars>>

EditTypeOK ==
    /\ tree \in Texts /\ logged \subseteq Texts
    /\ outside \in 0..MaxOutside
    /\ hashed \in [first : 0..MaxOutside, last : 0..MaxOutside]
    /\ opened \in [Editors -> File \cup {None}]
    /\ fetch \in [Editors -> Texts \cup {"asked", None}]
    /\ draft \in [Editors -> Texts \cup {None}]
    /\ reviewed \in [Editors -> Review \cup {None}]
    /\ review \in [Editors -> Asked \cup {None}]
    /\ apply \in [Editors -> Applied \cup {None}]
    /\ watching \subseteq {e \in Editors : apply[e] # None}
    /\ restarts \in 0..MaxRestarts

InitEditing ==
    /\ InitGate
    /\ tree \in Texts /\ logged = {} /\ outside = 0
    /\ hashed = [first |-> 0, last |-> 0]
    /\ opened = [e \in Editors |-> None]
    /\ fetch = [e \in Editors |-> None]
    /\ draft = [e \in Editors |-> None]
    /\ reviewed = [e \in Editors |-> None]
    /\ review = [e \in Editors |-> None]
    /\ apply = [e \in Editors |-> None]
    /\ watching = {} /\ restarts = 0

(* Another program writes the file.                                         *)
EditOutside(t) ==
    /\ outside < MaxOutside /\ t # tree
    /\ outside' = outside + 1
    /\ tree' = t
    /\ UNCHANGED <<gateVars, logged, hashed, restarts, readVars, editorVars>>

-----------------------------------------------------------------------------
(* The file (corpus-edit-requests.ts, readListedCorpusFile): the layout is  *)
(* hashed, then the bytes are read.  Mounting the editor and a focused      *)
(* window ask for it, and join a read that is in flight.                    *)

askFile(e) ==
    /\ fetch[e] = None
    /\ fetch' = [fetch EXCEPT ![e] = "asked"]
    /\ UNCHANGED <<gateVars, corpusVars, opened, editorVars>>

hashLayout(e) ==
    /\ fetch[e] = "asked"
    /\ fetch' = [fetch EXCEPT ![e] = tree]
    /\ UNCHANGED <<gateVars, corpusVars, opened, editorVars>>

readBytes(e) ==
    /\ fetch[e] \in Texts
    /\ opened' = [opened EXCEPT ![e] = [text |-> tree, version |-> fetch[e]]]
    /\ fetch' = [fetch EXCEPT ![e] = None]
    /\ UNCHANGED <<gateVars, corpusVars, editorVars>>

(* use-corpus-editing.tsx: the file is read again, from the start.          *)
reopen(e) ==
    /\ reviewed' = [reviewed EXCEPT ![e] = None]
    /\ fetch' = [fetch EXCEPT ![e] = "asked"]

-----------------------------------------------------------------------------
(* The editor (use-corpus-editing.tsx, corpus-edit-review.tsx,              *)
(* corpus-edit-surface.tsx).                                                *)

text(e) == IF draft[e] = None THEN opened[e].text ELSE draft[e]

IsOpen(e) == opened[e] # None

(* Typing keeps the draft and stops waiting for an apply, which goes on.    *)
saveDraft(e, t) ==
    /\ IsOpen(e) /\ t # text(e)
    /\ draft' = [draft EXCEPT ![e] = t]
    /\ watching' = watching \ {e}
    /\ UNCHANGED <<gateVars, corpusVars, readVars, reviewed, review, apply>>

discardDraft(e) ==
    /\ IsOpen(e) /\ review[e] = None /\ apply[e] = None
    /\ draft' = [draft EXCEPT ![e] = None]
    /\ opened' = [opened EXCEPT ![e] = None]
    /\ fetch' = [fetch EXCEPT ![e] = None]
    /\ reviewed' = [reviewed EXCEPT ![e] = None]
    /\ UNCHANGED <<gateVars, corpusVars, review, apply, watching>>

(* The review that stands for the text shown.                               *)
current(e) == reviewed[e] # None /\ reviewed[e].text = text(e)

clickReview(e) ==
    /\ IsOpen(e) /\ ~current(e) /\ review[e] = None
    /\ review' = [review EXCEPT ![e] =
          [text |-> text(e), startsFrom |-> opened[e].version]]
    /\ watching' = watching \ {e}
    /\ UNCHANGED <<gateVars, corpusVars, readVars, draft, reviewed, apply>>

(* Mutant: the answer stands for the text shown when it comes.              *)
reviewCorpusEdit_TextNow(e) ==
    /\ review[e] # None
    /\ tree = review[e].startsFrom
    /\ reviewed' = [reviewed EXCEPT ![e] =
          [text |-> text(e), startsFrom |-> review[e].startsFrom,
           of |-> review[e].text]]
    /\ review' = [review EXCEPT ![e] = None]
    /\ UNCHANGED <<gateVars, corpusVars, readVars, draft, apply, watching>>

(* The server passes an edit that starts from what the directory holds; the *)
(* answer stands for the text that was sent, in the callback's closure.     *)
reviewCorpusEdit(e) ==
    /\ review[e] # None
    /\ tree = review[e].startsFrom
    /\ reviewed' = [reviewed EXCEPT ![e] =
          [text |-> review[e].text, startsFrom |-> review[e].startsFrom,
           of |-> review[e].text]]
    /\ review' = [review EXCEPT ![e] = None]
    /\ UNCHANGED <<gateVars, corpusVars, readVars, draft, apply, watching>>

(* The directory changed, the tree does not measure or the request fails.   *)
reviewRefused(e) ==
    /\ review[e] # None
    /\ reopen(e)
    /\ review' = [review EXCEPT ![e] = None]
    /\ UNCHANGED <<gateVars, corpusVars, opened, draft, apply, watching>>

-----------------------------------------------------------------------------
(* The apply (corpus-edit.ts).                                              *)

At(e, at) == apply[e] # None /\ apply[e].at = at
Go(e, at) == apply' = [apply EXCEPT ![e].at = at]

CanApply(e) == IsOpen(e) /\ current(e) /\ e \notin watching

clickApply(e) ==
    /\ CanApply(e) /\ apply[e] = None
    /\ beginApplying
    /\ apply' = [apply EXCEPT ![e] =
          [at |-> "gated", text |-> text(e), of |-> reviewed[e].of,
           startsFrom |-> reviewed[e].startsFrom]]
    /\ watching' = watching \cup {e}
    /\ UNCHANGED <<corpusVars, readVars, draft, reviewed, review>>

(* The gate is held: by a start, by another editor's apply, or by an apply  *)
(* of this editor whose draft was changed and changed back since.           *)
applyBusy(e) ==
    /\ CanApply(e) /\ ~At(e, "ok")
    /\ applying # "no" \/ launching
    /\ reopen(e)
    /\ UNCHANGED <<gateVars, corpusVars, opened, draft, review, apply,
                   watching>>

(* Mutant: a live launch does not refuse the edit.                          *)
refuseEditUnderLiveLaunch_No(e) ==
    /\ At(e, "gated")
    /\ applying' = "clear" /\ UNCHANGED <<launching, alive>>
    /\ Go(e, "clear")
    /\ UNCHANGED <<corpusVars, readVars, draft, reviewed, review, watching>>

(* A launch whose record does not read refuses nothing.                     *)
refuseEditUnderLiveLaunch(e) ==
    /\ At(e, "gated")
    /\ passLiveLaunches \/ passUnreadLaunches
    /\ Go(e, "clear")
    /\ UNCHANGED <<corpusVars, readVars, draft, reviewed, review, watching>>

(* editedLayout, refuseUnappliable.                                         *)
refuseUnappliable(e) ==
    /\ At(e, "clear")
    /\ tree = apply[e].startsFrom /\ tree # apply[e].text
    /\ hashed' = [hashed EXCEPT !.first = outside]
    /\ Go(e, "fit")
    /\ UNCHANGED <<gateVars, tree, logged, outside, restarts, readVars, draft,
                   reviewed, review, watching>>

recordStartingCorpusVersion(e) ==
    /\ At(e, "fit")
    /\ logged' = logged \cup {tree}
    /\ Go(e, "logged")
    /\ UNCHANGED <<gateVars, tree, outside, hashed, restarts, readVars, draft,
                   reviewed, review, watching>>

(* Mutant: the tree is not hashed again before the write.                   *)
assertReviewedCorpusStillCurrent_No(e) ==
    /\ At(e, "logged")
    /\ hashed' = [hashed EXCEPT !.last = outside]
    /\ Go(e, "current")
    /\ UNCHANGED <<gateVars, tree, outside, logged, restarts, readVars, draft,
                   reviewed, review, watching>>

assertReviewedCorpusStillCurrent(e) ==
    /\ At(e, "logged")
    /\ tree = apply[e].startsFrom
    /\ hashed' = [hashed EXCEPT !.last = outside]
    /\ Go(e, "current")
    /\ UNCHANGED <<gateVars, tree, outside, logged, restarts, readVars, draft,
                   reviewed, review, watching>>

replaceFile(e) ==
    /\ At(e, "current")
    /\ tree' = apply[e].text
    /\ Go(e, "written")
    /\ UNCHANGED <<gateVars, logged, outside, hashed, restarts, readVars,
                   draft, reviewed, review, watching>>

recordAppliedCorpusVersion(e) ==
    /\ At(e, "written")
    /\ logged' = logged \cup {tree}
    /\ endApplying
    /\ Go(e, "ok")
    /\ UNCHANGED <<tree, outside, hashed, restarts, readVars, draft, reviewed,
                   review, watching>>

(* Mutant: a refused edit keeps the gate.                                   *)
applyFails_Keeps(e) ==
    /\ apply[e] # None /\ apply[e].at \in InGate
    /\ apply' = [apply EXCEPT ![e] = None]
    /\ watching' = watching \ {e}
    /\ reopen(e)
    /\ UNCHANGED <<gateVars, corpusVars, opened, draft, review>>

(* Mutant: a refused edit leaves its editor waiting.                        *)
applyFails_Waits(e) ==
    /\ apply[e] # None /\ apply[e].at \in InGate
    /\ endApplying
    /\ apply' = [apply EXCEPT ![e] = None]
    /\ reopen(e)
    /\ UNCHANGED <<corpusVars, opened, draft, review, watching>>

(* A check refuses, or a file operation or a measurement fails.             *)
applyFails(e) ==
    /\ apply[e] # None /\ apply[e].at \in InGate
    /\ endApplying
    /\ apply' = [apply EXCEPT ![e] = None]
    /\ watching' = watching \ {e}
    /\ reopen(e)
    /\ UNCHANGED <<corpusVars, opened, draft, review>>

(* onSuccess: the draft goes and the editor gives way to the applied edit.  *)
applied(e) ==
    /\ At(e, "ok")
    /\ apply' = [apply EXCEPT ![e] = None]
    /\ draft' = [draft EXCEPT ![e] = None]
    /\ opened' = [opened EXCEPT ![e] = None]
    /\ fetch' = [fetch EXCEPT ![e] = None]
    /\ reviewed' = [reviewed EXCEPT ![e] = None]
    /\ review' = [review EXCEPT ![e] = None]
    /\ watching' = watching \ {e}
    /\ UNCHANGED <<gateVars, corpusVars>>

(* The server restarts: its requests fail, and reads are asked again.       *)
RestartServer ==
    /\ restarts < MaxRestarts /\ restarts' = restarts + 1
    /\ restart
    /\ LET failed == {e \in Editors :
              \/ review[e] # None
              \/ apply[e] # None /\ apply[e].at \in InGate}
       IN  /\ fetch' = [e \in Editors |->
                 IF e \in failed \/ fetch[e] # None THEN "asked" ELSE None]
           /\ reviewed' = [e \in Editors |->
                 IF e \in failed THEN None ELSE reviewed[e]]
    /\ review' = [e \in Editors |-> None]
    /\ apply' = [e \in Editors |-> IF At(e, "ok") THEN apply[e] ELSE None]
    /\ watching' = {e \in watching : At(e, "ok")}
    /\ UNCHANGED <<tree, logged, outside, hashed, opened, draft>>

-----------------------------------------------------------------------------
Apply(e) ==
    \/ refuseEditUnderLiveLaunch(e) \/ refuseUnappliable(e)
    \/ recordStartingCorpusVersion(e) \/ assertReviewedCorpusStillCurrent(e)
    \/ replaceFile(e) \/ recordAppliedCorpusVersion(e) \/ applyFails(e)

Editor(e) ==
    \/ askFile(e) \/ hashLayout(e) \/ readBytes(e)
    \/ \E t \in Texts : saveDraft(e, t)
    \/ discardDraft(e)
    \/ clickReview(e) \/ reviewCorpusEdit(e) \/ reviewRefused(e)
    \/ clickApply(e) \/ applyBusy(e) \/ applied(e)

Launching ==
    /\ beginStart \/ endStart \/ launchEnds
    /\ UNCHANGED <<corpusVars, readVars, editorVars>>

NextEdit ==
    \/ Launching \/ RestartServer
    \/ \E t \in Texts : EditOutside(t)
    \/ \E e \in Editors : Editor(e) \/ Apply(e)

EditSpec == InitEditing /\ [][NextEdit]_editVars

(* The server serves what it was asked; nobody is obliged to ask.           *)
FairEditSpec ==
    /\ EditSpec
    /\ \A e \in Editors : WF_editVars(Apply(e))

-----------------------------------------------------------------------------
(* docs/reference.md: the apply refuses "when a launch the server started is*)
(* live, and while a launch start or another apply is under way".  An apply *)
(* holds the gate until it answers, and past its check, up to the write, no *)
(* launch starts, and none runs but one whose record did not read at the    *)
(* check (applyCorpusEditHandler).                                          *)
WrittenUnderGate ==
    \A e \in Editors :
        apply[e] # None /\ apply[e].at \in InGate =>
            IF apply[e].at = "gated"
              THEN applying = "asked"
              ELSE /\ applying \in {"clear", "blind"} /\ ~launching
                   /\ applying = "clear" => ~alive

(* client/src/corpus/use-corpus-editing.tsx: "the edit waits for a new      *)
(* review".  What is written into the file is the text the server reviewed, *)
(* though the draft may change while the review or the apply is in flight.  *)
AppliedIsReviewed ==
    \A e \in Editors : apply[e] # None => apply[e].text = apply[e].of

(* client/src/corpus/corpus-edit-review.tsx: an apply "keeps the old one    *)
(* addressable".  The text an apply replaces is in the version log, also    *)
(* after edits by others and a server that died between a write and its     *)
(* measurement (applyCorpusEdit).  It need not be when another program      *)
(* wrote after the apply's last hash, or wrote and wrote back between its   *)
(* first and its last, so that another text was logged.                     *)
OldVersionKept ==
    [][\A e \in Editors : At(e, "current") /\ At(e, "written")'
          => \/ tree \in logged
             \/ outside > hashed.last
             \/ hashed.last > hashed.first + 1]_editVars

(* client/src/corpus/corpus-edit-surface.tsx: "Unapplied drafts stay in     *)
(* this app session while you navigate. Discard removes this draft".  The   *)
(* answer of an apply removes no other text than the one it applied.        *)
DraftKept ==
    [][\A e \in Editors :
          At(e, "ok") /\ draft'[e] # draft[e] /\ apply'[e] = None
          => draft[e] = apply[e].text]_editVars

(* Every apply gives the gate back, so that no launch and no other edit is  *)
(* refused for ever (the finally clause of CorpusEditGate.applying).        *)
GateIsReleased == applying # "no" ~> applying = "no"
=============================================================================
