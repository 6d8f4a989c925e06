------------------------------ MODULE EditGate ------------------------------
(***************************************************************************)
(* What the gate between corpus edits and launch starts promises to both   *)
(* sides (corpus-edit-gate.ts): while an edit is past its check, no launch *)
(* is starting, and none runs that the check could read.  Launches         *)
(* implements it; the edits of CorpusEditing rely on it.                   *)
(***************************************************************************)

VARIABLES
    applying,   \* "no", "asked": an edit has the gate, "clear": it may write,
                \* "blind": so it may, under a launch whose record is unread
    launching,  \* some launch is starting
    alive       \* some launch that has started is running

gateVars == <<applying, launching, alive>>

GateTypeOK ==
    /\ applying \in {"no", "asked", "clear", "blind"}
    /\ launching \in BOOLEAN /\ alive \in BOOLEAN

InitGate == applying = "no" /\ launching = FALSE /\ alive = FALSE

beginStart ==
    /\ applying = "no"
    /\ launching' = TRUE
    /\ UNCHANGED <<applying, alive>>

(* A start ends, with a running launch or without; others may be under way. *)
endStart ==
    /\ launching
    /\ launching' \in BOOLEAN
    /\ alive' \in {alive, TRUE}
    /\ UNCHANGED applying

launchEnds ==
    /\ alive /\ alive' = FALSE
    /\ UNCHANGED <<applying, launching>>

beginApplying ==
    /\ applying = "no" /\ ~launching
    /\ applying' = "asked"
    /\ UNCHANGED <<launching, alive>>

passLiveLaunches ==
    /\ applying = "asked" /\ ~alive
    /\ applying' = "clear"
    /\ UNCHANGED <<launching, alive>>

(* The records of the launches that run do not read.                        *)
passUnreadLaunches ==
    /\ applying = "asked" /\ alive
    /\ applying' = "blind"
    /\ UNCHANGED <<launching, alive>>

endApplying ==
    /\ applying # "no"
    /\ applying' = "no"
    /\ UNCHANGED <<launching, alive>>

(* The server dies: its requests are gone, what it launched runs on.        *)
restart ==
    /\ applying' = "no" /\ launching' = FALSE
    /\ UNCHANGED alive

NextGate ==
    \/ beginStart \/ endStart \/ launchEnds
    \/ beginApplying \/ passLiveLaunches \/ passUnreadLaunches
    \/ endApplying \/ restart

GateSpec == InitGate /\ [][NextGate]_gateVars

(* The promise: no edit is written while a launch starts, nor while one     *)
(* runs whose record reads.                                                 *)
NoEditUnderLaunch ==
    /\ applying \in {"clear", "blind"} => ~launching
    /\ applying = "clear" => ~alive
=============================================================================
