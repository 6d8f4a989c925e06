----------------------------- MODULE VersionLog -----------------------------
(***************************************************************************)
(* What the version log of a corpus source promises to the measurements    *)
(* that write to it: each takes effect at one moment of its call, and adds *)
(* its version only when the latest entry holds another one.               *)
(***************************************************************************)
EXTENDS Sequences, Naturals

CONSTANTS Measurements, Version, Pending, Gone

VARIABLES
    entries,  \* the versions of the log, oldest first
    result    \* what a measurement answers: Pending until it takes effect,
              \* Gone when it failed, refused or was killed

logVars == <<entries, result>>

InitLog ==
    /\ entries = <<>>
    /\ result = [m \in Measurements |-> Pending]

IsLatest(v) == Len(entries) > 0 /\ entries[Len(entries)] = v

TakeEffect(m, v) ==
    /\ result[m] = Pending
    /\ entries' = IF IsLatest(v) THEN entries ELSE Append(entries, v)
    /\ result' = [result EXCEPT ![m] = v]

(* A measurement that ends early may have taken effect before.              *)
GiveUp(m) ==
    /\ result' = [result EXCEPT ![m] = Gone]
    /\ UNCHANGED entries

NextLog ==
    \E m \in Measurements :
        \/ \E v \in Version : TakeEffect(m, v)
        \/ GiveUp(m)

LogSpec == InitLog /\ [][NextLog]_logVars
=============================================================================
