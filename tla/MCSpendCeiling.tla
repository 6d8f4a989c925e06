--------------------------- MODULE MCSpendCeiling ---------------------------
(***************************************************************************)
(* A rep's first call is granted all it asks, and a ceiling of two clamps  *)
(* the calls after it.  With three reps, one may overrun while the other   *)
(* two are granted the same dollars of the group.                          *)
(***************************************************************************)
EXTENDS SpendCeiling, FiniteSetsExt, TLC

RepSymmetry == Permutations(Reps)

ChargedToReps == MapThenSumSet(LAMBDA r : spent[r], Reps)

(* docs/reference.md: one rep's overrun counts against the others, and once *)
(* the group total is reached no rep starts another session.                *)
NoStartPastGroup ==
    [][ChargedToReps >= groupSpendCeilingUsd =>
         \A r \in Reps : ~(invoke(r) \/ ask(r) \/ invokeJudge(r))]_spendVars
=============================================================================
