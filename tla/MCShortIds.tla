----------------------------- MODULE MCShortIds -----------------------------
(***************************************************************************)
(* Instances of ShortIds.                                                  *)
(***************************************************************************)
EXTENDS ShortIds
=============================================================================
