-------------------------- MODULE MCCorpusEditing ---------------------------
(***************************************************************************)
(* Instances of CorpusEditing.                                             *)
(***************************************************************************)
EXTENDS CorpusEditing
=============================================================================
