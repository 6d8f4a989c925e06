--------------------------- MODULE MCCorpusStore ----------------------------
(***************************************************************************)
(* Instances of CorpusStore.                                               *)
(***************************************************************************)
EXTENDS CorpusStore
=============================================================================
