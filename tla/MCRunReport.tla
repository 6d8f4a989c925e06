----------------------------- MODULE MCRunReport ----------------------------
(***************************************************************************)
(* A whole run beside the readers of its records and the server's pass.    *)
(* Two stages are the fewest with a boundary at which a run may pause, an  *)
(* accepted stage that a later stop could rewrite and a stop that could    *)
(* name the wrong one.                                                     *)
(***************************************************************************)
EXTENDS RunReport
=============================================================================
