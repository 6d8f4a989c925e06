---------------------------- MODULE MCPipelineRun ---------------------------
(***************************************************************************)
(* A whole run.  No bound but the number of stages is needed: the main     *)
(* flow awaits each call before the next and every loop of it moves to a   *)
(* later stage.                                                            *)
(***************************************************************************)
EXTENDS PipelineRun
=============================================================================
