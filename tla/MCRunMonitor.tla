---------------------------- MODULE MCRunMonitor ----------------------------
(***************************************************************************)
(* A run that moves to another step and ends.  Two faults are what it      *)
(* takes to give a fetch up after its retry.                               *)
(***************************************************************************)
EXTENDS RunMonitor
=============================================================================
