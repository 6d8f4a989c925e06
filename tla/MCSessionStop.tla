--------------------------- MODULE MCSessionStop ----------------------------
(***************************************************************************)
(* SessionStop with a group of two reps; the command without               *)
(* confirmation is among the initial states.                               *)
(***************************************************************************)
EXTENDS SessionStop
=============================================================================
