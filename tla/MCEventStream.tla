---------------------------- MODULE MCEventStream ----------------------------
(***************************************************************************)
(* Small queue, backlog and repair limits, so that each is reached.         *)
(***************************************************************************)
EXTENDS EventStream
=============================================================================
