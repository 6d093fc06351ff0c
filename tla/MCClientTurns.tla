---------------------------- MODULE MCClientTurns ----------------------------
(***************************************************************************)
(* ClientTurns for TLC.  The run also evaluates the assumptions of         *)
(* PromptQueueLoops.                                                       *)
(***************************************************************************)
EXTENDS ClientTurns, PromptQueueLoops
=============================================================================
