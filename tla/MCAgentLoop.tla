---------------------------- MODULE MCAgentLoop ----------------------------
(***************************************************************************)
(* AgentLoop with short conversations: a tail of three messages stands for *)
(* the six of the code, a window of a few units for its 128k tokens.       *)
(***************************************************************************)
EXTENDS AbortHistory
=============================================================================
