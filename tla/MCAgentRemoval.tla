--------------------------- MODULE MCAgentRemoval ---------------------------
(***************************************************************************)
(* AgentRemoval for TLC: two of the six kinds, which the handler treats    *)
(* alike.                                                                  *)
(***************************************************************************)
EXTENDS AgentRemoval

MCKinds == <<"Deployment", "Service">>
=============================================================================
