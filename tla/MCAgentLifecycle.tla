--------------------------- MODULE MCAgentLifecycle ---------------------------
(* Instances of AgentLifecycle for TLC: every way to ask for an Agent, and *)
(* the ones with a pane of the daemon's.                                   *)
EXTENDS AgentLifecycle

AnyShape == [owned : BOOLEAN, setup : BOOLEAN]
OwnedShape == [owned : {TRUE}, setup : BOOLEAN]
==============================================================================
