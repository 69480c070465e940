--------------------------- MODULE MCAgentInstall ---------------------------
(* AgentInstall for TLC; every bound is given by the configuration.        *)
EXTENDS AgentInstall

=============================================================================
