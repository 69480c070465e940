--------------------------- MODULE MCAgentCommands ---------------------------
(* TLC instances of AgentCommands: one tick is ten seconds, and a command *)
(* lives 20 ticks where COMMAND_TTL is 30: in time here is in time there.  *)
EXTENDS AgentCommands

=============================================================================
