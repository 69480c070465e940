---------------------------- MODULE MCPreflight ----------------------------
(* Preflight for TLC: a program, rules that spell its name differently.    *)
EXTENDS Preflight

MCPrograms == {"Game.exe"}

MCCasefold == [n \in {"Game.exe", "GAME.EXE"} |-> "game.exe"]

\* One rule that blocks, one that warns, one for another role.
MCRules ==
    {[name |-> "GAME.EXE", role |-> "any", required_closed |-> TRUE,
      severity |-> "blocking", enabled |-> TRUE],
     [name |-> "Game.exe", role |-> "client", required_closed |-> TRUE,
      severity |-> "warning", enabled |-> TRUE],
     [name |-> "Game.exe", role |-> "admin", required_closed |-> TRUE,
      severity |-> "blocking", enabled |-> TRUE]}

\* The PC's clock is behind, right or ahead.
MCOffsets == {-1, 0, 1, 2}

=============================================================================
