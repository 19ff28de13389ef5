----------------------------- MODULE MCMcpProxy -----------------------------
(* Two sessions at once, of which one leaves; requests and answers too long to  *)
(* read; a server that asks; one that dies once under a session that asks again, *)
(* and one that dies twice, with two connections or under a request; a second    *)
(* session at the limit.                                                         *)
EXTENDS McpProxy, TLC

CONSTANTS a, b

Scenario(ofA, ofB, leavers, serverAsks, deaths, longs, links, maxClients) ==
  [asks |-> a :> ofA @@ b :> ofB, leavers |-> leavers, serverAsks |-> serverAsks,
   deaths |-> deaths, longs |-> longs, conns |-> links, maxClients |-> maxClients]

MCScenarios ==
  { Scenario(1, 2, {a}, 0, 0, 0, 3, 2),
    Scenario(1, 1, {}, 0, 0, 1, 2, 2),
    Scenario(2, 0, {}, 0, 0, 2, 2, 2),
    Scenario(1, 1, {a}, 1, 0, 0, 2, 2),
    Scenario(2, 0, {}, 0, 1, 0, 2, 1),
    Scenario(0, 0, {}, 0, 2, 0, 2, 2),
    Scenario(1, 0, {}, 0, 2, 0, 1, 2),
    Scenario(0, 1, {a}, 0, 0, 0, 3, 1) }
=============================================================================
