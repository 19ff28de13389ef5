----------------------------- MODULE MCMcpPool -----------------------------
(* One deck whose servers die or are no longer read and whose starts fail, *)
(* with two callers of IsRunning; two decks, of which one ends.             *)
EXTENDS McpPool

CONSTANTS d1, d2

Scenario(ds, deaths, longs, failures, exits, probes) ==
  [decks |-> ds, deaths |-> deaths, longs |-> longs, failures |-> failures,
   exits |-> exits, probes |-> probes]

MCScenarios ==
  { Scenario({d1}, 2, 1, 2, 0, 2), Scenario({d1, d2}, 1, 0, 1, 1, 1) }
=============================================================================
