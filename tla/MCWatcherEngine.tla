--------------------------- MODULE MCWatcherEngine ---------------------------
(* a and b are of one sender.  w1 has room for MaxEvents = 1 row, so b prunes *)
(* a and a's second delivery can be stored again; w2 shares the key of a; c   *)
(* is a reply of another sender.  An import meets the append of a's sender.   *)
EXTENDS WatcherEngine, TLC

CONSTANTS w1, w2, a, b, c, s, t

SenderOfEvent == a :> s @@ b :> s @@ c :> t

Scenario(n, faulty, imported) ==
  [feed |-> n @@ [k \in Keys |-> 0], faults |-> faulty, imports |-> imported]

MCScenarios ==
  { Scenario(<<w1, a>> :> 2 @@ <<w1, b>> :> 1, 0, 0),
    Scenario(<<w1, a>> :> 1 @@ <<w1, b>> :> 1, 1, 0),
    Scenario(<<w1, a>> :> 1 @@ <<w2, a>> :> 1, 1, 0),
    Scenario(<<w1, a>> :> 1 @@ <<w1, c>> :> 1, 0, 0),
    Scenario(<<w1, a>> :> 1, 1, 1) }
=============================================================================
