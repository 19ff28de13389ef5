--------------------------- MODULE McpPool_proofs ---------------------------
(***************************************************************************)
(* What the pools of the decks guarantee for any number of decks, proxies, *)
(* deaths and failing starts.  The argument is ownership: each proxy that  *)
(* was made is in one deck's pool or in its hands, and what that deck's    *)
(* holder of Pool.mu does next says what the proxy may still have, be it a *)
(* server, a listener or a reader.                                         *)
(***************************************************************************)
EXTENDS McpPool, TLAPS

-----------------------------------------------------------------------------
\* The invariant.

\* Deck d has proxy p in its pool or in hand.
Owns(d, p) == p # 0 /\ (entry[d] = p \/ op[d].proxy = p)

\* What is left of the faults and calls.
ScenarioOK ==
  scenario \in [decks : SUBSET Decks, deaths : Nat, longs : Nat, failures : Nat, exits : Nat, probes : Nat]

\* Proxies that are not made yet.
Fresh == \A p \in Proxies : p > made =>
  ~alive[p] /\ ~listening[p] /\ reader[p] = "none" /\ status[p] = "starting"

\* A proxy that was made is owned by one deck.
Apart ==
  /\ \A d \in Decks, p \in Proxies : Owns(d, p) => p <= made
  /\ \A d, e \in Decks, p \in Proxies : up[d] /\ up[e] /\ Owns(d, p) /\ Owns(e, p) => d = e

\* What the holder of Pool.mu knows at each step.
Holds(d) ==
  LET p == op[d].proxy IN
  /\ ~started[d] => entry[d] = 0 /\ op[d].at = "idle"
  /\ op[d].at = "idle" => op[d] = Idle
  /\ op[d].at \in {"close", "kill"} => p # 0 /\ entry[d] = p
  /\ op[d].at = "kill" => ~listening[p]
  /\ op[d].at \in {"close", "kill"} /\ op[d].kind # "shutdown" => status[p] # "permanent"
  /\ op[d].at \in {"check", "remove", "launch", "listen", "run"} =>
       entry[d] = 0 /\ op[d].kind # "shutdown"
  /\ op[d].at = "check" /\ p # 0 => ~alive[p] /\ ~listening[p]
  /\ op[d].at \in {"remove", "launch", "listen", "run"} =>
       p # 0 /\ status[p] # "permanent" /\ total[p] < MaxTotalFailures
  /\ op[d].at \in {"remove", "launch", "listen"} => ~listening[p] /\ reader[p] = "none"
  /\ op[d].at \in {"remove", "launch"} => ~alive[p]

\* Only a disabled proxy has used up its failures, and nobody reads its server.
Counted ==
  /\ \A p \in Proxies : status[p] = "permanent" => reader[p] # "scan"
  /\ \A d \in Decks : up[d] /\ entry[d] # 0 /\ status[entry[d]] # "permanent"
       => total[entry[d]] < MaxTotalFailures
  /\ \A d \in Decks : up[d] /\ op[d].kind # "shutdown" => op[d].total < MaxTotalFailures

PoolInv ==
  /\ ScenarioOK /\ Fresh /\ Apart /\ Counted
  /\ \A d \in Decks : up[d] => Holds(d) /\ d \in scenario.decks


-----------------------------------------------------------------------------
\* Types.

LEMMA PoolInit == ASSUME Init PROVE TypeOK /\ PoolInv
<1>1. TypeOK
  BY PoolAssumption DEF Init, TypeOK, Idle, Proxies
<1>2. ScenarioOK /\ Fresh
  BY PoolAssumption DEF Init, ScenarioOK, Fresh, Proxies
<1>3. /\ op = [d \in Decks |-> Idle] /\ entry = [d \in Decks |-> 0]
      /\ \A d \in Decks : up[d] => d \in scenario.decks
      /\ status = [p \in Proxies |-> "starting"]
  BY DEF Init
<1>4. Apart
  BY <1>3 DEF Apart, Owns, Idle
<1>5. Counted
  BY <1>3, PoolAssumption DEF Counted, Idle
<1>6. \A d \in Decks : Holds(d)
  BY <1>3 DEF Holds, Idle
<1>7. PoolInv
  BY <1>2, <1>3, <1>4, <1>5, <1>6 DEF PoolInv
<1> QED
  BY <1>1, <1>7

-----------------------------------------------------------------------------
\* What the steps do to the one who holds Pool.mu.

OpTypes ==
  [at : {"idle", "close", "kill", "check", "remove", "launch", "listen", "run"},
   kind : {"none", "start", "restart", "retry", "shutdown"},
   proxy : 0..MaxProxies, total : 0..MaxTotalFailures]

\* After the step deck d is there, and no other deck has moved.
OpIs(d, a, k, p, t) ==
  /\ op' \in [Decks -> OpTypes]
  /\ op'[d].at = a /\ op'[d].kind = k /\ op'[d].proxy = p /\ op'[d].total = t
  /\ a = "idle" => op'[d] = Idle
  /\ \A e \in Decks \ {d} : op'[e] = op[e]

LEMMA OpFields ==
  ASSUME TypeOK, NEW d \in Decks
  PROVE  /\ op[d] \in OpTypes
         /\ op[d].at \in {"idle", "close", "kill", "check", "remove", "launch", "listen", "run"}
         /\ op[d].kind \in {"none", "start", "restart", "retry", "shutdown"}
         /\ op[d].proxy \in 0..MaxProxies /\ op[d].total \in 0..MaxTotalFailures
BY DEF TypeOK, OpTypes

LEMMA GoOp ==
  ASSUME TypeOK, NEW d \in Decks, NEW step, Go(d, step),
         step \in {"close", "kill", "check", "remove", "launch", "listen", "run"}
  PROVE  OpIs(d, step, op[d].kind, op[d].proxy, op[d].total)
BY OpFields DEF Go, OpIs, OpTypes, TypeOK

LEMMA IdleOp ==
  ASSUME TypeOK, NEW d \in Decks, op' = [op EXCEPT ![d] = Idle]
  PROVE  OpIs(d, "idle", "none", 0, 0)
<1>1. Idle \in OpTypes
  BY PoolAssumption DEF Idle, OpTypes
<1> QED
  BY <1>1 DEF OpIs, Idle, TypeOK, OpTypes

LEMMA TakeOp ==
  ASSUME TypeOK, NEW d \in Decks, NEW a \in {"close", "check"},
         NEW k \in {"start", "restart", "retry", "shutdown"},
         NEW p \in 0..MaxProxies, NEW t \in 0..MaxTotalFailures,
         op' = [op EXCEPT ![d] = [at |-> a, kind |-> k, proxy |-> p, total |-> t]]
  PROVE  OpIs(d, a, k, p, t)
<1>1. [at |-> a, kind |-> k, proxy |-> p, total |-> t] \in OpTypes
  BY DEF OpTypes
<1> QED
  BY <1>1 DEF OpIs, TypeOK, OpTypes

LEMMA RemoveOp ==
  ASSUME TypeOK, NEW d \in Decks, NEW p \in 0..MaxProxies,
         op' = [op EXCEPT ![d].at = "remove", ![d].proxy = p]
  PROVE  OpIs(d, "remove", op[d].kind, p, op[d].total)
BY OpFields DEF OpIs, OpTypes, TypeOK

\* Each action, and where it leaves the one who holds Pool.mu.
LEMMA OpSteps ==
  ASSUME TypeOK, PoolInv, NEW d \in Decks
  PROVE  /\ Start(d) => OpIs(d, "check", "start", 0, 0)
         /\ RestartProxy(d) => \/ Replaceable(d) /\ OpIs(d, "close", "restart", entry[d], 0)
                               \/ UNCHANGED op
         /\ RestartProxyWithRateLimit(d) =>
              \/ Replaceable(d) /\ OpIs(d, "close", "retry", entry[d], total[entry[d]])
              \/ UNCHANGED op
         /\ Shutdown(d) => OpIs(d, "close", "shutdown", entry[d], 0)
         /\ StopListener(d) => OpIs(d, "kill", op[d].kind, op[d].proxy, op[d].total)
         /\ StopServer(d) => IF op[d].kind = "shutdown" THEN OpIs(d, "idle", "none", 0, 0)
                             ELSE OpIs(d, "check", op[d].kind, op[d].proxy, op[d].total)
         /\ Check(d) => IF SocketAlive THEN OpIs(d, "idle", "none", 0, 0)
                        ELSE OpIs(d, "remove", op[d].kind, made + 1, op[d].total)
         /\ RemovePath(d) => OpIs(d, "launch", op[d].kind, op[d].proxy, op[d].total)
         /\ Launch(d) => \/ Fail(d) /\ OpIs(d, "idle", "none", 0, 0)
                         \/ OpIs(d, "listen", op[d].kind, op[d].proxy, op[d].total)
         /\ Listen(d) => \/ path # 0 /\ OpIs(d, "idle", "none", 0, 0)
                         \/ path = 0 /\ OpIs(d, "run", op[d].kind, op[d].proxy, op[d].total)
         /\ SetRunning(d) => OpIs(d, "idle", "none", 0, 0)
         /\ Exit(d) => OpIs(d, "idle", "none", 0, 0)
<1>1. Start(d) => OpIs(d, "check", "start", 0, 0)
  <2> HAVE Start(d)
  <2> DEFINE r == [Idle EXCEPT !.at = "check", !.kind = "start"]
  <2>1. r \in OpTypes /\ r.at = "check" /\ r.kind = "start" /\ r.proxy = 0 /\ r.total = 0
    <3>1. Idle \in OpTypes /\ Idle.proxy = 0 /\ Idle.total = 0
      BY PoolAssumption DEF Idle, OpTypes
    <3> QED
      BY <3>1 DEF OpTypes
  <2>2. op' = [op EXCEPT ![d] = r]
    BY Zenon DEF Start
  <2> HIDE DEF r
  <2> QED
    BY <2>1, <2>2 DEF OpIs, OpTypes, TypeOK
<1>2. entry[d] \in 0..MaxProxies /\ 0 \in 0..MaxTotalFailures /\ 0 \in 0..MaxProxies
  BY PoolAssumption DEF TypeOK
<1>3. ASSUME RestartProxy(d), Replaceable(d)
      PROVE  OpIs(d, "close", "restart", entry[d], 0)
  BY <1>2, <1>3, TakeOp DEF RestartProxy
<1>4. ASSUME RestartProxyWithRateLimit(d), Replaceable(d)
      PROVE  OpIs(d, "close", "retry", entry[d], total[entry[d]])
  <2>1. entry[d] \in Proxies
    BY <1>2, <1>4 DEF Replaceable, Proxies
  <2>2. total[entry[d]] \in 0..MaxTotalFailures
    BY <2>1 DEF TypeOK
  <2> QED
    BY <1>2, <1>4, <2>2, TakeOp DEF RestartProxyWithRateLimit
<1>5. Shutdown(d) => OpIs(d, "close", "shutdown", entry[d], 0)
  BY <1>2, TakeOp DEF Shutdown
<1>6. StopListener(d) => OpIs(d, "kill", op[d].kind, op[d].proxy, op[d].total)
  BY GoOp DEF StopListener
<1>7. StopServer(d) => IF op[d].kind = "shutdown" THEN OpIs(d, "idle", "none", 0, 0)
                       ELSE OpIs(d, "check", op[d].kind, op[d].proxy, op[d].total)
  BY GoOp, IdleOp DEF StopServer
<1>8. Check(d) => IF SocketAlive THEN OpIs(d, "idle", "none", 0, 0)
                  ELSE OpIs(d, "remove", op[d].kind, made + 1, op[d].total)
  <2> HAVE Check(d)
  <2>1. made + 1 \in 0..MaxProxies
    BY PoolAssumption DEF Check, TypeOK
  <2>2. CASE SocketAlive
    BY <2>2, IdleOp DEF Check, Install
  <2>3. CASE ~SocketAlive
    BY <2>1, <2>3, RemoveOp DEF Check
  <2> QED
    BY <2>2, <2>3
<1>9. RemovePath(d) => OpIs(d, "launch", op[d].kind, op[d].proxy, op[d].total)
  BY GoOp DEF RemovePath
<1>10. Fail(d) => OpIs(d, "idle", "none", 0, 0)
  BY IdleOp DEF Fail, Install
<1>11. Launch(d) => \/ Fail(d) /\ OpIs(d, "idle", "none", 0, 0)
                    \/ OpIs(d, "listen", op[d].kind, op[d].proxy, op[d].total)
  <2> HAVE Launch(d)
  <2>1. Fail(d) \/ Go(d, "listen")
    BY DEF Launch
  <2> QED
    BY <1>10, <2>1, GoOp
<1>12. Listen(d) => \/ path # 0 /\ OpIs(d, "idle", "none", 0, 0)
                    \/ path = 0 /\ OpIs(d, "run", op[d].kind, op[d].proxy, op[d].total)
  <2> HAVE Listen(d)
  <2>1. CASE path = 0
    BY <2>1, GoOp DEF Listen
  <2>2. CASE path # 0
    <3>1. Fail(d)
      BY <2>2, Zenon DEF Listen
    <3> QED
      BY <1>10, <2>2, <3>1
  <2> QED
    BY <2>1, <2>2
<1>13. SetRunning(d) => OpIs(d, "idle", "none", 0, 0)
  BY IdleOp DEF SetRunning, Install
<1>14. Exit(d) => OpIs(d, "idle", "none", 0, 0)
  BY IdleOp DEF Exit
<1>15. RestartProxy(d) /\ ~Replaceable(d) => UNCHANGED op
  BY DEF RestartProxy
<1>16. RestartProxyWithRateLimit(d) /\ ~Replaceable(d) => UNCHANGED op
  BY DEF RestartProxyWithRateLimit
<1> QED
  BY <1>1, <1>3, <1>4, <1>5, <1>6, <1>7, <1>8, <1>9, <1>11, <1>12, <1>13, <1>14, <1>15, <1>16

-----------------------------------------------------------------------------
\* Each part of the invariant, and the types, are kept.

LEMMA ScenarioNext == ASSUME TypeOK, PoolInv, [Next]_vars PROVE ScenarioOK'
<1> USE PoolAssumption DEF PoolInv, ScenarioOK, objects, decks
<1>1. CASE UNCHANGED vars
  BY <1>1 DEF vars
<1>2. ASSUME NEW d \in Decks, Start(d) PROVE ScenarioOK'
  BY <1>2 DEF Start, Free
<1>3. ASSUME NEW d \in Decks, IsRunning(d) PROVE ScenarioOK'
  BY <1>3 DEF IsRunning, Free
<1>4. ASSUME NEW d \in Decks, RestartProxy(d) PROVE ScenarioOK'
  BY <1>4 DEF RestartProxy, Free, Replaceable
<1>5. ASSUME NEW d \in Decks, ResetCounters(d) PROVE ScenarioOK'
  BY <1>5 DEF ResetCounters, Free
<1>6. ASSUME NEW d \in Decks, Shutdown(d) PROVE ScenarioOK'
  BY <1>6 DEF Shutdown, Free
<1>7. ASSUME NEW d \in Decks, Exit(d) PROVE ScenarioOK'
  BY <1>7 DEF Exit, OfDeck
<1>8. ASSUME NEW d \in Decks, Tick(d) PROVE ScenarioOK'
  BY <1>8 DEF Tick, Free
<1>9. ASSUME NEW d \in Decks, RestartProxyWithRateLimit(d) PROVE ScenarioOK'
  BY <1>9 DEF RestartProxyWithRateLimit, Free, Replaceable
<1>10. ASSUME NEW d \in Decks, StopListener(d) PROVE ScenarioOK'
  BY <1>10 DEF StopListener, At, Go, CloseListener
<1>11. ASSUME NEW d \in Decks, StopServer(d) PROVE ScenarioOK'
  BY <1>11 DEF StopServer, At, Go
<1>12. ASSUME NEW d \in Decks, Check(d) PROVE ScenarioOK'
  BY <1>12 DEF Check, At, Install
<1>13. ASSUME NEW d \in Decks, RemovePath(d) PROVE ScenarioOK'
  BY <1>13 DEF RemovePath, At, Go
<1>14. ASSUME NEW d \in Decks, Launch(d) PROVE ScenarioOK'
  BY <1>14 DEF Launch, At, Go, Fail, Install
<1>15. ASSUME NEW d \in Decks, Listen(d) PROVE ScenarioOK'
  BY <1>15 DEF Listen, At, Go, Fail, Install
<1>16. ASSUME NEW d \in Decks, SetRunning(d) PROVE ScenarioOK'
  BY <1>16 DEF SetRunning, At, Install
<1>17. ASSUME NEW p \in Proxies, MarkFailed(p) PROVE ScenarioOK'
  BY <1>17 DEF MarkFailed
<1>18. ASSUME NEW p \in Proxies, CloseFailed(p) PROVE ScenarioOK'
  BY <1>18 DEF CloseFailed, CloseListener
<1>19. ASSUME NEW p \in Proxies, Die(p) PROVE ScenarioOK'
  BY <1>19 DEF Die
<1>20. ASSUME NEW p \in Proxies, ScanFails(p) PROVE ScenarioOK'
  BY <1>20 DEF ScanFails
<1> QED
  BY <1>1, <1>2, <1>3, <1>4, <1>5, <1>6, <1>7, <1>8, <1>9, <1>10, <1>11, <1>12, <1>13, <1>14, <1>15, <1>16, <1>17, <1>18, <1>19, <1>20
     DEF Next, Monitor, Work, Read

LEMMA FreshNext == ASSUME TypeOK, PoolInv, [Next]_vars PROVE Fresh'
<1> USE PoolAssumption DEF TypeOK, PoolInv, Fresh, Apart, Holds, Owns, Idle, Proxies, objects, decks
<1>1. CASE UNCHANGED vars
  BY <1>1 DEF vars
<1>2. ASSUME NEW d \in Decks, Start(d) PROVE Fresh'
  BY <1>2 DEF Start, Free
<1>3. ASSUME NEW d \in Decks, IsRunning(d) PROVE Fresh'
  BY <1>3 DEF IsRunning, Free
<1>4. ASSUME NEW d \in Decks, RestartProxy(d) PROVE Fresh'
  BY <1>4 DEF RestartProxy, Free, Replaceable
<1>5. ASSUME NEW d \in Decks, ResetCounters(d) PROVE Fresh'
  BY <1>5 DEF ResetCounters, Free
<1>6. ASSUME NEW d \in Decks, Shutdown(d) PROVE Fresh'
  BY <1>6 DEF Shutdown, Free
<1>7. ASSUME NEW d \in Decks, Exit(d) PROVE Fresh'
  BY <1>7 DEF Exit, OfDeck
<1>8. ASSUME NEW d \in Decks, Tick(d) PROVE Fresh'
  BY <1>8 DEF Tick, Free
<1>9. ASSUME NEW d \in Decks, RestartProxyWithRateLimit(d) PROVE Fresh'
  BY <1>9 DEF RestartProxyWithRateLimit, Free, Replaceable
<1>10. ASSUME NEW d \in Decks, StopListener(d) PROVE Fresh'
  BY <1>10 DEF StopListener, At, Go, CloseListener
<1>11. ASSUME NEW d \in Decks, StopServer(d) PROVE Fresh'
  BY <1>11 DEF StopServer, At, Go
<1>12. ASSUME NEW d \in Decks, Check(d) PROVE Fresh'
  BY <1>12 DEF Check, At, Install
<1>13. ASSUME NEW d \in Decks, RemovePath(d) PROVE Fresh'
  BY <1>13 DEF RemovePath, At, Go
<1>14. ASSUME NEW d \in Decks, Launch(d) PROVE Fresh'
  BY SMTT(30), <1>14 DEF Launch, At, Go, Fail, Install
<1>15. ASSUME NEW d \in Decks, Listen(d) PROVE Fresh'
  <2>1. CASE path = 0
    BY <1>15, <2>1 DEF Listen, At
  <2>2. CASE path # 0
    <3>1. Fail(d) /\ alive' = [alive EXCEPT ![op[d].proxy] = FALSE] /\ UNCHANGED <<listening, reader, made>>
      BY <1>15, <2>2, Zenon DEF Listen
    <3>2. op[d].at = "listen"
      BY <1>15 DEF Listen, At
    <3>3. op[d].proxy <= made /\ op[d].proxy # 0
      BY <1>15, <3>2 DEF Listen, At
    <3>4. status' = status \/ \E v : status' = [status EXCEPT ![op[d].proxy] = v]
      BY <3>1 DEF Fail
    <3> QED
      BY <3>1, <3>3, <3>4
  <2> QED
    BY <2>1, <2>2
<1>16. ASSUME NEW d \in Decks, SetRunning(d) PROVE Fresh'
  BY <1>16 DEF SetRunning, At, Install
<1>17. ASSUME NEW p \in Proxies, MarkFailed(p) PROVE Fresh'
  BY <1>17 DEF MarkFailed
<1>18. ASSUME NEW p \in Proxies, CloseFailed(p) PROVE Fresh'
  BY <1>18 DEF CloseFailed, CloseListener
<1>19. ASSUME NEW p \in Proxies, Die(p) PROVE Fresh'
  BY <1>19 DEF Die
<1>20. ASSUME NEW p \in Proxies, ScanFails(p) PROVE Fresh'
  BY <1>20 DEF ScanFails
<1> QED
  BY <1>1, <1>2, <1>3, <1>4, <1>5, <1>6, <1>7, <1>8, <1>9, <1>10, <1>11, <1>12, <1>13, <1>14, <1>15, <1>16, <1>17, <1>18, <1>19, <1>20
     DEF Next, Monitor, Work, Read

LEMMA OwnsNext ==
  ASSUME TypeOK, PoolInv, NEW d \in Decks,
         \/ Start(d) \/ RestartProxy(d) \/ RestartProxyWithRateLimit(d) \/ Shutdown(d)
         \/ Work(d) \/ Exit(d)
  PROVE  /\ \A p \in Proxies : Owns(d, p)' => Owns(d, p) \/ (p = made + 1 /\ made' = made + 1)
         /\ \A e \in Decks \ {d} : entry'[e] = entry[e] /\ op'[e] = op[e]
         /\ \A e \in Decks : up'[e] => up[e]
         /\ made' \in {made, made + 1}
<1> USE DEF Owns, TypeOK
<1>1. CASE Start(d)
  BY <1>1, OpSteps DEF Start, OpIs, objects
<1>2. CASE RestartProxy(d)
  <2>1. UNCHANGED <<objects, entry, up>>
    BY <1>2 DEF RestartProxy
  <2> QED
    BY <1>2, <2>1, OpSteps DEF OpIs, objects
<1>3. CASE RestartProxyWithRateLimit(d)
  <2>1. UNCHANGED <<objects, entry, up>>
    BY <1>3 DEF RestartProxyWithRateLimit
  <2> QED
    BY <1>3, <2>1, OpSteps DEF OpIs, objects
<1>4. CASE Shutdown(d)
  BY <1>4, OpSteps DEF Shutdown, OpIs, objects
<1>5. CASE StopListener(d)
  BY <1>5, OpSteps DEF StopListener, OpIs, objects
<1>6. CASE StopServer(d)
  <2>1. /\ entry' = entry \/ entry' = [entry EXCEPT ![d] = 0]
        /\ up' = up \/ up' = [up EXCEPT ![d] = FALSE]
        /\ UNCHANGED made
    BY <1>6 DEF StopServer
  <2>2. OpIs(d, "idle", "none", 0, 0) \/ OpIs(d, "check", op[d].kind, op[d].proxy, op[d].total)
    BY <1>6, OpSteps
  <2> QED
    BY <2>1, <2>2 DEF OpIs
<1>7. CASE Check(d)
  <2>1. made' = made + 1 /\ UNCHANGED up
    BY <1>7 DEF Check
  <2>2. CASE SocketAlive
    <3>1. entry' = [entry EXCEPT ![d] = made + 1] /\ OpIs(d, "idle", "none", 0, 0)
      BY <1>7, <2>2, OpSteps DEF Check, Install
    <3> QED
      BY <2>1, <3>1 DEF OpIs, Proxies
  <2>3. CASE ~SocketAlive
    <3>1. UNCHANGED entry /\ OpIs(d, "remove", op[d].kind, made + 1, op[d].total)
      BY <1>7, <2>3, OpSteps DEF Check
    <3> QED
      BY <2>1, <3>1 DEF OpIs, Proxies
  <2> QED
    BY <2>2, <2>3
<1>8. CASE RemovePath(d)
  BY <1>8, OpSteps DEF RemovePath, OpIs, objects
<1>9. CASE Launch(d)
  <2>1. UNCHANGED <<made, up>>
    BY <1>9 DEF Launch
  <2>2. entry' = entry \/ entry' = [entry EXCEPT ![d] = op[d].proxy]
    BY <1>9 DEF Launch, Fail, Install
  <2> QED
    BY <1>9, <2>1, <2>2, OpSteps DEF OpIs
<1>10. CASE Listen(d)
  <2>1. UNCHANGED <<made, up>>
    BY <1>10 DEF Listen
  <2>2. entry' = entry \/ entry' = [entry EXCEPT ![d] = op[d].proxy]
    BY <1>10 DEF Listen, Fail, Install
  <2> QED
    BY <1>10, <2>1, <2>2, OpSteps DEF OpIs
<1>11. CASE SetRunning(d)
  <2>1. UNCHANGED <<made, up>> /\ entry' = [entry EXCEPT ![d] = op[d].proxy]
    BY <1>11 DEF SetRunning, Install
  <2> QED
    BY <1>11, <2>1, OpSteps DEF OpIs
<1>12. CASE Exit(d)
  <2>1. UNCHANGED <<made, entry>> /\ up' = [up EXCEPT ![d] = FALSE]
    BY <1>12 DEF Exit
  <2> QED
    BY <1>12, <2>1, OpSteps DEF OpIs
<1> QED
  BY <1>1, <1>2, <1>3, <1>4, <1>5, <1>6, <1>7, <1>8, <1>9, <1>10, <1>11, <1>12 DEF Work

LEMMA ApartNext == ASSUME TypeOK, PoolInv, [Next]_vars PROVE Apart'
<1>1. ASSUME NEW d \in Decks,
             \/ Start(d) \/ RestartProxy(d) \/ RestartProxyWithRateLimit(d) \/ Shutdown(d)
             \/ Work(d) \/ Exit(d)
      PROVE  Apart'
  <2>1. /\ \A p \in Proxies : Owns(d, p)' => Owns(d, p) \/ (p = made + 1 /\ made' = made + 1)
        /\ \A e \in Decks \ {d}, p \in Proxies : Owns(e, p)' = Owns(e, p)
        /\ \A e \in Decks : up'[e] => up[e]
        /\ made' \in {made, made + 1} /\ made \in Nat
    BY <1>1, OwnsNext DEF Owns, TypeOK
  <2>2. \A e \in Decks, p \in Proxies : Owns(e, p) => p <= made
    BY DEF PoolInv, Apart
  <2>3. \A e \in Decks, p \in Proxies : Owns(e, p)' => p <= made'
    BY <2>1, <2>2 DEF Proxies
  <2>4. \A e, f \in Decks, p \in Proxies : up'[e] /\ up'[f] /\ Owns(e, p)' /\ Owns(f, p)' => e = f
    <3>1. \A e, f \in Decks, p \in Proxies : up[e] /\ up[f] /\ Owns(e, p) /\ Owns(f, p) => e = f
      BY DEF PoolInv, Apart
    <3>2. ~(made + 1 <= made)
      BY <2>1
    <3> QED
      BY <2>1, <2>2, <3>1, <3>2
  <2> QED
    BY <2>3, <2>4 DEF Apart
<1>2. ASSUME UNCHANGED <<made, entry, op, up>> PROVE Apart'
  BY <1>2 DEF PoolInv, Apart, Owns
<1>3. ASSUME NEW d \in Decks, IsRunning(d) \/ ResetCounters(d) \/ Tick(d) PROVE Apart'
  BY <1>2, <1>3 DEF IsRunning, ResetCounters, Tick, objects, decks
<1>4. ASSUME NEW p \in Proxies, Read(p) \/ ScanFails(p) \/ Die(p) PROVE Apart'
  BY <1>2, <1>4 DEF Read, ScanFails, MarkFailed, CloseFailed, Die, objects, decks
<1>5. CASE UNCHANGED vars
  BY <1>2, <1>5 DEF vars, objects, decks
<1> QED
  BY <1>1, <1>3, <1>4, <1>5 DEF Next, Monitor

-----------------------------------------------------------------------------
\* Types are kept.

LEMMA OpTyped == ASSUME TypeOK, PoolInv, [Next]_vars PROVE op' \in [Decks -> OpTypes]
<1>1. ASSUME UNCHANGED op PROVE op' \in [Decks -> OpTypes]
  BY <1>1 DEF TypeOK, OpTypes
<1>2. ASSUME NEW d \in Decks, Start(d) \/ RestartProxy(d) \/ RestartProxyWithRateLimit(d)
                              \/ Shutdown(d) \/ Work(d) \/ Exit(d)
      PROVE  op' \in [Decks -> OpTypes]
  <2>1. UNCHANGED op \/ \E a, k, p, t : OpIs(d, a, k, p, t)
    BY <1>2, OpSteps DEF Work
  <2> QED
    BY <1>1, <2>1 DEF OpIs
<1>3. ASSUME NEW d \in Decks, IsRunning(d) \/ ResetCounters(d) \/ Tick(d) PROVE UNCHANGED op
  BY <1>3 DEF IsRunning, ResetCounters, Tick, decks
<1>4. ASSUME NEW p \in Proxies, Read(p) \/ ScanFails(p) \/ Die(p) PROVE UNCHANGED op
  BY <1>4 DEF Read, ScanFails, MarkFailed, CloseFailed, Die, decks
<1>5. CASE UNCHANGED vars
  BY <1>1, <1>5 DEF vars, decks
<1> QED
  BY <1>1, <1>2, <1>3, <1>4, <1>5 DEF Next, Monitor

LEMMA InHand ==
  ASSUME TypeOK, PoolInv, NEW d \in Decks, up[d],
         op[d].at \in {"close", "kill", "remove", "launch", "listen", "run"}
  PROVE  op[d].proxy \in Proxies
BY OpFields DEF PoolInv, Holds, Proxies

LEMMA FailTypes ==
  ASSUME TypeOK, NEW d \in Decks, op[d].proxy \in Proxies, Fail(d),
         op[d].total + 1 \in 0..MaxTotalFailures
  PROVE  /\ path' \in 0..MaxProxies /\ total' \in [Proxies -> 0..MaxTotalFailures]
         /\ status' \in [Proxies -> {"starting", "running", "failed", "permanent", "stopped"}]
         /\ entry' \in [Decks -> 0..MaxProxies]
<1>1. path' \in 0..MaxProxies
  BY PoolAssumption DEF Fail, TypeOK
<1>2. UNCHANGED total \/ total' = [total EXCEPT ![op[d].proxy] = op[d].total + 1]
  BY DEF Fail
<1>3. UNCHANGED status \/ \E v \in {"failed", "permanent"} : status' = [status EXCEPT ![op[d].proxy] = v]
  BY DEF Fail
<1>4. UNCHANGED entry \/ entry' = [entry EXCEPT ![d] = op[d].proxy]
  BY DEF Fail, Install
<1>5. op[d].proxy \in 0..MaxProxies
  BY PoolAssumption DEF Proxies
<1> QED
  BY <1>1, <1>2, <1>3, <1>4, <1>5 DEF TypeOK

LEMMA TypeNext == ASSUME TypeOK, PoolInv, [Next]_vars PROVE TypeOK'
<1>0. op' \in [Decks -> OpTypes]
  BY OpTyped
<1>1. CASE UNCHANGED vars
  BY <1>1 DEF TypeOK, vars, objects, decks
<1>2. ASSUME NEW d \in Decks, Start(d) PROVE TypeOK'
  BY <1>0, <1>2, PoolAssumption, OpFields DEF Start, TypeOK, PoolInv, ScenarioOK, OpTypes, Proxies, objects, decks
<1>3. ASSUME NEW d \in Decks, IsRunning(d) PROVE TypeOK'
  BY <1>0, <1>3 DEF IsRunning, TypeOK, OpTypes, objects
<1>4. ASSUME NEW d \in Decks, RestartProxy(d) PROVE TypeOK'
  <2>1. /\ UNCHANGED <<objects, path, up, started, entry, seenFailed>>
        /\ seenDead[d] > 0 /\ seenDead' = [seenDead EXCEPT ![d] = @ - 1]
    BY <1>4 DEF RestartProxy
  <2> QED
    BY <1>0, <2>1 DEF TypeOK, OpTypes, objects
<1>5. ASSUME NEW d \in Decks, ResetCounters(d) PROVE TypeOK'
  <2>1. entry[d] \in Proxies /\ 0 \in 0..MaxTotalFailures
    BY <1>5, PoolAssumption DEF ResetCounters, TypeOK, Proxies
  <2> QED
    BY <1>5, <2>1 DEF ResetCounters, TypeOK, decks
<1>6. ASSUME NEW d \in Decks, Shutdown(d) PROVE TypeOK'
  BY <1>0, <1>6, PoolAssumption, OpFields DEF Shutdown, TypeOK, PoolInv, ScenarioOK, OpTypes, Proxies, objects, decks
<1>7. ASSUME NEW d \in Decks, Exit(d) PROVE TypeOK'
  BY <1>0, <1>7, PoolAssumption, OpFields DEF Exit, OfDeck, TypeOK, PoolInv, ScenarioOK, OpTypes, Proxies, objects, decks
<1>8. ASSUME NEW d \in Decks, Tick(d) PROVE TypeOK'
  BY <1>0, <1>8, PoolAssumption, OpFields DEF Tick, TypeOK, PoolInv, ScenarioOK, OpTypes, Proxies, objects, decks
<1>9. ASSUME NEW d \in Decks, RestartProxyWithRateLimit(d) PROVE TypeOK'
  BY <1>0, <1>9, PoolAssumption, OpFields DEF RestartProxyWithRateLimit, Replaceable, TypeOK, PoolInv, ScenarioOK, OpTypes, Proxies, objects, decks
<1>10. ASSUME NEW d \in Decks, StopListener(d) PROVE TypeOK'
  <2>1. op[d].proxy \in Proxies
    BY <1>10, InHand DEF StopListener, At
  <2> QED
    BY SMTT(30), <1>0, <1>10, <2>1, PoolAssumption
       DEF StopListener, CloseListener, Install, TypeOK, OpTypes, Proxies
<1>11. ASSUME NEW d \in Decks, StopServer(d) PROVE TypeOK'
  <2>1. op[d].proxy \in Proxies /\ 0 \in 0..MaxProxies
    BY <1>11, InHand, PoolAssumption DEF StopServer, At
  <2>2. /\ alive' = [alive EXCEPT ![op[d].proxy] = FALSE]
        /\ status' = [status EXCEPT ![op[d].proxy] = "stopped"] /\ path' = 0
        /\ UNCHANGED <<made, total, hasProcess, listening, reader, started, seenDead, seenFailed>>
    BY <1>11 DEF StopServer
  <2>3. /\ UNCHANGED entry \/ entry' = [entry EXCEPT ![d] = 0]
        /\ UNCHANGED up \/ up' = [up EXCEPT ![d] = FALSE]
    BY <1>11 DEF StopServer
  <2>4. up' \in [Decks -> BOOLEAN]
    BY <2>3 DEF TypeOK
  <2>5. entry' \in [Decks -> 0..MaxProxies] /\ path' \in 0..MaxProxies
    BY <2>1, <2>2, <2>3 DEF TypeOK
  <2>6. /\ alive' \in [Proxies -> BOOLEAN]
        /\ status' \in [Proxies -> {"starting", "running", "failed", "permanent", "stopped"}]
    BY <2>1, <2>2 DEF TypeOK
  <2> QED
    BY <1>0, <2>2, <2>4, <2>5, <2>6 DEF TypeOK, OpTypes
<1>12. ASSUME NEW d \in Decks, Check(d) PROVE TypeOK'
  <2>1. made + 1 \in Proxies /\ made + 1 \in 0..MaxProxies /\ op[d].total \in 0..MaxTotalFailures
    BY SMTT(30), <1>12, OpFields, PoolAssumption DEF Check, TypeOK, Proxies
  <2>2. /\ made' = made + 1 /\ total' = [total EXCEPT ![made + 1] = op[d].total]
        /\ UNCHANGED <<hasProcess, alive, listening, reader, path, up, started, seenDead, seenFailed>>
    BY <1>12 DEF Check
  <2>3. /\ UNCHANGED entry \/ entry' = [entry EXCEPT ![d] = made + 1]
        /\ UNCHANGED status \/ status' = [status EXCEPT ![made + 1] = "running"]
    BY <1>12 DEF Check, Install
  <2>4. total' \in [Proxies -> 0..MaxTotalFailures] /\ made' \in 0..MaxProxies
    BY <2>1, <2>2 DEF TypeOK
  <2>5. entry' \in [Decks -> 0..MaxProxies]
    BY <2>1, <2>3 DEF TypeOK
  <2>6. status' \in [Proxies -> {"starting", "running", "failed", "permanent", "stopped"}]
    BY <2>1, <2>3 DEF TypeOK
  <2> QED
    BY <1>0, <2>2, <2>4, <2>5, <2>6 DEF TypeOK, OpTypes
<1>13. ASSUME NEW d \in Decks, RemovePath(d) PROVE TypeOK'
  BY <1>0, <1>13, PoolAssumption DEF RemovePath, TypeOK, OpTypes, objects
<1>14. ASSUME NEW d \in Decks, Launch(d) PROVE TypeOK'
  <2>1. /\ op[d].proxy \in Proxies /\ op[d].total \in 0..MaxTotalFailures
        /\ op[d].total < MaxTotalFailures
    BY <1>14, InHand, OpFields DEF Launch, At, PoolInv, Holds, Counted
  <2>2. op[d].total + 1 \in 0..MaxTotalFailures
    BY <2>1, PoolAssumption
  <2>3. ASSUME Fail(d) PROVE path' \in 0..MaxProxies /\ total' \in [Proxies -> 0..MaxTotalFailures]
           /\ status' \in [Proxies -> {"starting", "running", "failed", "permanent", "stopped"}]
           /\ entry' \in [Decks -> 0..MaxProxies]
    BY <2>1, <2>2, <2>3, FailTypes
  <2>4. Fail(d) \/ UNCHANGED <<total, status, path, entry>>
    BY <1>14 DEF Launch
  <2>5. /\ path' \in 0..MaxProxies /\ total' \in [Proxies -> 0..MaxTotalFailures]
        /\ status' \in [Proxies -> {"starting", "running", "failed", "permanent", "stopped"}]
        /\ entry' \in [Decks -> 0..MaxProxies]
    BY <2>3, <2>4 DEF TypeOK
  <2>6. /\ hasProcess' \in [Proxies -> BOOLEAN] /\ alive' \in [Proxies -> BOOLEAN]
        /\ UNCHANGED <<made, listening, reader, up, started, seenDead, seenFailed>>
    <3>1. UNCHANGED alive \/ alive' = [alive EXCEPT ![op[d].proxy] = TRUE]
      BY <1>14 DEF Launch
    <3>2. \E b \in BOOLEAN : hasProcess' = [hasProcess EXCEPT ![op[d].proxy] = b]
      BY <1>14 DEF Launch
    <3> QED
      BY <1>14, <2>1, <3>1, <3>2 DEF Launch, TypeOK
  <2> QED
    BY <1>0, <2>5, <2>6 DEF TypeOK, OpTypes
<1>15. ASSUME NEW d \in Decks, Listen(d) PROVE TypeOK'
  <2>1. /\ op[d].proxy \in Proxies /\ op[d].total \in 0..MaxTotalFailures
        /\ op[d].total < MaxTotalFailures
    BY <1>15, InHand, OpFields DEF Listen, At, PoolInv, Holds, Counted
  <2>2. op[d].total + 1 \in 0..MaxTotalFailures
    BY <2>1, PoolAssumption
  <2>3. ASSUME Fail(d) PROVE path' \in 0..MaxProxies /\ total' \in [Proxies -> 0..MaxTotalFailures]
           /\ status' \in [Proxies -> {"starting", "running", "failed", "permanent", "stopped"}]
           /\ entry' \in [Decks -> 0..MaxProxies]
    BY <2>1, <2>2, <2>3, FailTypes
  <2>4. /\ UNCHANGED <<made, hasProcess, up, started, seenDead, seenFailed>>
        /\ alive' \in [Proxies -> BOOLEAN]
    <3>1. UNCHANGED alive \/ alive' = [alive EXCEPT ![op[d].proxy] = FALSE]
      BY <1>15 DEF Listen
    <3> QED
      BY <1>15, <2>1, <3>1 DEF Listen, TypeOK
  <2>5. CASE path = 0
    <3>1. /\ path' = op[d].proxy /\ UNCHANGED <<status, total, entry>>
          /\ listening' = [listening EXCEPT ![op[d].proxy] = TRUE]
          /\ reader' = [reader EXCEPT ![op[d].proxy] = "scan"]
      BY <1>15, <2>5 DEF Listen
    <3>2. path' \in 0..MaxProxies
      BY <2>1, <3>1, PoolAssumption DEF Proxies
    <3>3. /\ listening' \in [Proxies -> BOOLEAN]
          /\ reader' \in [Proxies -> {"none", "scan", "failed", "done"}]
      BY <2>1, <3>1 DEF TypeOK
    <3> QED
      BY <1>0, <2>4, <3>1, <3>2, <3>3 DEF TypeOK, OpTypes
  <2>6. CASE path # 0
    <3>1. Fail(d) /\ UNCHANGED <<listening, reader>>
      BY <1>15, <2>6, Zenon DEF Listen
    <3> QED
      BY <1>0, <2>3, <2>4, <3>1 DEF TypeOK, OpTypes
  <2> QED
    BY <2>5, <2>6
<1>16. ASSUME NEW d \in Decks, SetRunning(d) PROVE TypeOK'
  <2>1. op[d].proxy \in Proxies
    BY <1>16, InHand DEF SetRunning, At
  <2> QED
    BY <1>0, <1>16, <2>1, PoolAssumption DEF SetRunning, CloseListener, Install, TypeOK, OpTypes, Proxies
<1>17. ASSUME NEW p \in Proxies, MarkFailed(p) PROVE TypeOK'
  BY <1>0, <1>17, PoolAssumption, OpFields DEF MarkFailed, TypeOK, PoolInv, ScenarioOK, OpTypes, Proxies, objects, decks
<1>18. ASSUME NEW p \in Proxies, CloseFailed(p) PROVE TypeOK'
  <2>1. path' \in 0..MaxProxies
    BY <1>18, PoolAssumption DEF CloseFailed, CloseListener, TypeOK
  <2> QED
    BY <1>18, <2>1 DEF CloseFailed, CloseListener, TypeOK, decks
<1>19. ASSUME NEW p \in Proxies, Die(p) PROVE TypeOK'
  BY <1>0, <1>19, PoolAssumption, OpFields DEF Die, TypeOK, PoolInv, ScenarioOK, OpTypes, Proxies, objects, decks
<1>20. ASSUME NEW p \in Proxies, ScanFails(p) PROVE TypeOK'
  BY <1>0, <1>20, PoolAssumption, OpFields DEF ScanFails, TypeOK, PoolInv, ScenarioOK, OpTypes, Proxies, objects, decks
<1> QED
  BY <1>1, <1>2, <1>3, <1>4, <1>5, <1>6, <1>7, <1>8, <1>9, <1>10, <1>11, <1>12, <1>13, <1>14, <1>15, <1>16, <1>17, <1>18, <1>19, <1>20
     DEF Next, Monitor, Work, Read

-----------------------------------------------------------------------------
\* What a deck holds and what it counts are kept.

DeckStep(d) ==
  \/ Start(d) \/ IsRunning(d) \/ RestartProxy(d) \/ ResetCounters(d) \/ Shutdown(d)
  \/ Exit(d) \/ Monitor(d) \/ Work(d)

\* The part of the invariant that is about one deck, and the one about one proxy.
Good(d) ==
  /\ Holds(d)
  /\ entry[d] # 0 /\ status[entry[d]] # "permanent" => total[entry[d]] < MaxTotalFailures
  /\ op[d].kind # "shutdown" => op[d].total < MaxTotalFailures
Unread(p) == status[p] = "permanent" => reader[p] # "scan"

LEMMA GoodIs ==
  ASSUME PoolInv
  PROVE  /\ \A d \in Decks : up[d] => Good(d)
         /\ \A p \in Proxies : Unread(p)
BY DEF PoolInv, Counted, Good, Unread

LEMMA IsGood ==
  ASSUME \A d \in Decks : up[d] => Good(d), \A p \in Proxies : Unread(p)
  PROVE  Counted /\ \A d \in Decks : up[d] => Holds(d)
BY DEF Counted, Good, Unread

\* Proxy p is as it was.
SameProxy(p) ==
  /\ status'[p] = status[p] /\ total'[p] = total[p] /\ alive'[p] = alive[p]
  /\ listening'[p] = listening[p] /\ reader'[p] = reader[p]

\* A step of a deck changes what is that deck's, and the proxy it makes.
LEMMA Others ==
  ASSUME TypeOK, PoolInv, NEW d \in Decks, DeckStep(d)
  PROVE  /\ up[d]
         /\ \A p \in Proxies : ~Owns(d, p) /\ p <= made => SameProxy(p)
         /\ \A e \in Decks \ {d} : /\ entry'[e] = entry[e] /\ op'[e] = op[e]
                                   /\ started'[e] = started[e] /\ up'[e] = up[e]
<1>1. CASE \/ Start(d) \/ RestartProxy(d) \/ RestartProxyWithRateLimit(d) \/ Shutdown(d)
  <2>1. /\ up[d] /\ UNCHANGED <<objects, entry, up>>
        /\ \A e \in Decks \ {d} : started'[e] = started[e]
    BY <1>1 DEF Start, RestartProxy, RestartProxyWithRateLimit, Shutdown, Free, TypeOK
  <2>2. \A e \in Decks \ {d} : op'[e] = op[e]
    BY <1>1, OwnsNext
  <2> QED
    BY <2>1, <2>2 DEF SameProxy, objects
<1>2. CASE IsRunning(d) \/ Tick(d)
  BY <1>2 DEF IsRunning, Tick, Free, SameProxy, objects
<1>3. CASE ResetCounters(d)
  BY <1>3 DEF ResetCounters, Free, SameProxy, Owns, TypeOK, decks
<1>4. CASE StopListener(d) \/ StopServer(d) \/ RemovePath(d) \/ SetRunning(d)
  <2>1. op[d].proxy \in 0..MaxProxies
    BY OpFields
  <2>2. /\ up[d]
        /\ \A p \in Proxies : p # op[d].proxy => SameProxy(p)
    BY <1>4, <2>1 DEF StopListener, StopServer, RemovePath, SetRunning, At, CloseListener,
         SameProxy, TypeOK, objects
  <2>3. /\ UNCHANGED started
        /\ UNCHANGED entry \/ (\E p : entry' = [entry EXCEPT ![d] = p])
        /\ UNCHANGED up \/ up' = [up EXCEPT ![d] = FALSE]
    BY <1>4 DEF StopListener, StopServer, RemovePath, SetRunning, Install
  <2>4. \A e \in Decks \ {d} : op'[e] = op[e]
    BY <1>4, OwnsNext DEF Work
  <2> QED
    BY <2>1, <2>2, <2>3, <2>4 DEF Owns, TypeOK, Proxies
<1>5. CASE Check(d)
  <2>1. /\ up[d] /\ UNCHANGED <<up, started, alive, listening, reader>> /\ made \in Nat
        /\ total' = [total EXCEPT ![made + 1] = op[d].total]
        /\ UNCHANGED status \/ status' = [status EXCEPT ![made + 1] = "running"]
    BY <1>5 DEF Check, At, TypeOK
  <2>2. \A p \in Proxies : p <= made => SameProxy(p)
    <3>1. \A p \in Proxies : p <= made => p # made + 1
      BY <2>1 DEF Proxies
    <3>2. \A p \in Proxies : p # made + 1 => total'[p] = total[p] /\ status'[p] = status[p]
      BY <2>1 DEF TypeOK
    <3> QED
      BY <2>1, <3>1, <3>2 DEF SameProxy
  <2>3. \A e \in Decks \ {d} : entry'[e] = entry[e] /\ op'[e] = op[e]
    BY <1>5, OwnsNext DEF Work
  <2> QED
    BY <2>1, <2>2, <2>3
<1>6. CASE Launch(d) \/ Listen(d)
  <2>1. /\ up[d] /\ op[d].proxy \in Proxies
    BY <1>6, InHand DEF Launch, Listen, At
  <2>2. UNCHANGED <<up, started>>
    BY <1>6 DEF Launch, Listen
  <2>3. UNCHANGED alive \/ \E b : alive' = [alive EXCEPT ![op[d].proxy] = b]
    BY <1>6 DEF Launch, Listen
  <2>4. ASSUME Fail(d)
        PROVE  /\ UNCHANGED status \/ (\E v : status' = [status EXCEPT ![op[d].proxy] = v])
               /\ UNCHANGED total \/ (\E v : total' = [total EXCEPT ![op[d].proxy] = v])
    BY <2>4 DEF Fail
  <2>5. /\ UNCHANGED status \/ (\E v : status' = [status EXCEPT ![op[d].proxy] = v])
        /\ UNCHANGED total \/ (\E v : total' = [total EXCEPT ![op[d].proxy] = v])
        /\ UNCHANGED listening \/ (\E v : listening' = [listening EXCEPT ![op[d].proxy] = v])
        /\ UNCHANGED reader \/ (\E v : reader' = [reader EXCEPT ![op[d].proxy] = v])
    <3>1. Fail(d) \/ UNCHANGED <<status, total>>
      BY <1>6, Zenon DEF Launch, Listen
    <3>2. /\ UNCHANGED listening \/ (\E v : listening' = [listening EXCEPT ![op[d].proxy] = v])
          /\ UNCHANGED reader \/ (\E v : reader' = [reader EXCEPT ![op[d].proxy] = v])
      BY <1>6 DEF Launch, Listen
    <3> QED
      BY <2>4, <3>1, <3>2
  <2>6. \A p \in Proxies : p # op[d].proxy => SameProxy(p)
    BY <2>1, <2>3, <2>5 DEF SameProxy, TypeOK
  <2>7. \A e \in Decks \ {d} : entry'[e] = entry[e] /\ op'[e] = op[e]
    BY <1>6, OwnsNext DEF Work
  <2> QED
    BY <2>1, <2>2, <2>6, <2>7 DEF Owns, Proxies
<1>7. CASE Exit(d)
  <2>1. up[d] /\ UNCHANGED <<status, total, started>> /\ up' = [up EXCEPT ![d] = FALSE]
    BY <1>7 DEF Exit
  <2>2. \A p \in Proxies : ~Owns(d, p) => SameProxy(p)
    BY <1>7 DEF Exit, OfDeck, Owns, SameProxy, TypeOK, Proxies
  <2>3. \A e \in Decks \ {d} : entry'[e] = entry[e] /\ op'[e] = op[e]
    BY <1>7, OwnsNext
  <2> QED
    BY <2>1, <2>2, <2>3 DEF TypeOK
<1> QED
  BY <1>1, <1>2, <1>3, <1>4, <1>5, <1>6, <1>7 DEF DeckStep, Monitor, Work

\* So the other decks keep what they hold.
LEMMA OtherDecks ==
  ASSUME TypeOK, PoolInv, NEW d \in Decks, DeckStep(d), NEW x \in Decks \ {d}, up'[x]
  PROVE  Good(x)'
<1>1. /\ up[d] /\ up[x] /\ entry'[x] = entry[x] /\ op'[x] = op[x] /\ started'[x] = started[x]
  BY Others
<1>2. \A p \in Proxies : Owns(x, p) => SameProxy(p)
  BY <1>1, Others DEF PoolInv, Apart
<1>3. /\ op[x].proxy # 0 => SameProxy(op[x].proxy)
      /\ entry[x] # 0 => SameProxy(entry[x])
  BY SMTT(30), <1>2, OpFields DEF Owns, Proxies, TypeOK
<1>4. Good(x)
  BY <1>1, GoodIs
<1>5. Holds(x)'
  BY <1>1, <1>3, <1>4 DEF Good, Holds, SameProxy
<1> QED
  BY <1>1, <1>3, <1>4, <1>5 DEF Good, SameProxy

\* A start that fails.
LEMMA FailGood ==
  ASSUME TypeOK, PoolInv, NEW d \in Decks, up[d], Fail(d), started' = started,
         op[d].at \in {"launch", "listen"}, OpIs(d, "idle", "none", 0, 0)
  PROVE  Good(d)'
<1> DEFINE p == op[d].proxy
           t == op[d].total
<1>1. /\ Good(d) /\ p \in Proxies /\ t \in Nat /\ t < MaxTotalFailures /\ entry[d] = 0
      /\ started[d]
  BY GoodIs, InHand, OpFields DEF Good, Holds
<1>2. op'[d] = Idle
  BY DEF OpIs
<1>3. CASE op[d].kind = "retry"
  <2>1. /\ total' = [total EXCEPT ![p] = t + 1] /\ entry' = [entry EXCEPT ![d] = p]
        /\ status' = [status EXCEPT ![p] = IF t + 1 >= MaxTotalFailures THEN "permanent"
                                                                        ELSE "failed"]
    BY <1>3 DEF Fail, Install
  <2>2. /\ total'[p] = t + 1 /\ entry'[d] = p
        /\ status'[p] = (IF t + 1 >= MaxTotalFailures THEN "permanent" ELSE "failed")
    BY <1>1, <2>1 DEF TypeOK
  <2>3. status'[p] # "permanent" => t + 1 < MaxTotalFailures
    BY <1>1, <2>2, PoolAssumption
  <2> QED
    BY <1>2, <2>2, <2>3, <1>1, PoolAssumption DEF Good, Holds, Idle
<1>4. CASE op[d].kind # "retry"
  <2>1. UNCHANGED entry
    BY <1>4 DEF Fail
  <2> QED
    BY <1>1, <1>2, <2>1, PoolAssumption DEF Good, Holds, Idle
<1> QED
  BY <1>3, <1>4

\* The deck that steps knows of its proxy what the next step needs.
LEMMA OwnDeck ==
  ASSUME TypeOK, PoolInv, NEW d \in Decks, DeckStep(d), up'[d]
  PROVE  Good(d)'
<1> USE DEF Good, Holds
<1>0. up[d] /\ Good(d)
  BY Others, GoodIs
<1>1. CASE Start(d)
  <2>1. /\ UNCHANGED <<status, total, alive, listening, reader, entry>>
        /\ started'[d] /\ entry[d] = 0
    BY <1>0, <1>1 DEF Start, objects, TypeOK
  <2>2. OpIs(d, "check", "start", 0, 0)
    BY <1>1, OpSteps
  <2> QED
    BY <2>1, <2>2, PoolAssumption DEF OpIs
<1>2. CASE IsRunning(d)
  BY <1>0, <1>2 DEF IsRunning, objects
<1>3. ASSUME Free(d), Replaceable(d), NEW k \in {"restart", "retry"}, NEW t \in Nat,
             t < MaxTotalFailures, OpIs(d, "close", k, entry[d], t),
             UNCHANGED <<objects, entry, started>>
      PROVE  Good(d)'
  BY <1>0, <1>3 DEF Free, Replaceable, OpIs, objects, Idle
<1>4. CASE RestartProxy(d)
  <2>1. Free(d) /\ UNCHANGED <<objects, entry, started>>
    BY <1>4 DEF RestartProxy
  <2>2. CASE UNCHANGED op
    BY <1>0, <2>1, <2>2 DEF objects
  <2> QED
    BY <1>3, <1>4, <2>1, <2>2, OpSteps, PoolAssumption
<1>5. CASE RestartProxyWithRateLimit(d)
  <2>1. Free(d) /\ UNCHANGED <<objects, entry, started>>
    BY <1>5 DEF RestartProxyWithRateLimit
  <2>2. CASE UNCHANGED op
    BY <1>0, <2>1, <2>2 DEF objects
  <2>3. ASSUME Replaceable(d) PROVE total[entry[d]] \in Nat /\ total[entry[d]] < MaxTotalFailures
    BY <1>0, <2>3 DEF Replaceable, TypeOK, Proxies
  <2> QED
    BY <1>3, <1>5, <2>1, <2>2, <2>3, OpSteps
<1>6. CASE ResetCounters(d)
  <2>1. entry[d] \in Proxies /\ total' = [total EXCEPT ![entry[d]] = 0] /\ op[d] = Idle
    BY <1>6 DEF ResetCounters, Free, TypeOK, Proxies
  <2>2. UNCHANGED <<status, alive, listening, reader, entry, op, started>>
    BY <1>6 DEF ResetCounters, decks
  <2> QED
    BY <1>0, <2>1, <2>2, PoolAssumption DEF TypeOK, Idle
<1>7. CASE Shutdown(d)
  BY <1>0, <1>7, OpSteps DEF Shutdown, Free, OpIs, objects, Idle
<1>8. CASE Exit(d)
  BY <1>8 DEF Exit, TypeOK
<1>9. CASE Tick(d)
  BY <1>0, <1>9 DEF Tick, objects
<1>10. CASE StopListener(d)
  <2>1. op[d].proxy \in Proxies /\ op[d].at = "close"
    BY <1>10, InHand DEF StopListener, At
  <2>2. /\ UNCHANGED <<status, total, alive, reader, entry, started>>
        /\ listening' = [listening EXCEPT ![op[d].proxy] = FALSE]
    BY <1>10 DEF StopListener, CloseListener
  <2>3. OpIs(d, "kill", op[d].kind, op[d].proxy, op[d].total)
    BY <1>10, OpSteps
  <2>4. listening'[op[d].proxy] = FALSE
    BY <2>1, <2>2 DEF TypeOK
  <2> QED
    BY <1>0, <2>1, <2>2, <2>3, <2>4 DEF OpIs
<1>11. CASE StopServer(d)
  <2>1. op[d].proxy \in Proxies /\ op[d].at = "kill" /\ op[d].kind # "shutdown"
    BY <1>11, InHand DEF StopServer, At, TypeOK
  <2>2. /\ UNCHANGED <<total, listening, reader, started>>
        /\ alive' = [alive EXCEPT ![op[d].proxy] = FALSE]
        /\ entry' = [entry EXCEPT ![d] = 0]
    BY <1>11, <2>1 DEF StopServer
  <2>3. OpIs(d, "check", op[d].kind, op[d].proxy, op[d].total)
    BY <1>11, <2>1, OpSteps
  <2>4. alive'[op[d].proxy] = FALSE /\ entry'[d] = 0
    BY <2>1, <2>2 DEF TypeOK
  <2> QED
    BY <1>0, <2>1, <2>2, <2>3, <2>4 DEF OpIs
<1>12. CASE Check(d)
  <2>1. made + 1 \in Proxies /\ op[d].at = "check" /\ made + 1 > made /\ made + 1 # 0
    BY <1>12, PoolAssumption DEF Check, At, TypeOK, Proxies
  <2>2. /\ total' = [total EXCEPT ![made + 1] = op[d].total]
        /\ UNCHANGED <<alive, listening, reader, started>>
    BY <1>12 DEF Check
  <2>3. /\ ~alive[made + 1] /\ ~listening[made + 1] /\ reader[made + 1] = "none"
        /\ status[made + 1] = "starting"
    BY <2>1 DEF PoolInv, Fresh
  <2>4. total'[made + 1] = op[d].total /\ op[d].total < MaxTotalFailures
    BY <1>0, <2>1, <2>2 DEF TypeOK
  <2>5. CASE SocketAlive
    <3>1. entry' = [entry EXCEPT ![d] = made + 1] /\ status' = [status EXCEPT ![made + 1] = "running"]
      BY <1>12, <2>5 DEF Check, Install
    <3>2. OpIs(d, "idle", "none", 0, 0)
      BY <1>12, <2>5, OpSteps
    <3> QED
      BY <1>0, <2>1, <2>2, <2>4, <3>1, <3>2, PoolAssumption DEF OpIs, Idle, TypeOK
  <2>6. CASE ~SocketAlive
    <3>1. UNCHANGED <<entry, status>>
      BY <1>12, <2>6 DEF Check
    <3>2. OpIs(d, "remove", op[d].kind, made + 1, op[d].total)
      BY <1>12, <2>6, OpSteps
    <3> QED
      BY <1>0, <2>1, <2>2, <2>3, <2>4, <3>1, <3>2 DEF OpIs
  <2> QED
    BY <2>5, <2>6
<1>13. CASE RemovePath(d)
  BY <1>0, <1>13, OpSteps DEF RemovePath, At, OpIs, objects
<1>14. CASE Launch(d)
  <2>1. op[d].proxy \in Proxies /\ op[d].at = "launch" /\ UNCHANGED started
    BY <1>14, InHand DEF Launch, At
  <2>2. CASE Fail(d) /\ OpIs(d, "idle", "none", 0, 0)
    BY <1>0, <2>1, <2>2, FailGood
  <2>3. CASE OpIs(d, "listen", op[d].kind, op[d].proxy, op[d].total)
    <3>1. ~Fail(d)
      <4>1. Fail(d) => op'[d] = Idle
        BY DEF Fail, Install, TypeOK
      <4> QED
        BY <2>3, <4>1 DEF OpIs, Idle
    <3>2. UNCHANGED <<total, status, entry, listening, reader>>
      BY <1>14, <3>1 DEF Launch
    <3> QED
      BY <1>0, <2>1, <2>3, <3>2 DEF OpIs
  <2> QED
    BY <1>14, <2>2, <2>3, OpSteps
<1>15. CASE Listen(d)
  <2>1. op[d].proxy \in Proxies /\ op[d].at = "listen" /\ UNCHANGED started
    BY <1>15, InHand DEF Listen, At
  <2>2. CASE path # 0
    <3>1. Fail(d)
      BY <1>15, <2>2, Zenon DEF Listen
    <3> QED
      BY <1>0, <1>15, <2>1, <2>2, <3>1, FailGood, OpSteps
  <2>3. CASE path = 0
    <3>1. UNCHANGED <<total, status, entry>>
      BY <1>15, <2>3 DEF Listen
    <3>2. OpIs(d, "run", op[d].kind, op[d].proxy, op[d].total)
      BY <1>15, <2>3, OpSteps
    <3> QED
      BY <1>0, <2>1, <3>1, <3>2 DEF OpIs
  <2> QED
    BY <2>2, <2>3
<1>16. CASE SetRunning(d)
  <2>1. op[d].proxy \in Proxies /\ op[d].at = "run" /\ op[d].proxy # 0
    BY <1>16, InHand, PoolAssumption DEF SetRunning, At, Proxies
  <2>2. /\ UNCHANGED <<total, started>> /\ entry' = [entry EXCEPT ![d] = op[d].proxy]
    BY <1>16 DEF SetRunning, Install
  <2>3. OpIs(d, "idle", "none", 0, 0)
    BY <1>16, OpSteps
  <2> QED
    BY <1>0, <2>1, <2>2, <2>3, PoolAssumption DEF OpIs, Idle, TypeOK
<1> QED
  BY <1>1, <1>2, <1>4, <1>5, <1>6, <1>7, <1>8, <1>9, <1>10, <1>11, <1>12, <1>13, <1>14, <1>15,
     <1>16 DEF DeckStep, Monitor, Work

LEMMA UnreadNext ==
  ASSUME TypeOK, PoolInv, [Next]_vars, NEW q \in Proxies PROVE Unread(q)'
<1> USE DEF Unread
<1>0. Unread(q) /\ \A d \in Decks : up[d] => Good(d)
  BY GoodIs
<1>1. CASE UNCHANGED <<status, reader>>
  BY <1>0, <1>1
<1>2. ASSUME NEW d \in Decks, StopServer(d) PROVE Unread(q)'
  BY <1>0, <1>2 DEF StopServer, TypeOK
<1>3. ASSUME NEW d \in Decks, Check(d) PROVE Unread(q)'
  <2>1. UNCHANGED status \/ status' = [status EXCEPT ![made + 1] = "running"]
    BY <1>3 DEF Check
  <2>2. UNCHANGED reader
    BY <1>3 DEF Check
  <2> QED
    BY <1>0, <2>1, <2>2 DEF TypeOK
<1>4. ASSUME NEW d \in Decks, Launch(d) \/ Listen(d) PROVE Unread(q)'
  <2>1. /\ op[d].proxy \in Proxies /\ reader[op[d].proxy] = "none"
        /\ status[op[d].proxy] # "permanent"
    BY <1>0, <1>4, InHand DEF Launch, Listen, At, Good, Holds
  <2>2. CASE UNCHANGED reader
    <3>1. Fail(d) \/ UNCHANGED status
      BY <1>4, Zenon DEF Launch, Listen
    <3>2. UNCHANGED status \/ \E v : status' = [status EXCEPT ![op[d].proxy] = v]
      BY <3>1 DEF Fail
    <3> QED
      BY <1>0, <2>1, <2>2, <3>2 DEF TypeOK
  <2>3. CASE reader' # reader
    <3>1. UNCHANGED status /\ reader' = [reader EXCEPT ![op[d].proxy] = "scan"]
      BY <1>4, <2>3 DEF Launch, Listen
    <3> QED
      BY <1>0, <2>1, <3>1 DEF TypeOK
  <2> QED
    BY <2>2, <2>3
<1>5. ASSUME NEW d \in Decks, SetRunning(d) PROVE Unread(q)'
  BY <1>0, <1>5 DEF SetRunning, TypeOK
<1>6. ASSUME NEW d \in Decks, Exit(d) PROVE Unread(q)'
  <2>1. UNCHANGED status /\ reader'[q] \in {"done", reader[q]}
    BY <1>6 DEF Exit
  <2> QED
    BY <1>0, <2>1
<1>7. ASSUME NEW p \in Proxies, MarkFailed(p) PROVE Unread(q)'
  BY <1>0, <1>7 DEF MarkFailed, TypeOK
<1>8. ASSUME NEW p \in Proxies, CloseFailed(p) PROVE Unread(q)'
  BY <1>0, <1>8 DEF CloseFailed, TypeOK
<1>12. ASSUME NEW p \in Proxies, ScanFails(p) PROVE Unread(q)'
  BY <1>0, <1>12 DEF ScanFails, TypeOK
<1>9. ASSUME NEW p \in Proxies, Die(p) PROVE Unread(q)'
  BY <1>1, <1>9 DEF Die
<1>10. ASSUME NEW d \in Decks,
              \/ Start(d) \/ IsRunning(d) \/ RestartProxy(d) \/ ResetCounters(d)
              \/ Shutdown(d) \/ Monitor(d) \/ StopListener(d) \/ RemovePath(d)
       PROVE  UNCHANGED <<status, reader>>
  BY <1>10 DEF Start, IsRunning, RestartProxy, ResetCounters, Shutdown, Monitor, Tick,
       RestartProxyWithRateLimit, StopListener, RemovePath, objects
<1>11. CASE UNCHANGED vars
  BY <1>1, <1>11 DEF vars, objects
<1> QED
  BY <1>1, <1>2, <1>3, <1>4, <1>5, <1>6, <1>7, <1>8, <1>9, <1>10, <1>11, <1>12 DEF Next, Work, Read

\* A server that dies and a reader that ends take nothing from a deck.
LEMMA ProxyGood ==
  ASSUME TypeOK, PoolInv, NEW p \in Proxies, Read(p) \/ ScanFails(p) \/ Die(p), NEW d \in Decks, up'[d]
  PROVE  Good(d)'
<1>1. UNCHANGED <<decks, total>>
  BY DEF Read, ScanFails, MarkFailed, CloseFailed, Die
<1>2. Good(d) /\ \A q \in Proxies : Unread(q)
  BY <1>1, GoodIs DEF decks
<1>3. \A q \in Proxies :
        /\ alive'[q] => alive[q]
        /\ listening'[q] => listening[q]
        /\ status'[q] = "permanent" <=> status[q] = "permanent"
        /\ reader[q] = "none" => reader'[q] = "none"
  <2>1. CASE MarkFailed(p) \/ ScanFails(p)
    <3>1. status[p] # "permanent"
      BY <1>2, <2>1 DEF MarkFailed, ScanFails, Unread
    <3> QED
      BY <2>1, <3>1 DEF MarkFailed, ScanFails, TypeOK
  <2>2. CASE CloseFailed(p)
    BY <2>2 DEF CloseFailed, CloseListener, TypeOK
  <2>3. CASE Die(p)
    BY <2>3 DEF Die, TypeOK
  <2> QED
    BY <2>1, <2>2, <2>3 DEF Read
<1>4. /\ op[d].proxy # 0 => op[d].proxy \in Proxies
      /\ entry[d] # 0 => entry[d] \in Proxies
  BY OpFields DEF TypeOK, Proxies
<1>5. op'[d] = op[d] /\ entry'[d] = entry[d] /\ started'[d] = started[d]
  BY <1>1 DEF decks
<1>6. Holds(d)'
  <2> DEFINE o == op[d].proxy
  <2>1. o # 0 => /\ alive'[o] => alive[o]
                 /\ listening'[o] => listening[o]
                 /\ status'[o] = "permanent" <=> status[o] = "permanent"
                 /\ reader[o] = "none" => reader'[o] = "none"
                 /\ total'[o] = total[o]
    BY <1>1, <1>3, <1>4
  <2>2. Holds(d)
    BY <1>2 DEF Good
  <2> QED
    BY <1>5, <2>1, <2>2 DEF Holds
<1> QED
  BY <1>1, <1>2, <1>3, <1>4, <1>5, <1>6 DEF Good

LEMMA DecksNext ==
  ASSUME TypeOK, PoolInv, [Next]_vars, NEW x \in Decks, up'[x]
  PROVE  x \in scenario.decks'
<1>1. \A d \in Decks : up[d] => d \in scenario.decks
  BY DEF PoolInv
<1>2. ASSUME NEW d \in Decks, DeckStep(d) PROVE x \in scenario.decks'
  <2>1. up[x]
    BY <1>2, Others
  <2>2. scenario' = scenario \/ \E n : \/ scenario' = [scenario EXCEPT !.probes = n]
                                       \/ scenario' = [scenario EXCEPT !.exits = n]
                                       \/ scenario' = [scenario EXCEPT !.failures = n]
    BY <1>2 DEF DeckStep, Monitor, Work, Start, IsRunning, RestartProxy, ResetCounters,
         Shutdown, Exit, Tick, RestartProxyWithRateLimit, StopListener, StopServer, Check,
         RemovePath, Launch, Listen, SetRunning
  <2> QED
    BY <1>1, <2>1, <2>2 DEF PoolInv, ScenarioOK
<1>3. ASSUME NEW p \in Proxies, Read(p) \/ ScanFails(p) \/ Die(p) PROVE x \in scenario.decks'
  <2>1. UNCHANGED up /\ (scenario' = scenario \/ \E n : \/ scenario' = [scenario EXCEPT !.deaths = n]
                                                           \/ scenario' = [scenario EXCEPT !.longs = n])
    BY <1>3 DEF Read, ScanFails, MarkFailed, CloseFailed, Die, decks
  <2> QED
    BY <1>1, <2>1 DEF PoolInv, ScenarioOK
<1>4. CASE UNCHANGED vars
  BY <1>1, <1>4 DEF vars, decks
<1> QED
  BY <1>2, <1>3, <1>4 DEF Next, DeckStep

LEMMA PoolNext == ASSUME TypeOK, PoolInv, [Next]_vars PROVE TypeOK' /\ PoolInv'
<1>1. TypeOK' /\ ScenarioOK' /\ Fresh' /\ Apart'
  BY TypeNext, ScenarioNext, FreshNext, ApartNext
<1>2. ASSUME NEW d \in Decks, up'[d] PROVE Good(d)'
  <2>1. CASE UNCHANGED vars
    <3>1. Good(d) /\ up[d]
      BY <1>2, <2>1, GoodIs DEF vars, decks
    <3> QED
      BY <2>1, <3>1 DEF Good, Holds, vars, objects, decks
  <2>2. ASSUME NEW e \in Decks, DeckStep(e) PROVE Good(d)'
    BY <1>2, <2>2, OwnDeck, OtherDecks
  <2>3. ASSUME NEW p \in Proxies, Read(p) \/ ScanFails(p) \/ Die(p) PROVE Good(d)'
    BY <1>2, <2>3, ProxyGood
  <2> QED
    BY <2>1, <2>2, <2>3 DEF Next, DeckStep
<1>3. Counted' /\ \A d \in Decks : up'[d] => Holds(d)'
  BY <1>2, UnreadNext, IsGood DEF Good, Counted, Unread
<1> QED
  BY <1>1, <1>3, DecksNext DEF PoolInv

-----------------------------------------------------------------------------
\* Nothing is forgotten.

LEMMA OfDeckIs ==
  ASSUME NEW d \in Decks, NEW p \in Proxies
  PROVE  p \in OfDeck(d) <=> Owns(d, p)
BY DEF OfDeck, Owns, Proxies

\* What a deck owned and let go neither runs nor listens.
LEMMA LetGo ==
  ASSUME TypeOK, PoolInv, NEW d \in Decks, DeckStep(d), NEW q \in Proxies, Owns(d, q),
         alive'[q] \/ listening'[q]
  PROVE  up'[d] /\ Owns(d, q)'
<1>0. /\ up[d] /\ Good(d)
      /\ op[d].at = "idle" => op[d].proxy = 0
      /\ q # 0
  BY Others, GoodIs DEF Good, Holds, Idle, Owns
<1>1. ASSUME UNCHANGED <<entry, up>>, op[d].at = "idle" PROVE up'[d] /\ Owns(d, q)'
  BY <1>0, <1>1 DEF Owns
<1>2. CASE Start(d) \/ IsRunning(d) \/ RestartProxy(d) \/ ResetCounters(d) \/ Shutdown(d)
           \/ Monitor(d)
  <2>1. UNCHANGED <<entry, up>> /\ op[d].at = "idle"
    BY <1>2 DEF Start, IsRunning, RestartProxy, ResetCounters, Shutdown, Monitor, Tick,
         RestartProxyWithRateLimit, Free, Idle, decks
  <2> QED
    BY <1>1, <2>1
<1>3. CASE Exit(d)
  BY <1>3, OfDeckIs DEF Exit
<1>4. CASE StopListener(d)
  <2>1. UNCHANGED <<entry, up>> /\ OpIs(d, "kill", op[d].kind, op[d].proxy, op[d].total)
    BY <1>4, OpSteps DEF StopListener
  <2> QED
    BY <1>0, <2>1 DEF Owns, OpIs
<1>5. CASE StopServer(d)
  <2>1. op[d].at = "kill" /\ op[d].proxy \in Proxies
    BY <1>5, InHand DEF StopServer, At
  <2>2. q = op[d].proxy /\ ~listening[q]
    BY <1>0, <2>1 DEF Good, Holds, Owns
  <2>3. UNCHANGED listening /\ alive' = [alive EXCEPT ![op[d].proxy] = FALSE]
    BY <1>5 DEF StopServer
  <2> QED
    BY <2>1, <2>2, <2>3 DEF TypeOK
<1>6. CASE Check(d)
  <2>1. /\ op[d].at = "check" /\ UNCHANGED <<alive, listening>>
    BY <1>6 DEF Check, At
  <2> QED
    BY <1>0, <2>1 DEF Good, Holds, Owns
<1>7. CASE RemovePath(d)
  <2>1. /\ op[d].at = "remove" /\ UNCHANGED <<alive, listening>>
    BY <1>7 DEF RemovePath, At, objects
  <2> QED
    BY <1>0, <2>1 DEF Good, Holds, Owns
<1>8. CASE Launch(d)
  <2>1. op[d].at = "launch" /\ op[d].proxy \in Proxies /\ UNCHANGED <<listening, up>>
    BY <1>8, InHand DEF Launch, At
  <2>2. q = op[d].proxy /\ ~listening[q] /\ ~alive[q]
    BY <1>0, <2>1 DEF Good, Holds, Owns
  <2>3. UNCHANGED alive \/ Go(d, "listen")
    BY <1>8 DEF Launch
  <2>4. Go(d, "listen")
    BY <2>1, <2>2, <2>3
  <2>5. OpIs(d, "listen", op[d].kind, op[d].proxy, op[d].total)
    BY <2>4, GoOp
  <2> QED
    BY <1>0, <2>1, <2>2, <2>5 DEF Owns, OpIs
<1>9. CASE Listen(d)
  <2>1. op[d].at = "listen" /\ op[d].proxy \in Proxies /\ UNCHANGED up
    BY <1>9, InHand DEF Listen, At
  <2>2. q = op[d].proxy /\ ~listening[q]
    BY <1>0, <2>1 DEF Good, Holds, Owns
  <2>3. CASE path # 0
    <3>1. alive' = [alive EXCEPT ![op[d].proxy] = FALSE] /\ UNCHANGED listening
      BY <1>9, <2>3 DEF Listen
    <3> QED
      BY <2>1, <2>2, <3>1 DEF TypeOK
  <2>4. CASE path = 0
    <3>1. OpIs(d, "run", op[d].kind, op[d].proxy, op[d].total)
      BY <1>9, <2>4, OpSteps
    <3> QED
      BY <1>0, <2>1, <2>2, <3>1 DEF Owns, OpIs
  <2> QED
    BY <2>3, <2>4
<1>10. CASE SetRunning(d)
  <2>1. /\ op[d].at = "run" /\ op[d].proxy \in Proxies /\ UNCHANGED up
        /\ entry' = [entry EXCEPT ![d] = op[d].proxy]
    BY <1>10, InHand DEF SetRunning, At, Install
  <2>2. q = op[d].proxy
    BY <1>0, <2>1 DEF Good, Holds, Owns
  <2> QED
    BY <1>0, <2>1, <2>2 DEF Owns, TypeOK
<1> QED
  BY <1>2, <1>3, <1>4, <1>5, <1>6, <1>7, <1>8, <1>9, <1>10 DEF DeckStep, Work

LEMMA ForgottenNext ==
  ASSUME TypeOK, PoolInv, NothingForgotten, [Next]_vars PROVE NothingForgotten'
<1>0. SUFFICES ASSUME NEW q \in Proxies, alive'[q] \/ listening'[q]
               PROVE  \E d \in Decks : up'[d] /\ Owns(d, q)'
  BY OfDeckIs DEF NothingForgotten, OfDeck, Owns, Proxies
<1>1. alive[q] \/ listening[q] => \E e \in Decks : up[e] /\ Owns(e, q)
  BY OfDeckIs DEF NothingForgotten
<1>2. ASSUME NEW d \in Decks, DeckStep(d) PROVE \E e \in Decks : up'[e] /\ Owns(e, q)'
  <2>1. CASE Owns(d, q)
    BY <1>0, <1>2, <2>1, LetGo
  <2>2. CASE ~Owns(d, q) /\ q <= made
    <3>1. alive[q] \/ listening[q]
      BY <1>0, <1>2, <2>2, Others DEF SameProxy
    <3>2. PICK e \in Decks : up[e] /\ Owns(e, q)
      BY <1>1, <3>1
    <3>3. e # d
      BY <2>2, <3>2
    <3> QED
      BY <1>2, <3>2, <3>3, Others DEF Owns
  <2>3. CASE q > made
    <3>1. ~(q > made')
      BY <1>0, FreshNext DEF Fresh
    <3>2. Check(d)
      <4>1. Check(d) \/ UNCHANGED made
        BY <1>2 DEF DeckStep, Monitor, Work, Start, IsRunning, RestartProxy, ResetCounters,
             Shutdown, Exit, Tick, RestartProxyWithRateLimit, StopListener, StopServer,
             RemovePath, Launch, Listen, SetRunning, objects
      <4> QED
        BY <2>3, <3>1, <4>1
    <3>3. made' = made + 1 /\ UNCHANGED up /\ made \in Nat /\ up[d]
      BY <3>2 DEF Check, At, TypeOK
    <3>4. q = made + 1 /\ q # 0
      BY <2>3, <3>1, <3>3 DEF Proxies
    <3>5. entry'[d] = made + 1 \/ op'[d].proxy = made + 1
      <4>1. CASE SocketAlive
        BY <3>2, <4>1 DEF Check, Install, TypeOK
      <4>2. CASE ~SocketAlive
        BY <3>2, <4>2, OpSteps DEF OpIs
      <4> QED
        BY <4>1, <4>2
    <3> QED
      BY <3>3, <3>4, <3>5 DEF Owns
  <2> QED
    BY <2>1, <2>2, <2>3 DEF Proxies, TypeOK
<1>3. ASSUME NEW p \in Proxies, Read(p) \/ ScanFails(p) \/ Die(p) PROVE \E e \in Decks : up'[e] /\ Owns(e, q)'
  <2>1. UNCHANGED decks /\ (alive[q] \/ listening[q])
    BY <1>0, <1>3 DEF Read, ScanFails, MarkFailed, CloseFailed, CloseListener, Die, TypeOK
  <2> QED
    BY <1>1, <2>1 DEF Owns, decks
<1>4. CASE UNCHANGED vars
  BY <1>0, <1>1, <1>4 DEF Owns, vars, objects, decks
<1> QED
  BY <1>2, <1>3, <1>4 DEF Next, DeckStep

-----------------------------------------------------------------------------
\* The path of a deck that has it for itself.

\* Where one deck runs, what listens has the path.
LoneInv ==
  \A d \in Decks : scenario.decks = {d} => \A p \in Proxies : listening[p] => path = p

\* A listener is closed.
LEMMA CloseLone ==
  ASSUME TypeOK, NEW p \in Proxies, CloseListener(p),
         \A q \in Proxies : listening[q] => path = q
  PROVE  \A q \in Proxies : listening'[q] => path' = q
BY DEF CloseListener, TypeOK

LEMMA LoneNext ==
  ASSUME TypeOK, PoolInv, NothingForgotten, LoneInv, [Next]_vars PROVE LoneInv'
<1>0. SUFFICES ASSUME NEW d \in Decks, scenario'.decks = {d}
               PROVE  \A q \in Proxies : listening'[q] => path' = q
  BY DEF LoneInv
<1>1. scenario.decks = {d}
  <2>1. scenario' = scenario \/ \E n : \/ scenario' = [scenario EXCEPT !.probes = n]
                                       \/ scenario' = [scenario EXCEPT !.exits = n]
                                       \/ scenario' = [scenario EXCEPT !.failures = n]
                                       \/ scenario' = [scenario EXCEPT !.deaths = n]
                                       \/ scenario' = [scenario EXCEPT !.longs = n]
    BY DEF Next, Monitor, Work, Read, Start, IsRunning, RestartProxy, ResetCounters,
         Shutdown, Exit, Tick, RestartProxyWithRateLimit, StopListener, StopServer, Check,
         RemovePath, Launch, Listen, SetRunning, MarkFailed, ScanFails,
         CloseFailed, Die, vars
  <2> QED
    BY <1>0, <2>1 DEF PoolInv, ScenarioOK
<1>2. \A q \in Proxies : listening[q] => path = q
  BY <1>1 DEF LoneInv
<1>3. \A q \in Proxies : listening[q] => Owns(d, q)
  BY <1>1, OfDeckIs DEF NothingForgotten, PoolInv
<1>4. CASE UNCHANGED <<listening, path>>
  BY <1>2, <1>4
<1>5. ASSUME NEW e \in Decks, DeckStep(e) PROVE \A q \in Proxies : listening'[q] => path' = q
  <2>1. e = d /\ up[d] /\ Good(d)
    BY <1>1, <1>5, Others, GoodIs DEF PoolInv
  <2>2. CASE StopListener(e)
    BY <1>2, <2>1, <2>2, CloseLone, InHand DEF StopListener, At
  <2>3. ASSUME op[d].at \in {"kill", "remove", "launch", "listen"}
        PROVE  \A q \in Proxies : ~listening[q]
    <3>1. ~listening[op[d].proxy] /\ (entry[d] = 0 \/ entry[d] = op[d].proxy)
      BY <2>1, <2>3 DEF Good, Holds
    <3> QED
      BY <1>3, <3>1 DEF Owns
  <2>4. CASE StopServer(e) \/ RemovePath(e) \/ Launch(e)
    <3>1. \A q \in Proxies : ~listening[q]
      BY <2>1, <2>3, <2>4 DEF StopServer, RemovePath, Launch, At
    <3>2. UNCHANGED listening
      BY <2>4 DEF StopServer, RemovePath, Launch, objects
    <3> QED
      BY <3>1, <3>2
  <2>5. CASE Listen(e)
    <3>1. (\A q \in Proxies : ~listening[q]) /\ op[d].proxy \in Proxies
      BY <2>1, <2>3, <2>5, InHand DEF Listen, At
    <3>2. CASE path = 0
      <4>1. path' = op[d].proxy /\ listening' = [listening EXCEPT ![op[d].proxy] = TRUE]
        BY <2>1, <2>5, <3>2 DEF Listen
      <4> QED
        BY <3>1, <4>1 DEF TypeOK
    <3>3. CASE path # 0
      <4>1. UNCHANGED listening
        BY <2>5, <3>3 DEF Listen
      <4> QED
        BY <3>1, <4>1
    <3> QED
      BY <3>2, <3>3
  <2>6. CASE Exit(e)
    <3>1. UNCHANGED path /\ \A q \in Proxies : listening'[q] => listening[q]
      BY <2>6 DEF Exit
    <3> QED
      BY <1>2, <3>1
  <2>7. CASE \/ Start(e) \/ IsRunning(e) \/ RestartProxy(e) \/ ResetCounters(e)
             \/ Shutdown(e) \/ Monitor(e) \/ Check(e) \/ SetRunning(e)
    BY <1>4, <2>7 DEF Start, IsRunning, RestartProxy, ResetCounters, Shutdown, Monitor, Tick,
         RestartProxyWithRateLimit, Check, SetRunning, objects
  <2> QED
    BY <1>5, <2>2, <2>4, <2>5, <2>6, <2>7 DEF DeckStep, Work
<1>6. ASSUME NEW p \in Proxies, Read(p) \/ ScanFails(p) \/ Die(p)
      PROVE  \A q \in Proxies : listening'[q] => path' = q
  <2>1. CASE CloseFailed(p)
    BY <1>2, <2>1, CloseLone DEF CloseFailed
  <2>2. CASE MarkFailed(p) \/ ScanFails(p) \/ Die(p)
    BY <1>4, <2>2 DEF MarkFailed, ScanFails, Die
  <2> QED
    BY <1>6, <2>1, <2>2 DEF Read
<1>7. CASE UNCHANGED vars
  BY <1>4, <1>7 DEF vars, objects
<1> QED
  BY <1>5, <1>6, <1>7 DEF Next, DeckStep

LEMMA LoneIs == ASSUME TypeOK, LoneInv PROVE LonePathKept
BY DEF TypeOK, LoneInv, LonePathKept, Proxies

-----------------------------------------------------------------------------
\* A proxy that is disabled.

LEMMA DisabledNext ==
  ASSUME TypeOK, PoolInv, [Next]_vars, NEW d \in Decks, Disabled(d), up'[d]
  PROVE  entry'[d] = entry[d] /\ status'[entry[d]] = "permanent"
<1>0. /\ up[d] /\ entry[d] # 0 /\ entry[d] \in Proxies /\ status[entry[d]] = "permanent"
      /\ Good(d) /\ Owns(d, entry[d])
  BY GoodIs DEF Disabled, Owns, TypeOK, Proxies
<1>1. CASE UNCHANGED <<entry, status>>
  BY <1>0, <1>1
<1>2. ASSUME NEW e \in Decks \ {d}, DeckStep(e)
      PROVE  entry'[d] = entry[d] /\ status'[entry[d]] = "permanent"
  <2>1. ~Owns(e, entry[d]) /\ entry[d] <= made
    BY <1>0, <1>2, Others DEF PoolInv, Apart
  <2> QED
    BY <1>0, <1>2, <2>1, Others DEF SameProxy
<1>3. CASE DeckStep(d)
  <2>1. CASE \/ Start(d) \/ IsRunning(d) \/ RestartProxy(d) \/ ResetCounters(d)
             \/ Shutdown(d) \/ Monitor(d) \/ StopListener(d) \/ Exit(d)
    BY <1>1, <2>1 DEF Start, IsRunning, RestartProxy, ResetCounters, Shutdown, Monitor, Tick,
         RestartProxyWithRateLimit, StopListener, Exit, objects, decks
  <2>2. CASE StopServer(d)
    <3>1. op[d].at = "kill"
      BY <1>0, <2>2 DEF StopServer, At, Good, Holds
    <3>2. op[d].kind = "shutdown"
      BY <1>0, <3>1 DEF Good, Holds
    <3> QED
      BY <2>2, <3>2 DEF StopServer, TypeOK
  <2>3. CASE Check(d) \/ RemovePath(d) \/ Launch(d) \/ Listen(d) \/ SetRunning(d)
    BY <1>0, <2>3 DEF Check, RemovePath, Launch, Listen, SetRunning, At, Good, Holds
  <2> QED
    BY <1>3, <2>1, <2>2, <2>3 DEF DeckStep, Work
<1>4. ASSUME NEW p \in Proxies, MarkFailed(p) \/ ScanFails(p)
      PROVE  entry'[d] = entry[d] /\ status'[entry[d]] = "permanent"
  <2>1. p # entry[d]
    BY <1>0, <1>4, GoodIs DEF MarkFailed, ScanFails, Unread
  <2> QED
    BY <1>0, <1>4, <2>1 DEF MarkFailed, ScanFails, TypeOK, decks
<1>5. ASSUME NEW p \in Proxies, CloseFailed(p) \/ Die(p)
      PROVE  entry'[d] = entry[d] /\ status'[entry[d]] = "permanent"
  BY <1>1, <1>5 DEF CloseFailed, Die, decks
<1>6. CASE UNCHANGED vars
  BY <1>1, <1>6 DEF vars, objects, decks
<1> QED
  BY <1>2, <1>3, <1>4, <1>5, <1>6 DEF Next, DeckStep, Read

-----------------------------------------------------------------------------
\* The theorems.

LEMMA PoolInvariant == Spec => [](TypeOK /\ PoolInv)
<1>1. Init => TypeOK /\ PoolInv
  BY PoolInit
<1>2. (TypeOK /\ PoolInv) /\ [Next]_vars => (TypeOK /\ PoolInv)'
  BY PoolNext
<1> QED
  BY <1>1, <1>2, PTL DEF Spec

\* The variables keep their types; the failures counted against a proxy never pass
\* the limit (pool_simple.go 275-353).
THEOREM TypeCorrect == Spec => []TypeOK
BY PoolInvariant, PTL

\* No server and no listener outlives its place in a pool: whatever runs is in the
\* pool of a deck that is up, or in the hands of whoever holds that deck's Pool.mu,
\* for any number of decks, restarts, deaths and failing starts
\* (pool_simple.go 123-158, 275-353, socket_proxy.go 187-331).
THEOREM NothingIsForgotten == Spec => []NothingForgotten
<1>1. Init => NothingForgotten
  BY DEF Init, NothingForgotten
<1>2. TypeOK /\ PoolInv /\ NothingForgotten /\ [Next]_vars => NothingForgotten'
  BY ForgottenNext
<1> QED
  BY <1>1, <1>2, PoolInvariant, PTL DEF Spec

\* A deck that runs alone never has a proxy whose listener lost its path, whichever
\* older readers and failed starts still close and remove (socket_proxy.go 465-473,
\* 580-611).
THEOREM LonePathIsKept == Spec => []LonePathKept
<1>1. Init => LoneInv
  BY DEF Init, LoneInv
<1>2. TypeOK /\ PoolInv /\ NothingForgotten /\ LoneInv /\ [Next]_vars => LoneInv'
  BY LoneNext
<1>3. Spec => []LoneInv
  BY <1>1, <1>2, PoolInvariant, NothingIsForgotten, PTL DEF Spec
<1>4. TypeOK /\ LoneInv => LonePathKept
  BY LoneIs
<1> QED
  BY <1>3, <1>4, TypeCorrect, PTL

\* A disabled proxy stays in its place, disabled, as long as its deck runs: neither
\* a caller of IsRunning nor the monitor, acting on what it saw before, replaces it,
\* and no reader changes it (pool_simple.go 132-135, 284-287).
THEOREM PermanentStays == Spec => PermanentIsFinal
<1>1. TypeOK /\ PoolInv /\ [Next]_vars =>
        [\A d \in Decks : Disabled(d) /\ up'[d] =>
           entry'[d] = entry[d] /\ status'[entry[d]] = "permanent"]_vars
  BY DisabledNext
<1> QED
  BY <1>1, PoolInvariant, PTL DEF Spec, PermanentIsFinal
=============================================================================
