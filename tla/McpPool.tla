------------------------------ MODULE McpPool ------------------------------
(***************************************************************************)
(* The pool of MCP servers of each running deck, internal/mcppool: which   *)
(* process serves one pooled MCP, and what the Unix socket leads to.  Decks *)
(* share the path of the socket and nothing else; each starts, probes,     *)
(* restarts and stops proxies under its own Pool.mu.                       *)
(*                                                                         *)
(* A proxy object is made by every start; its listener, its server and the *)
(* goroutine that reads the server (broadcastResponses) are its own.       *)
(* Clients and messages are in McpProxy.  Left out: time (the rate limit   *)
(* and the five healthy minutes pass at any moment), several MCPs,         *)
(* sockets discovered under /tmp, where no proxy listens.                  *)
(***************************************************************************)
EXTENDS Naturals

CONSTANTS
  Decks,
  MaxProxies,        \* proxy objects (bound)
  MaxTotalFailures,  \* maxTotalRestartFailures, 10 in the code
  Scenarios          \* the decks that run, how many servers die, send a line too
                     \* long, fail to start, decks end, IsRunning is called (bounds)

Proxies == 1..MaxProxies

ASSUME PoolAssumption ==
  /\ {MaxProxies, MaxTotalFailures} \subseteq Nat \ {0}
  /\ Scenarios \subseteq [decks : SUBSET Decks, deaths : Nat, longs : Nat,
                          failures : Nat, exits : Nat, probes : Nat]

VARIABLES
  scenario,
  made,        \* proxy objects made so far
  status, total,
  hasProcess,  \* is mcpProcess set?
  alive,       \* does the server run?
  listening,   \* does the listener accept?
  reader,      \* where broadcastResponses of a proxy is
  path,        \* the proxy whose listener the socket file belongs to, or 0
  up,          \* does the deck run?
  started,     \* has it called Pool.Start?
  entry,       \* proxies[name], or 0
  op,          \* what the holder of Pool.mu does, and to which proxy
  seenDead,    \* callers of IsRunning that found a dead socket, before RestartProxy
  seenFailed   \* the monitor found a failed proxy, before it restarts it

objects == <<made, status, total, hasProcess, alive, listening, reader>>
decks == <<up, started, entry, op, seenDead, seenFailed>>
vars == <<scenario, objects, path, decks>>

Idle == [at |-> "idle", kind |-> "none", proxy |-> 0, total |-> 0]

TypeOK ==
  /\ made \in 0..MaxProxies
  /\ status \in [Proxies -> {"starting", "running", "failed", "permanent", "stopped"}]
  /\ total \in [Proxies -> 0..MaxTotalFailures]
  /\ hasProcess \in [Proxies -> BOOLEAN]
  /\ alive \in [Proxies -> BOOLEAN] /\ listening \in [Proxies -> BOOLEAN]
  /\ reader \in [Proxies -> {"none", "scan", "failed", "done"}]
  /\ path \in 0..MaxProxies
  /\ up \in [Decks -> BOOLEAN] /\ started \in [Decks -> BOOLEAN]
  /\ entry \in [Decks -> 0..MaxProxies]
  /\ op \in [Decks -> [at : {"idle", "close", "kill", "check", "remove", "launch",
                             "listen", "run"},
                       kind : {"none", "start", "restart", "retry", "shutdown"},
                       proxy : 0..MaxProxies, total : 0..MaxTotalFailures]]
  /\ seenDead \in [Decks -> Nat] /\ seenFailed \in [Decks -> BOOLEAN]

Init ==
  /\ scenario \in Scenarios
  /\ made = 0 /\ path = 0
  /\ status = [p \in Proxies |-> "starting"] /\ total = [p \in Proxies |-> 0]
  /\ hasProcess = [p \in Proxies |-> FALSE]
  /\ alive = [p \in Proxies |-> FALSE] /\ listening = [p \in Proxies |-> FALSE]
  /\ reader = [p \in Proxies |-> "none"]
  /\ up = [d \in Decks |-> d \in scenario.decks]
  /\ started = [d \in Decks |-> FALSE] /\ entry = [d \in Decks |-> 0]
  /\ op = [d \in Decks |-> Idle]
  /\ seenDead = [d \in Decks |-> 0] /\ seenFailed = [d \in Decks |-> FALSE]

\* isSocketAlive: a dial of the path is answered.
SocketAlive == path # 0 /\ listening[path]

\* Pool.mu is free.
Free(d) == up[d] /\ op[d] = Idle

\* Stop closes the listener first; closing it the first time removes the path,
\* whoever the socket file there belongs to by now.
CloseListener(p) ==
  /\ listening' = [listening EXCEPT ![p] = FALSE]
  /\ path' = IF listening[p] THEN 0 ELSE path

-----------------------------------------------------------------------------
(* Who takes Pool.mu, and what for *)

\* Pool.Start, once for each MCP when the deck comes up.
Start(d) ==
  /\ Free(d) /\ ~started[d]
  /\ started' = [started EXCEPT ![d] = TRUE]
  /\ op' = [op EXCEPT ![d] = [Idle EXCEPT !.at = "check", !.kind = "start"]]
  /\ UNCHANGED <<scenario, objects, path, up, entry, seenDead, seenFailed>>

\* IsRunning: a running proxy whose socket does not answer is to be restarted.  The
\* read lock is given up before RestartProxy takes the lock.
IsRunning(d) ==
  /\ Free(d) /\ entry[d] # 0 /\ scenario.probes > 0
  /\ status[entry[d]] = "running" /\ ~SocketAlive
  /\ seenDead' = [seenDead EXCEPT ![d] = @ + 1]
  /\ scenario' = [scenario EXCEPT !.probes = @ - 1]
  /\ UNCHANGED <<objects, path, up, started, entry, op, seenFailed>>

\* Mutant: the second look at the status is missing.
AnyEntry(d) == entry[d] # 0

Replaceable(d) == entry[d] # 0 /\ status[entry[d]] # "permanent"

RestartProxy(d) ==
  /\ Free(d) /\ seenDead[d] > 0
  /\ seenDead' = [seenDead EXCEPT ![d] = @ - 1]
  /\ op' = IF Replaceable(d)
             THEN [op EXCEPT ![d] = [at |-> "close", kind |-> "restart",
                                     proxy |-> entry[d], total |-> 0]]
             ELSE op
  /\ UNCHANGED <<scenario, objects, path, up, started, entry, seenFailed>>

\* Mutant: the monitor gives up one failure before the limit.
TickOneShort(d) ==
  /\ Free(d) /\ ~seenFailed[d] /\ entry[d] # 0
  /\ hasProcess[entry[d]] /\ status[entry[d]] = "failed"
  /\ total[entry[d]] < MaxTotalFailures - 1
  /\ seenFailed' = [seenFailed EXCEPT ![d] = TRUE]
  /\ UNCHANGED <<scenario, objects, path, up, started, entry, op, seenDead>>

\* restartFailedProxies collects the failed proxies that have a process, ...
Tick(d) ==
  /\ Free(d) /\ ~seenFailed[d] /\ entry[d] # 0
  /\ hasProcess[entry[d]] /\ status[entry[d]] = "failed"
  /\ seenFailed' = [seenFailed EXCEPT ![d] = TRUE]
  /\ UNCHANGED <<scenario, objects, path, up, started, entry, op, seenDead>>

\* ... and restarts what is under that name when it has the lock.
RestartProxyWithRateLimit(d) ==
  /\ Free(d) /\ seenFailed[d]
  /\ seenFailed' = [seenFailed EXCEPT ![d] = FALSE]
  /\ op' = IF Replaceable(d)
             THEN [op EXCEPT ![d] = [at |-> "close", kind |-> "retry",
                                     proxy |-> entry[d], total |-> total[entry[d]]]]
             ELSE op
  /\ UNCHANGED <<scenario, objects, path, up, started, entry, seenDead>>

\* The counters of a proxy that has been healthy for five minutes are reset.
ResetCounters(d) ==
  /\ Free(d) /\ entry[d] # 0
  /\ hasProcess[entry[d]] /\ status[entry[d]] = "running" /\ total[entry[d]] > 0
  /\ total' = [total EXCEPT ![entry[d]] = 0]
  /\ UNCHANGED <<scenario, made, status, hasProcess, alive, listening, reader,
                 path, decks>>

Shutdown(d) ==
  /\ Free(d) /\ entry[d] # 0 /\ scenario.exits > 0
  /\ scenario' = [scenario EXCEPT !.exits = @ - 1]
  /\ op' = [op EXCEPT ![d] = [at |-> "close", kind |-> "shutdown",
                              proxy |-> entry[d], total |-> 0]]
  /\ UNCHANGED <<objects, path, up, started, entry, seenDead, seenFailed>>
-----------------------------------------------------------------------------
(* SocketProxy.Stop and SocketProxy.Start, step by step *)

At(d, step) == up[d] /\ op[d].at = step
Go(d, step) == op' = [op EXCEPT ![d].at = step]

\* Mutant: Stop leaves the listener to the reader.
StopNoListener(d) ==
  /\ At(d, "close")
  /\ Go(d, "kill")
  /\ UNCHANGED <<scenario, objects, path, up, started, entry, seenDead, seenFailed>>

StopListener(d) ==
  /\ At(d, "close")
  /\ CloseListener(op[d].proxy)
  /\ Go(d, "kill")
  /\ UNCHANGED <<scenario, made, status, total, hasProcess, alive, reader, up,
                 started, entry, seenDead, seenFailed>>

\* The server is killed and waited for, and the path removed, also when the socket
\* is another deck's.  A deck that shut down ends; one that restarts looks again.
StopServer(d) ==
  /\ At(d, "kill")
  /\ LET p == op[d].proxy IN
       /\ alive' = [alive EXCEPT ![p] = FALSE]
       /\ status' = [status EXCEPT ![p] = "stopped"]
  /\ path' = 0
  /\ IF op[d].kind = "shutdown"
       THEN /\ up' = [up EXCEPT ![d] = FALSE]
            /\ op' = [op EXCEPT ![d] = Idle] /\ UNCHANGED entry
       ELSE /\ entry' = [entry EXCEPT ![d] = 0]
            /\ Go(d, "check") /\ UNCHANGED up
  /\ UNCHANGED <<scenario, made, total, hasProcess, listening, reader, started,
                 seenDead, seenFailed>>

\* A started proxy takes its place in the pool.
Install(d, p) ==
  /\ entry' = [entry EXCEPT ![d] = p]
  /\ op' = [op EXCEPT ![d] = Idle]

\* NewSocketProxy: a socket that answers is used as it is, and Start does nothing.
Check(d) ==
  /\ At(d, "check") /\ made < MaxProxies
  /\ LET p == made + 1 IN
       /\ made' = p
       /\ total' = [total EXCEPT ![p] = op[d].total]
       /\ IF SocketAlive
            THEN /\ status' = [status EXCEPT ![p] = "running"]
                 /\ Install(d, p)
            ELSE /\ op' = [op EXCEPT ![d].at = "remove", ![d].proxy = p]
                 /\ UNCHANGED <<status, entry>>
  /\ UNCHANGED <<scenario, hasProcess, alive, listening, reader, path, up, started,
                 seenDead, seenFailed>>

RemovePath(d) ==
  /\ At(d, "remove")
  /\ path' = 0
  /\ Go(d, "launch")
  /\ UNCHANGED <<scenario, objects, up, started, entry, seenDead, seenFailed>>

\* A start that failed: Pool.Start and RestartProxy leave no proxy behind, the
\* monitor's restart leaves one that counts the failures.  Both restarts call Stop
\* on the new proxy, which removes the path.
Fail(d) ==
  LET p == op[d].proxy IN
    /\ path' = IF op[d].kind = "start" THEN path ELSE 0
    /\ IF op[d].kind = "retry"
         THEN /\ total' = [total EXCEPT ![p] = op[d].total + 1]
              /\ status' = [status EXCEPT ![p] =
                   IF op[d].total + 1 >= MaxTotalFailures THEN "permanent"
                                                          ELSE "failed"]
              /\ Install(d, p)
         ELSE /\ op' = [op EXCEPT ![d] = Idle]
              /\ UNCHANGED <<total, status, entry>>

\* The command is not there or the log cannot be made, and there is no process; or
\* the process does not start; or it does.
Launch(d) ==
  /\ At(d, "launch")
  /\ LET p == op[d].proxy IN
       \/ /\ scenario.failures > 0
          /\ scenario' = [scenario EXCEPT !.failures = @ - 1]
          /\ \E prepared \in BOOLEAN :
               hasProcess' = [hasProcess EXCEPT ![p] = prepared]
          /\ Fail(d)
          /\ UNCHANGED alive
       \/ /\ hasProcess' = [hasProcess EXCEPT ![p] = TRUE]
          /\ alive' = [alive EXCEPT ![p] = TRUE]
          /\ Go(d, "listen")
          /\ UNCHANGED <<scenario, total, status, path, entry>>
  /\ UNCHANGED <<made, listening, reader, up, started, seenDead, seenFailed>>

\* Mutant: the server of a proxy that cannot listen is left alone.
ListenLeavesServer(d) ==
  /\ At(d, "listen")
  /\ LET p == op[d].proxy IN
       IF path = 0
         THEN /\ path' = p
              /\ listening' = [listening EXCEPT ![p] = TRUE]
              /\ reader' = [reader EXCEPT ![p] = "scan"]
              /\ Go(d, "run")
              /\ UNCHANGED <<status, total, entry>>
         ELSE Fail(d) /\ UNCHANGED <<listening, reader>>
  /\ UNCHANGED <<scenario, made, hasProcess, alive, up, started, seenDead,
                 seenFailed>>

\* The path must be free to listen on it; if it is not, the server is killed.  The
\* reader runs from here on.
Listen(d) ==
  /\ At(d, "listen")
  /\ LET p == op[d].proxy IN
       IF path = 0
         THEN /\ path' = p
              /\ listening' = [listening EXCEPT ![p] = TRUE]
              /\ reader' = [reader EXCEPT ![p] = "scan"]
              /\ Go(d, "run")
              /\ UNCHANGED <<alive, status, total, entry>>
         ELSE /\ alive' = [alive EXCEPT ![p] = FALSE]
              /\ Fail(d)
              /\ UNCHANGED <<listening, reader>>
  /\ UNCHANGED <<scenario, made, hasProcess, up, started, seenDead, seenFailed>>

\* Start calls the proxy running, whatever its reader has said of it by then.
SetRunning(d) ==
  /\ At(d, "run")
  /\ status' = [status EXCEPT ![op[d].proxy] = "running"]
  /\ Install(d, op[d].proxy)
  /\ UNCHANGED <<scenario, made, total, hasProcess, alive, listening, reader, path, up,
                 started, seenDead, seenFailed>>
-----------------------------------------------------------------------------
(* Servers, their readers, and decks that end *)

Die(p) ==
  /\ alive[p] /\ scenario.deaths > 0
  /\ scenario' = [scenario EXCEPT !.deaths = @ - 1]
  /\ alive' = [alive EXCEPT ![p] = FALSE]
  /\ UNCHANGED <<made, status, total, hasProcess, listening, reader, path, decks>>

\* broadcastResponses at the end of the server's output ...
MarkFailed(p) ==
  /\ reader[p] = "scan" /\ ~alive[p]
  /\ status' = [status EXCEPT ![p] = "failed"]
  /\ reader' = [reader EXCEPT ![p] = "failed"]
  /\ UNCHANGED <<scenario, made, total, hasProcess, alive, listening, path, decks>>

\* Its scanner also gives up on a line of more than 10 MB, of a server that lives.
ScanFails(p) ==
  /\ reader[p] = "scan" /\ alive[p] /\ scenario.longs > 0
  /\ scenario' = [scenario EXCEPT !.longs = @ - 1]
  /\ status' = [status EXCEPT ![p] = "failed"]
  /\ reader' = [reader EXCEPT ![p] = "failed"]
  /\ UNCHANGED <<made, total, hasProcess, alive, listening, path, decks>>

\* ... and, when the server has ended and is reaped and the clients are closed.
CloseFailed(p) ==
  /\ reader[p] = "failed" /\ ~alive[p]
  /\ CloseListener(p)
  /\ reader' = [reader EXCEPT ![p] = "done"]
  /\ UNCHANGED <<scenario, made, status, total, hasProcess, alive, decks>>

OfDeck(d) == {entry[d], op[d].proxy} \ {0}

\* A deck ends without Shutdown (it crashes, or leaves its pool as it is): the
\* kernel closes its listeners and leaves the path, its servers lose their stdin.
\* Its readers are gone with it.
Exit(d) ==
  /\ up[d] /\ scenario.exits > 0
  /\ scenario' = [scenario EXCEPT !.exits = @ - 1]
  /\ up' = [up EXCEPT ![d] = FALSE]
  /\ alive' = [p \in Proxies |-> p \notin OfDeck(d) /\ alive[p]]
  /\ listening' = [p \in Proxies |-> p \notin OfDeck(d) /\ listening[p]]
  /\ reader' = [p \in Proxies |-> IF p \in OfDeck(d) THEN "done" ELSE reader[p]]
  /\ op' = [op EXCEPT ![d] = Idle]
  /\ UNCHANGED <<made, status, total, hasProcess, path, started, entry, seenDead,
                 seenFailed>>
-----------------------------------------------------------------------------
Monitor(d) == Tick(d) \/ RestartProxyWithRateLimit(d)
Work(d) ==
  \/ StopListener(d) \/ StopServer(d) \/ Check(d) \/ RemovePath(d) \/ Launch(d)
  \/ Listen(d) \/ SetRunning(d)
Read(p) == MarkFailed(p) \/ CloseFailed(p)

Next ==
  \/ \E d \in Decks : \/ Start(d) \/ IsRunning(d) \/ RestartProxy(d)
                      \/ ResetCounters(d) \/ Shutdown(d) \/ Exit(d)
                      \/ Monitor(d) \/ Work(d)
  \/ \E p \in Proxies : Read(p) \/ ScanFails(p) \/ Die(p)

Spec == Init /\ [][Next]_vars

\* The monitor ticks, whoever has the lock goes on, and readers run.
Fairness ==
  /\ \A d \in Decks :
       WF_vars(Tick(d)) /\ SF_vars(RestartProxyWithRateLimit(d)) /\ WF_vars(Work(d))
  /\ \A p \in Proxies : WF_vars(Read(p))

FairSpec == Spec /\ Fairness
-----------------------------------------------------------------------------
(* Properties *)

\* No server and no listener is ever forgotten: whatever runs belongs to the proxy
\* in some deck's pool, or to the one that deck is stopping or starting.  Each pool
\* so has one child at most (TestPool_RestartLoop_ProducesOneChild), through
\* restarts whose reasons are stale by the time Pool.mu is had, starts that fail
\* half way, and other decks that take the path (pool_simple.go 123-158, 275-353).
NothingForgotten ==
  \A p \in Proxies : alive[p] \/ listening[p] =>
    \E d \in Decks : up[d] /\ p \in OfDeck(d)

\* A deck that has the path for itself never runs a proxy that cannot be reached:
\* no reader of an older proxy, and no failed start, takes the path from the proxy
\* that listens now (socket_proxy.go 465-473, 580-611).  With two decks this fails,
\* as each removes the path whoever listens there.
LonePathKept ==
  \A d \in Decks :
    scenario.decks = {d} /\ Free(d) /\ entry[d] # 0 /\ listening[entry[d]]
      => path = entry[d]

\* A proxy that was disabled for good stays so as long as its deck runs, though
\* callers of IsRunning and the monitor may have found it dead or failed before
\* (pool_simple.go 132-135, 284-287).
Disabled(d) == up[d] /\ entry[d] # 0 /\ status[entry[d]] = "permanent"
PermanentIsFinal ==
  [][\A d \in Decks : Disabled(d) /\ up'[d] =>
       entry'[d] = entry[d] /\ status'[entry[d]] = "permanent"]_vars

\* A proxy in the pool that serves: its own server runs and is read, or it stands
\* for the socket of another deck.
Served(p) == IF hasProcess[p] THEN alive[p] /\ reader[p] = "scan"
                              ELSE status[p] = "running"

\* A start that failed before there was a process, which the monitor takes for
\* another deck's proxy; a server that died, or is no longer read, before Start
\* called it running; and a restart on behalf of IsRunning whose start fails, after
\* which the MCP is in the pool no more.
Overlooked(p) == ~hasProcess[p] /\ status[p] = "failed"
Masked(p) == status[p] = "running" /\ reader[p] # "scan"
Abandoned(d) == up[d] /\ started[d] /\ entry[d] = 0 /\ op[d] = Idle

Dead(d) ==
  up[d] /\ entry[d] # 0 /\ hasProcess[entry[d]] /\ ~Served(entry[d])
    /\ status[entry[d]] # "permanent" /\ ~Masked(entry[d])

\* A server that died, whose output is no longer read, or that did not start, is
\* brought back by its reader and the monitor, however often this fails, until it
\* serves or is disabled or its deck ends (socket_proxy.go 452-473, pool_simple.go
\* 229-267).  Three cases escape: Overlooked, Masked and Abandoned.
DeadIsRetried ==
  \A d \in Decks :
    Dead(d) ~> \/ ~up[d]
               \/ entry[d] # 0 /\ (Served(entry[d]) \/ Disabled(d))
               \/ entry[d] # 0 /\ (Overlooked(entry[d]) \/ Masked(entry[d]))
               \/ Abandoned(d)
=============================================================================
