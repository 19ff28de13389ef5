------------------------------ MODULE McpProxy ------------------------------
(***************************************************************************)
(* The socket proxy of one pooled MCP server, internal/mcppool: sessions   *)
(* reach the server through `mcp-proxy` (the shim) and a Unix socket; the  *)
(* proxy numbers their requests anew, remembers in idMap who asked, routes *)
(* the answers back, and is stopped and started again by the pool's health *)
(* monitor when the server died.                                           *)
(*                                                                         *)
(* A proxy object and its server are one generation; goroutines of an old  *)
(* generation go on beside the new one.  A session numbers its requests    *)
(* 1, 2, ... and the server those it makes itself.  Left out: messages     *)
(* without an id, what sessions reply to the server's requests, the sizes  *)
(* of socket buffers, the rate limit of restarts and failing starts, the   *)
(* shim's retry delay.                                                     *)
(***************************************************************************)
EXTENDS Naturals, Sequences, FiniteSets

CONSTANTS
  Clients,       \* agent sessions, each behind a shim
  MaxAsks,       \* requests of a session (bound)
  MaxConns,      \* connections (bound)
  MaxGens,       \* generations (bound)
  Scenarios,     \* how often each session asks, which ones may end, how often a
                 \* server asks and dies, how many messages exceed the
                 \* 10 MB of a scanner, how many connections there are
                 \* (bounds), and maxClientsPerProxy, 100 in the code
  None, Ask      \* no answer yet; a request of the server

Gens == 1..MaxGens
Conns == 1..MaxConns
Requests == Clients \X (1..MaxAsks)

ASSUME McpAssumption ==
  /\ MaxAsks \in Nat /\ {MaxConns, MaxGens} \subseteq Nat \ {0}
  /\ Scenarios \subseteq [asks : [Clients -> 0..MaxAsks], leavers : SUBSET Clients,
                          serverAsks : Nat, deaths : Nat, longs : Nat, conns : Conns,
                          maxClients : Nat]
  /\ Ask \notin Requests \cup {None} /\ None \notin Requests

VARIABLES
  scenario,
  \* the proxies, one per generation
  gen,           \* the generation the pool holds
  status, listening, clients, idMap, nextID,
  backlog,       \* connections the kernel holds for Accept
  accepted,      \* what acceptConnections holds before it is in clients, or 0
  broadcaster,   \* where broadcastResponses is
  stopper,       \* where Start or Stop is
  \* the servers
  alive, stdin, stdout, serverAsked,
  \* the connections
  conn,          \* "none", "open", "shut" by the proxy, "left" by the shim
  genOf, up, down,
  handler,       \* where handleClient is, and the request it holds
  \* the sessions
  present, asked,
  typed,         \* requests written to the shim and not read by it
  shim,          \* the shim's connection, or 0
  stale,         \* goroutines of dropped connections that still read stdin
  got,           \* what each request was answered with
  via            \* the connection each request was written to, or 0 (history)

proxies == <<gen, status, listening, clients, idMap, nextID, backlog, accepted,
             broadcaster, stopper>>
servers == <<scenario, alive, stdin, stdout, serverAsked>>
conns == <<conn, genOf, up, down, handler>>
sessions == <<present, asked, typed, shim, stale, got, via>>
vars == <<proxies, servers, conns, sessions>>

TypeOK ==
  /\ scenario.asks \in [Clients -> 0..MaxAsks] /\ {scenario.deaths, scenario.longs} \subseteq Nat
  /\ gen \in Gens
  /\ status \in [Gens -> {"none", "running", "failed", "stopped"}]
  /\ listening \in [Gens -> BOOLEAN] /\ alive \in [Gens -> BOOLEAN]
  /\ clients \in [Gens -> SUBSET Conns]
  /\ idMap \in [Gens -> SUBSET [pid : Nat, conn : Conns, id : Nat]]
  /\ nextID \in [Gens -> Nat] /\ serverAsked \in [Gens -> Nat]
  /\ backlog \in [Gens -> Seq(Conns)] /\ accepted \in [Gens -> 0..MaxConns]
  /\ broadcaster \in [Gens -> {"none", "scan", "failed", "closed", "done"}]
  /\ stopper \in [Gens -> {"starting", "no", "rest", "done"}]
  /\ stdin \in [Gens -> SUBSET [id : Nat, req : Requests]]
  /\ stdout \in [Gens -> Seq([id : Nat, req : Requests \cup {Ask}])]
  /\ conn \in [Conns -> {"none", "open", "shut", "left"}]
  /\ genOf \in [Conns -> 0..MaxGens]
  /\ up \in [Conns -> Seq(Requests)]
  /\ down \in [Conns -> Seq([id : Nat, req : Requests \cup {Ask}])]
  /\ handler \in [Conns -> [at : {"none", "scan", "leave", "end", "cut", "severed"}]
                             \cup [at : {"hold"}, id : Nat, req : Requests]]
  /\ present \in [Clients -> BOOLEAN]
  /\ asked \in [Clients -> Nat] /\ stale \in [Clients -> Nat]
  /\ typed \in [Clients -> Seq(Requests)] /\ shim \in [Clients -> 0..MaxConns]
  /\ got \in [Requests -> Requests \cup {None, Ask}]
  /\ via \in [Requests -> 0..MaxConns]

\* The first generation runs; later ones do not exist yet.
Only(g, now, later) == [h \in Gens |-> IF h = g THEN now ELSE later]

Init ==
  /\ scenario \in Scenarios
  /\ gen = 1
  /\ status = Only(1, "running", "none")
  /\ broadcaster = Only(1, "scan", "none")
  /\ listening = Only(1, TRUE, FALSE) /\ alive = Only(1, TRUE, FALSE)
  /\ clients = [g \in Gens |-> {}] /\ idMap = [g \in Gens |-> {}]
  /\ nextID = [g \in Gens |-> 0] /\ serverAsked = [g \in Gens |-> 0]
  /\ backlog = [g \in Gens |-> <<>>] /\ accepted = [g \in Gens |-> 0]
  /\ stopper = [g \in Gens |-> "no"]
  /\ stdin = [g \in Gens |-> {}] /\ stdout = [g \in Gens |-> <<>>]
  /\ conn = [k \in Conns |-> "none"] /\ genOf = [k \in Conns |-> 0]
  /\ up = [k \in Conns |-> <<>>] /\ down = [k \in Conns |-> <<>>]
  /\ handler = [k \in Conns |-> [at |-> "none"]]
  /\ present = [c \in Clients |-> TRUE]
  /\ asked = [c \in Clients |-> 0] /\ stale = [c \in Clients |-> 0]
  /\ typed = [c \in Clients |-> <<>>] /\ shim = [c \in Clients |-> 0]
  /\ got = [r \in Requests |-> None] /\ via = [r \in Requests |-> 0]

-----------------------------------------------------------------------------
(* The session and its shim *)

\* The session writes a request to the shim's stdin.
Type(c) ==
  /\ present[c] /\ asked[c] < scenario.asks[c]
  /\ asked' = [asked EXCEPT ![c] = @ + 1]
  /\ typed' = [typed EXCEPT ![c] = Append(@, <<c, asked[c] + 1>>)]
  /\ UNCHANGED <<proxies, servers, conns, present, shim, stale, got, via>>

\* A dial succeeds as soon as the kernel has queued the connection.
Dial(c) ==
  /\ present[c] /\ shim[c] = 0
  /\ listening[gen]
  /\ \E k \in 1..scenario.conns :
       /\ conn[k] = "none" /\ \A j \in 1..(k - 1) : conn[j] # "none"
       /\ conn' = [conn EXCEPT ![k] = "open"]
       /\ genOf' = [genOf EXCEPT ![k] = gen]
       /\ backlog' = [backlog EXCEPT ![gen] = Append(@, k)]
       /\ shim' = [shim EXCEPT ![c] = k]
  /\ UNCHANGED <<gen, status, listening, clients, idMap, nextID, accepted,
                 broadcaster, stopper, servers, up, down, handler, present,
                 asked, typed, stale, got, via>>

\* The goroutine of the present connection reads stdin and writes the socket; a
\* write to a socket the proxy has closed fails, and the shim drops it.
Copy(c) ==
  /\ typed[c] # <<>> /\ shim[c] # 0
  /\ LET k == shim[c] IN
       IF conn[k] = "open"
         THEN /\ up' = [up EXCEPT ![k] = Append(@, Head(typed[c]))]
              /\ via' = [via EXCEPT ![Head(typed[c])] = k]
              /\ UNCHANGED shim
         ELSE shim' = [shim EXCEPT ![c] = 0] /\ UNCHANGED <<up, via>>
  /\ typed' = [typed EXCEPT ![c] = Tail(@)]
  /\ UNCHANGED <<proxies, servers, conn, genOf, down, handler, present, asked,
                 stale, got>>

\* A goroutine of a dropped connection still waits in its read of stdin; what it
\* reads it writes to the closed connection, and ends.
StaleCopy(c) ==
  /\ typed[c] # <<>> /\ stale[c] > 0
  /\ typed' = [typed EXCEPT ![c] = Tail(@)]
  /\ stale' = [stale EXCEPT ![c] = @ - 1]
  /\ UNCHANGED <<proxies, servers, conns, present, asked, shim, got, via>>

\* A message reaches the session, which takes it for the answer to the request of
\* that id, if it waits for one.
Receive(c) ==
  /\ shim[c] # 0 /\ down[shim[c]] # <<>>
  /\ LET m == Head(down[shim[c]])
         r == <<c, m.id>>
     IN got' = IF r \in Requests /\ m.id <= asked[c]
                 THEN [got EXCEPT ![r] = IF @ = None THEN m.req ELSE @]
                 ELSE got
  /\ down' = [down EXCEPT ![shim[c]] = Tail(@)]
  /\ UNCHANGED <<proxies, servers, conn, genOf, up, handler, present, asked,
                 typed, shim, stale, via>>

\* The socket ends: the shim drops the connection, and the goroutine that copies
\* stdin to it stays behind.
Drop(c) ==
  /\ shim[c] # 0 /\ conn[shim[c]] = "shut" /\ down[shim[c]] = <<>>
  /\ shim' = [shim EXCEPT ![c] = 0]
  /\ stale' = [stale EXCEPT ![c] = @ + 1]
  /\ UNCHANGED <<proxies, servers, conns, present, asked, typed, got, via>>

\* The session ends and its shim with it.
Leave(c) ==
  /\ present[c] /\ c \in scenario.leavers
  /\ present' = [present EXCEPT ![c] = FALSE]
  /\ conn' = [k \in Conns |-> IF k = shim[c] /\ conn[k] = "open"
                                THEN "left" ELSE conn[k]]
  /\ typed' = [typed EXCEPT ![c] = <<>>]
  /\ shim' = [shim EXCEPT ![c] = 0]
  /\ stale' = [stale EXCEPT ![c] = 0]
  /\ UNCHANGED <<proxies, servers, genOf, up, down, handler, asked, got, via>>
-----------------------------------------------------------------------------
(* The goroutines of a proxy *)

\* Closes connections on the proxy's side.
Shut(ks) == [k \in Conns |-> IF k \in ks /\ conn[k] = "open"
                               THEN "shut" ELSE conn[k]]

\* Closing the listener also resets the connections nobody has accepted.
CloseListener(g) ==
  /\ listening' = [listening EXCEPT ![g] = FALSE]
  /\ backlog' = [backlog EXCEPT ![g] = <<>>]
  /\ conn' = Shut({backlog[g][i] : i \in DOMAIN backlog[g]})

Accept(g) ==
  /\ accepted[g] = 0 /\ backlog[g] # <<>>
  /\ backlog' = [backlog EXCEPT ![g] = Tail(@)]
  /\ IF Cardinality(clients[g]) >= scenario.maxClients
       THEN conn' = Shut({Head(backlog[g])}) /\ UNCHANGED accepted
       ELSE accepted' = [accepted EXCEPT ![g] = Head(backlog[g])] /\ UNCHANGED conn
  /\ UNCHANGED <<gen, status, listening, clients, idMap, nextID, broadcaster,
                 stopper, servers, genOf, up, down, handler, sessions>>

\* Mutant: the handler runs for a connection that is not in the table.
RegisterNowhere(g) ==
  /\ accepted[g] # 0
  /\ handler' = [handler EXCEPT ![accepted[g]] = [at |-> "scan"]]
  /\ accepted' = [accepted EXCEPT ![g] = 0]
  /\ UNCHANGED <<gen, status, listening, clients, idMap, nextID, backlog,
                 broadcaster, stopper, servers, conn, genOf, up, down, sessions>>

\* The rest of acceptConnections: the connection enters the table of clients,
\* whatever happened to the proxy since Accept returned it.
Register(g) ==
  /\ accepted[g] # 0
  /\ clients' = [clients EXCEPT ![g] = @ \cup {accepted[g]}]
  /\ handler' = [handler EXCEPT ![accepted[g]] = [at |-> "scan"]]
  /\ accepted' = [accepted EXCEPT ![g] = 0]
  /\ UNCHANGED <<gen, status, listening, idMap, nextID, backlog, broadcaster,
                 stopper, servers, conn, genOf, up, down, sessions>>

\* Mutant: the client's own id serves as the key.
ScanRawId(k) ==
  /\ handler[k].at = "scan" /\ up[k] # <<>>
  /\ LET g == genOf[k]
         r == Head(up[k])
     IN /\ idMap' = [idMap EXCEPT ![g] = {e \in @ : e.pid # r[2]} \cup
                       {[pid |-> r[2], conn |-> k, id |-> r[2]]}]
        /\ handler' = [handler EXCEPT ![k] = [at |-> "hold", id |-> r[2], req |-> r]]
  /\ up' = [up EXCEPT ![k] = Tail(@)]
  /\ UNCHANGED <<gen, status, listening, clients, nextID, backlog, accepted,
                 broadcaster, stopper, servers, conn, genOf, down, sessions>>

\* handleClient reads a request, gives it an id of the proxy's, and stores who
\* asked.
Scan(k) ==
  /\ handler[k].at = "scan" /\ up[k] # <<>>
  /\ LET g == genOf[k]
         r == Head(up[k])
     IN /\ nextID' = [nextID EXCEPT ![g] = @ + 1]
        /\ idMap' = [idMap EXCEPT ![g] = @ \cup
                       {[pid |-> nextID[g] + 1, conn |-> k, id |-> r[2]]}]
        /\ handler' = [handler EXCEPT ![k] =
                         [at |-> "hold", id |-> nextID[g] + 1, req |-> r]]
  /\ up' = [up EXCEPT ![k] = Tail(@)]
  /\ UNCHANGED <<gen, status, listening, clients, backlog, accepted, broadcaster,
                 stopper, servers, conn, genOf, down, sessions>>

\* The write to the server's stdin; its error is ignored.
Forward(k) ==
  /\ handler[k].at = "hold"
  /\ LET g == genOf[k] IN
       stdin' = [stdin EXCEPT ![g] = IF alive[g]
                  THEN @ \cup {[id |-> handler[k].id, req |-> handler[k].req]}
                  ELSE @]
  /\ handler' = [handler EXCEPT ![k] = [at |-> "scan"]]
  /\ UNCHANGED <<proxies, scenario, alive, stdout, serverAsked, conn, genOf, up, down,
                 sessions>>

\* Mutant: a client that leaves clears the map for all.
ForgetAll(k, at) ==
  /\ idMap' = [idMap EXCEPT ![genOf[k]] = {}]
  /\ up' = [up EXCEPT ![k] = <<>>]
  /\ handler' = [handler EXCEPT ![k] = [at |-> at]]
  /\ UNCHANGED <<gen, status, listening, clients, nextID, backlog, accepted,
                 broadcaster, stopper, alive, stdin, stdout, serverAsked, conn,
                 genOf, down, sessions>>

\* handleClient returns for the reason at: the first half of its deferred cleanup
\* forgets the requests of this client.
Forget(k, at) ==
  /\ idMap' = [idMap EXCEPT ![genOf[k]] = {e \in @ : e.conn # k}]
  /\ up' = [up EXCEPT ![k] = <<>>]
  /\ handler' = [handler EXCEPT ![k] = [at |-> at]]
  /\ UNCHANGED <<gen, status, listening, clients, nextID, backlog, accepted,
                 broadcaster, stopper, alive, stdin, stdout, serverAsked, conn,
                 genOf, down, sessions>>

\* The scanner ends: at once or after what it has buffered when the proxy closed
\* the connection, after all that was written when the shim did.
EndScan(k) ==
  /\ handler[k].at = "scan"
  /\ conn[k] = "shut" \/ (conn[k] = "left" /\ up[k] = <<>>)
  /\ Forget(k, "leave") /\ UNCHANGED scenario

\* The next request does not fit into the scanner, whose error nobody looks at: the
\* proxy cuts off a client that is connected.
TooLong(k) ==
  /\ handler[k].at = "scan" /\ up[k] # <<>> /\ scenario.longs > 0
  /\ scenario' = [scenario EXCEPT !.longs = @ - 1]
  /\ Forget(k, "cut")

Cut(k) == handler[k].at \in {"cut", "severed"}

\* The other half takes the client out of the table and closes its connection.
Unregister(k) ==
  /\ handler[k].at \in {"leave", "cut"}
  /\ clients' = [clients EXCEPT ![genOf[k]] = @ \ {k}]
  /\ conn' = Shut({k})
  /\ handler' = [handler EXCEPT ![k] = [at |-> IF Cut(k) THEN "severed" ELSE "end"]]
  /\ UNCHANGED <<gen, status, listening, idMap, nextID, backlog, accepted,
                 broadcaster, stopper, servers, genOf, up, down, sessions>>

\* A write to each of ks that is still open.
Post(ks, m) == [k \in Conns |-> IF k \in ks /\ conn[k] = "open"
                                  THEN Append(down[k], m) ELSE down[k]]

\* Mutant: the client's id is not restored.
RouteUnrestored(g) ==
  /\ broadcaster[g] = "scan" /\ stdout[g] # <<>>
  /\ LET m == Head(stdout[g])
         hit == {e \in idMap[g] : e.pid = m.id}
     IN /\ idMap' = [idMap EXCEPT ![g] = @ \ hit]
        /\ IF hit # {}
             THEN \E e \in hit : down' = Post({e.conn} \cap clients[g], m)
             ELSE down' = IF m.req = Ask THEN down ELSE Post(clients[g], m)
  /\ stdout' = [stdout EXCEPT ![g] = Tail(@)]
  /\ UNCHANGED <<gen, status, listening, clients, nextID, backlog, accepted,
                 broadcaster, stopper, scenario, alive, stdin, serverAsked, conn,
                 genOf, up, handler, sessions>>

\* broadcastResponses reads a message of the server.  If idMap knows the id, it
\* goes to the client that asked, under the client's id; if not, to all clients
\* as it is (where a request of the server is no answer to anything).
Route(g) ==
  /\ broadcaster[g] = "scan" /\ stdout[g] # <<>>
  /\ LET m == Head(stdout[g])
         hit == {e \in idMap[g] : e.pid = m.id}
     IN /\ idMap' = [idMap EXCEPT ![g] = @ \ hit]
        /\ IF hit # {}
             THEN \E e \in hit :
                    down' = Post({e.conn} \cap clients[g], [m EXCEPT !.id = e.id])
             ELSE down' = IF m.req = Ask THEN down ELSE Post(clients[g], m)
  /\ stdout' = [stdout EXCEPT ![g] = Tail(@)]
  /\ UNCHANGED <<gen, status, listening, clients, nextID, backlog, accepted,
                 broadcaster, stopper, scenario, alive, stdin, serverAsked, conn, genOf, up,
                 handler, sessions>>

\* broadcastResponses stops reading: the proxy is marked for the health monitor, ...
StopsReading(g) ==
  /\ broadcaster[g] = "scan"
  /\ status' = [status EXCEPT ![g] = "failed"]
  /\ broadcaster' = [broadcaster EXCEPT ![g] = "failed"]
  /\ UNCHANGED <<gen, listening, clients, idMap, nextID, backlog, accepted, stopper,
                 alive, stdin, stdout, serverAsked, conns, sessions>>

\* (because the server's output ended, or because a message of it does not fit into
\* the scanner, whether the server lives or not)
MarkFailed(g) ==
  /\ ~alive[g] /\ stdout[g] = <<>>
  /\ StopsReading(g) /\ UNCHANGED scenario

Unreadable(g) ==
  /\ stdout[g] # <<>> /\ scenario.longs > 0
  /\ scenario' = [scenario EXCEPT !.longs = @ - 1]
  /\ StopsReading(g)

\* ... the server is reaped, which waits for its end, and the clients are closed
\* (closeAllClientsOnFailure),
CloseAllClients(g) ==
  /\ broadcaster[g] = "failed" /\ ~alive[g]
  /\ conn' = Shut(clients[g])
  /\ clients' = [clients EXCEPT ![g] = {}]
  /\ broadcaster' = [broadcaster EXCEPT ![g] = "closed"]
  /\ UNCHANGED <<gen, status, listening, idMap, nextID, backlog, accepted,
                 stopper, servers, genOf, up, down, handler, sessions>>

\* ... and the ids are forgotten and the listener is closed.
EndBroadcast(g) ==
  /\ broadcaster[g] = "closed"
  /\ idMap' = [idMap EXCEPT ![g] = {}]
  /\ CloseListener(g)
  /\ broadcaster' = [broadcaster EXCEPT ![g] = "done"]
  /\ UNCHANGED <<gen, status, clients, nextID, accepted, stopper, servers, genOf,
                 up, down, handler, sessions>>
-----------------------------------------------------------------------------
(* The health monitor: RestartProxyWithRateLimit of a failed proxy *)

\* Stop closes the clients first, ...
StopClients ==
  /\ status[gen] = "failed" /\ stopper[gen] = "no"
  /\ conn' = Shut(clients[gen])
  /\ clients' = [clients EXCEPT ![gen] = {}]
  /\ stopper' = [stopper EXCEPT ![gen] = "rest"]
  /\ UNCHANGED <<gen, status, listening, idMap, nextID, backlog, accepted,
                 broadcaster, servers, genOf, up, down, handler, sessions>>

\* ... then the listener, and waits for the server.
StopRest ==
  /\ stopper[gen] = "rest"
  /\ idMap' = [idMap EXCEPT ![gen] = {}]
  /\ CloseListener(gen)
  /\ alive' = [alive EXCEPT ![gen] = FALSE]
  /\ stdin' = [stdin EXCEPT ![gen] = {}]
  /\ stdout' = [stdout EXCEPT ![gen] = <<>>]
  /\ status' = [status EXCEPT ![gen] = "stopped"]
  /\ stopper' = [stopper EXCEPT ![gen] = "done"]
  /\ UNCHANGED <<gen, clients, nextID, accepted, broadcaster, scenario, serverAsked, genOf,
                 up, down, handler, sessions>>

\* A new proxy takes the place of the stopped one, ...
StartNext ==
  /\ stopper[gen] = "done" /\ gen < MaxGens
  /\ gen' = gen + 1
  /\ stopper' = [stopper EXCEPT ![gen + 1] = "starting"]
  /\ broadcaster' = [broadcaster EXCEPT ![gen + 1] = "scan"]
  /\ listening' = [listening EXCEPT ![gen + 1] = TRUE]
  /\ alive' = [alive EXCEPT ![gen + 1] = TRUE]
  /\ UNCHANGED <<status, clients, idMap, nextID, backlog, accepted, scenario,
                 stdin, stdout, serverAsked, conns, sessions>>

\* ... and is called running, whatever broadcastResponses has said by then.
SetRunning ==
  /\ stopper[gen] = "starting"
  /\ status' = [status EXCEPT ![gen] = "running"]
  /\ stopper' = [stopper EXCEPT ![gen] = "no"]
  /\ UNCHANGED <<gen, listening, clients, idMap, nextID, backlog, accepted,
                 broadcaster, servers, conns, sessions>>
-----------------------------------------------------------------------------
(* The MCP server, an external program: it answers requests in any order *)

Answer(g) ==
  /\ alive[g]
  /\ \E m \in stdin[g] :
       /\ stdin' = [stdin EXCEPT ![g] = @ \ {m}]
       /\ stdout' = [stdout EXCEPT ![g] = Append(@, m)]
  /\ UNCHANGED <<proxies, scenario, alive, serverAsked, conns, sessions>>

\* Its own requests are numbered apart from those it gets.
AskClients(g) ==
  /\ alive[g] /\ serverAsked[g] < scenario.serverAsks
  /\ serverAsked' = [serverAsked EXCEPT ![g] = @ + 1]
  /\ stdout' = [stdout EXCEPT ![g] = Append(@, [id |-> serverAsked[g] + 1,
                                                req |-> Ask])]
  /\ UNCHANGED <<proxies, scenario, alive, stdin, conns, sessions>>

\* What it has written before it dies can still be read.
Die(g) ==
  /\ alive[g] /\ scenario.deaths > 0
  /\ scenario' = [scenario EXCEPT !.deaths = @ - 1]
  /\ alive' = [alive EXCEPT ![g] = FALSE]
  /\ stdin' = [stdin EXCEPT ![g] = {}]
  /\ UNCHANGED <<proxies, stdout, serverAsked, conns, sessions>>
-----------------------------------------------------------------------------
SessionNext(c) ==
  Type(c) \/ Dial(c) \/ Copy(c) \/ StaleCopy(c) \/ Receive(c) \/ Drop(c) \/ Leave(c)
HandlerNext(k) ==
  Scan(k) \/ Forward(k) \/ EndScan(k) \/ TooLong(k) \/ Unregister(k)
AcceptNext(g) == Accept(g) \/ Register(g)
BroadcastNext(g) ==
  Route(g) \/ MarkFailed(g) \/ Unreadable(g) \/ CloseAllClients(g) \/ EndBroadcast(g)
MonitorNext == StopClients \/ StopRest \/ StartNext \/ SetRunning
ServerNext(g) == Answer(g) \/ AskClients(g) \/ Die(g)

Next ==
  \/ \E c \in Clients : SessionNext(c)
  \/ \E k \in Conns : HandlerNext(k)
  \/ \E g \in Gens : AcceptNext(g) \/ BroadcastNext(g) \/ ServerNext(g)
  \/ MonitorNext

Spec == Init /\ [][Next]_vars

\* Goroutines run, the monitor ticks, a living server answers, and a session
\* reads its socket; it need not ask, dial or leave, and no server need die.
Fairness ==
  /\ \A c \in Clients : WF_vars(Receive(c) \/ Drop(c))
  /\ \A k \in Conns : WF_vars(HandlerNext(k))
  /\ \A g \in Gens :
       WF_vars(AcceptNext(g)) /\ WF_vars(BroadcastNext(g)) /\ WF_vars(Answer(g))
  /\ WF_vars(MonitorNext)

FairSpec == Spec /\ Fairness
-----------------------------------------------------------------------------
(* Properties *)

\* The proxy object is alive as far as routing goes.
Routing(g) == broadcaster[g] = "scan" /\ stopper[g] # "done"

\* Requests on the way between their handler and broadcastResponses.
InService(g) ==
  stdin[g] \cup {m \in {stdout[g][i] : i \in DOMAIN stdout[g]} : m.req # Ask}
    \cup {[id |-> handler[k].id, req |-> handler[k].req] :
            k \in {j \in Conns : genOf[j] = g /\ handler[j].at = "hold"}}

\* A request in service can be traced back: as long as the proxy serves its client,
\* and also while the client is closed and its handler has not noticed, idMap has one
\* entry under its id, with this client and the id the client gave it.  Sessions use
\* the same ids, and come and go; an answer finds its asker only because of this
\* (socket_proxy.go 373-419, 510-549).  A request of the server under the same id may
\* use the entry up.
WayBackKnown ==
  \A g \in Gens : Routing(g) /\ serverAsked[g] = 0 =>
    \A m \in InService(g) :
      handler[via[m.req]].at \in {"scan", "hold"} =>
        {e \in idMap[g] : e.pid = m.id}
          = {[pid |-> m.id, conn |-> via[m.req], id |-> m.req[2]]}

\* TestResponseRoutingNoXTalk has each client receive only its own response.  The
\* code breaks this in three ways: the answer to a client that has left, the answer to
\* one that the proxy cut off for a long request, and the request of a server, are
\* matched against ids they have nothing to do with.  What holds: a session takes a
\* message for an answer that is none of its own only when the client that asked has
\* left or was cut off, or the server made requests.
ForeignAnswerHasCause ==
  \A r \in Requests : got[r] \notin {None, r} =>
    LET k == IF got[r] = Ask THEN via[r] ELSE via[got[r]] IN
      serverAsked[genOf[k]] > 0 \/ (got[r] # Ask /\ (conn[k] = "left" \/ Cut(k)))

\* The proxy was called running after broadcastResponses had marked it
\* (socket_proxy.go 316-319): the health monitor passes over it.
Masked(g) == status[g] = "running" /\ broadcaster[g] # "scan"

\* A connection that entered the table of clients after it was emptied, by a Stop that
\* closes the listener only afterwards, or by the broadcaster of a proxy that is masked
\* (socket_proxy.go 338-366, 462-473, 568-582): nobody looks into this table again.
Escaped(k) ==
  LET g == genOf[k] IN
  k \in clients[g] /\ (stopper[g] = "done"
                       \/ (Masked(g) /\ broadcaster[g] \in {"closed", "done"}))

\* "This signals reconnecting proxies to retry their connection" (socket_proxy.go
\* 477): a connection to a server that died is closed in the end, by the
\* broadcaster, by Stop, or by its handler, unless it escaped.
Unheard(k) == conn[k] = "open" /\ ~alive[genOf[k]] /\ ~Escaped(k)
DeadServerIsHeard == \A k \in Conns : Unheard(k) ~> ~Unheard(k)

\* A request that went into a connection is answered, if the connection stays open,
\* the server alive and its proxy not masked: neither the renumbering nor other clients
\* that leave in between lose it (handleClient, routeToClient).
Unanswered(r) ==
  LET k == via[r] IN
  k # 0 /\ got[r] = None /\ conn[k] = "open" /\ alive[genOf[k]] /\ ~Masked(genOf[k])
RequestsAnswered == \A r \in Requests : Unanswered(r) ~> ~Unanswered(r)
=============================================================================
