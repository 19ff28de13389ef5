--------------------------- MODULE McpProxy_proofs ---------------------------
(***************************************************************************)
(* What the socket proxy guarantees for any number of sessions, requests,  *)
(* connections, generations, deaths and requests of servers.  A request is *)
(* written to one connection, once; the ids the proxy gives are each on    *)
(* the way once; so the entry of idMap under an id is that of the request  *)
(* that carries it, and what a session gets that is no answer to it has    *)
(* one of three causes.                                                    *)
(***************************************************************************)
EXTENDS McpProxy, TLAPS

-----------------------------------------------------------------------------
\* The invariant.

\* The bounds of the run.
ScenarioOK ==
  scenario \in [asks : [Clients -> 0..MaxAsks], leavers : SUBSET Clients,
                serverAsks : Nat, deaths : Nat, longs : Nat, conns : Conns, maxClients : Nat]

\* What a session has typed is its own, each once, and not written yet.
Typing ==
  \A c \in Clients :
    /\ asked[c] <= scenario.asks[c]
    /\ \A i \in DOMAIN typed[c] :
         /\ typed[c][i][1] = c /\ typed[c][i][2] <= asked[c]
         /\ via[typed[c][i]] = 0
         /\ \A j \in DOMAIN typed[c] : typed[c][i] = typed[c][j] => i = j

\* A request is written to a connection of its session.
Written ==
  /\ \A r \in Requests : via[r] # 0 => conn[via[r]] # "none" /\ r[2] <= asked[r[1]]
  /\ \A c \in Clients : shim[c] # 0 =>
       /\ conn[shim[c]] # "none"
       /\ \A r \in Requests : via[r] = shim[c] => r[1] = c
       /\ \A d \in Clients : shim[d] = shim[c] => d = c

\* The connections that wait for Accept or for their place in the table.
Waiting(g, k) ==
  genOf[k] = g /\ handler[k].at = "none" /\ conn[k] \in {"open", "left"}
Queues ==
  \A g \in Gens :
    /\ \A i \in DOMAIN backlog[g] :
         /\ Waiting(g, backlog[g][i]) /\ backlog[g][i] # accepted[g]
         /\ \A j \in DOMAIN backlog[g] : backlog[g][i] = backlog[g][j] => i = j
    /\ accepted[g] # 0 => Waiting(g, accepted[g])
    /\ \A k \in clients[g] : genOf[k] = g /\ handler[k].at # "none"

\* The connections that have a handler: while their proxy reads its server, only
\* their shims end them, and the handler itself after a request it could not read.
Handled ==
  \A k \in Conns :
    /\ conn[k] # "none" => genOf[k] \in 1..gen
    /\ handler[k].at # "none" =>
         /\ conn[k] # "none"
         /\ broadcaster[genOf[k]] = "scan" =>
              conn[k] \in {"open", "left"} \/ handler[k].at = "severed"
    /\ handler[k].at \in {"leave", "end", "severed"} => conn[k] # "open"

\* A proxy that failed or is being stopped reads no more.
Lives ==
  \A g \in Gens :
    /\ g > gen => broadcaster[g] = "none" /\ status[g] = "none"
    /\ status[g] = "failed" => broadcaster[g] # "scan"
    /\ stopper[g] \in {"rest", "done"} => broadcaster[g] # "scan"

\* Request r went into proxy g.
In(g, r) == via[r] # 0 /\ genOf[via[r]] = g /\ handler[via[r]].at # "none"

\* Where the requests and the entries of the map come from.
Sources ==
  /\ \A k \in Conns : \A i \in DOMAIN up[k] : via[up[k][i]] = k
  /\ \A k \in Conns : handler[k].at = "hold" =>
       via[handler[k].req] = k /\ handler[k].id <= nextID[genOf[k]]
  /\ \A g \in Gens : \A m \in stdin[g] : In(g, m.req) /\ m.id <= nextID[g]
  /\ \A g \in Gens : \A i \in DOMAIN stdout[g] :
       IF stdout[g][i].req = Ask THEN serverAsked[g] > 0
       ELSE In(g, stdout[g][i].req) /\ stdout[g][i].id <= nextID[g]
  /\ \A g \in Gens : \A e \in idMap[g] :
       /\ e.pid <= nextID[g] /\ genOf[e.conn] = g /\ handler[e.conn].at # "none"
       /\ \E r \in Requests : via[r] = e.conn /\ r[2] = e.id

\* Each id is on the way once: in a handler, on the way in or on the way out.
Holder(g, k, n) == genOf[k] = g /\ handler[k].at = "hold" /\ handler[k].id = n
Out(g, i, n) == stdout[g][i].req # Ask /\ stdout[g][i].id = n
Distinct ==
  \A g \in Gens :
    /\ \A k, j \in Conns, n \in Nat : Holder(g, k, n) /\ Holder(g, j, n) => k = j
    /\ \A m, l \in stdin[g] : m.id = l.id => m = l
    /\ \A i, j \in DOMAIN stdout[g], n \in Nat : Out(g, i, n) /\ Out(g, j, n) => i = j
    /\ \A m \in stdin[g] : /\ \A k \in Conns : ~Holder(g, k, m.id)
                           /\ \A i \in DOMAIN stdout[g] : ~Out(g, i, m.id)
    /\ \A k \in Conns, i \in DOMAIN stdout[g], n \in Nat :
         ~(Holder(g, k, n) /\ Out(g, i, n))

\* Why a session may take x for the answer to another request.
Caused(x) ==
  via[x] # 0 /\ (serverAsked[genOf[via[x]]] > 0 \/ conn[via[x]] = "left" \/ Cut(via[x]))

\* What is on the way down is an answer to its session, or has a cause.
Delivered ==
  \A k \in Conns : \A i \in DOMAIN down[k] :
    LET m == down[k][i] IN
    IF m.req = Ask
      THEN serverAsked[genOf[k]] > 0 /\ \E r \in Requests : via[r] = k /\ r[2] = m.id
      ELSE Caused(m.req) \/ (via[m.req] = k /\ m.req[2] = m.id)
Answered ==
  \A r \in Requests :
    /\ got[r] = Ask => via[r] # 0 /\ serverAsked[genOf[via[r]]] > 0
    /\ got[r] \notin {None, Ask, r} => Caused(got[r])

ProxyInv == Typing /\ Written /\ Queues /\ Handled /\ Lives
RouteInv == Sources /\ Distinct /\ WayBackKnown
McpInv == TypeOK /\ ScenarioOK /\ ProxyInv /\ RouteInv /\ Delivered /\ Answered

-----------------------------------------------------------------------------
\* What changes what.

\* handleClient returns, for either of its reasons; broadcastResponses does.
Ends(k) == EndScan(k) \/ TooLong(k)
Fails(g) == MarkFailed(g) \/ Unreadable(g)

LEMMA EndFacts ==
  ASSUME NEW k, Ends(k)
  PROVE  /\ \/ EndScan(k) /\ handler' = [handler EXCEPT ![k] = [at |-> "leave"]]
               /\ UNCHANGED scenario
            \/ TooLong(k) /\ handler' = [handler EXCEPT ![k] = [at |-> "cut"]]
         /\ handler[k].at = "scan"
         /\ idMap' = [idMap EXCEPT ![genOf[k]] = {e \in @ : e.conn # k}]
         /\ up' = [up EXCEPT ![k] = <<>>]
         /\ UNCHANGED <<gen, status, listening, clients, nextID, backlog, accepted,
              broadcaster, stopper, alive, stdin, stdout, serverAsked, conn, genOf, down,
              present, asked, typed, shim, stale, got, via>>
BY DEF Ends, EndScan, TooLong, Forget, sessions

LEMMA FailFacts ==
  ASSUME NEW g, Fails(g)
  PROVE  /\ (MarkFailed(g) /\ UNCHANGED scenario) \/ Unreadable(g)
         /\ broadcaster[g] = "scan"
         /\ status' = [status EXCEPT ![g] = "failed"]
         /\ broadcaster' = [broadcaster EXCEPT ![g] = "failed"]
         /\ UNCHANGED <<gen, listening, clients, idMap, nextID, backlog, accepted, stopper,
              alive, stdin, stdout, serverAsked, conn, genOf, up, down, handler,
              present, asked, typed, shim, stale, got, via>>
BY DEF Fails, MarkFailed, Unreadable, StopsReading, conns, sessions

\* Which steps change each variable.
LEMMA WhoMoves ==
  ASSUME Next
  PROVE  /\ UNCHANGED scenario \/ (\E k \in Conns : TooLong(k))
              \/ \E g \in Gens : Die(g) \/ Unreadable(g)
         /\ UNCHANGED <<gen>> \/ StartNext
         /\ UNCHANGED status \/ StopRest \/ SetRunning \/ \E g \in Gens : Fails(g)
         /\ UNCHANGED clients \/ StopClients \/ (\E k \in Conns : Unregister(k))
              \/ \E g \in Gens : Register(g) \/ CloseAllClients(g)
         /\ UNCHANGED idMap \/ StopRest \/ (\E k \in Conns : Scan(k) \/ Ends(k))
              \/ \E g \in Gens : Route(g) \/ EndBroadcast(g)
         /\ UNCHANGED nextID \/ \E k \in Conns : Scan(k)
         /\ UNCHANGED backlog \/ StopRest \/ (\E c \in Clients : Dial(c))
              \/ \E g \in Gens : Accept(g) \/ EndBroadcast(g)
         /\ UNCHANGED accepted \/ \E g \in Gens : Accept(g) \/ Register(g)
         /\ UNCHANGED broadcaster \/ StartNext
              \/ \E g \in Gens : Fails(g) \/ CloseAllClients(g) \/ EndBroadcast(g)
         /\ UNCHANGED stopper \/ MonitorNext
         /\ UNCHANGED alive \/ StopRest \/ StartNext \/ \E g \in Gens : Die(g)
         /\ UNCHANGED stdin \/ StopRest \/ (\E k \in Conns : Forward(k))
              \/ \E g \in Gens : Answer(g) \/ Die(g)
         /\ UNCHANGED stdout \/ StopRest \/ \E g \in Gens : Route(g) \/ Answer(g) \/ AskClients(g)
         /\ UNCHANGED serverAsked \/ \E g \in Gens : AskClients(g)
         /\ UNCHANGED conn \/ StopClients \/ StopRest
              \/ (\E c \in Clients : Dial(c) \/ Leave(c)) \/ (\E k \in Conns : Unregister(k))
              \/ \E g \in Gens : Accept(g) \/ CloseAllClients(g) \/ EndBroadcast(g)
         /\ UNCHANGED genOf \/ \E c \in Clients : Dial(c)
         /\ UNCHANGED up \/ (\E c \in Clients : Copy(c)) \/ \E k \in Conns : Scan(k) \/ Ends(k)
         /\ UNCHANGED down \/ (\E c \in Clients : Receive(c)) \/ \E g \in Gens : Route(g)
         /\ UNCHANGED handler \/ (\E g \in Gens : Register(g)) \/ \E k \in Conns : HandlerNext(k)
         /\ UNCHANGED asked \/ \E c \in Clients : Type(c)
         /\ UNCHANGED typed
              \/ \E c \in Clients : Type(c) \/ Copy(c) \/ StaleCopy(c) \/ Leave(c)
         /\ UNCHANGED shim
              \/ \E c \in Clients : Dial(c) \/ Copy(c) \/ Drop(c) \/ Leave(c)
         /\ UNCHANGED got \/ \E c \in Clients : Receive(c)
         /\ UNCHANGED via \/ \E c \in Clients : Copy(c)
         /\ UNCHANGED listening \/ StopRest \/ StartNext \/ \E g \in Gens : EndBroadcast(g)
         /\ UNCHANGED present \/ \E c \in Clients : Leave(c)
         /\ UNCHANGED stale \/ \E c \in Clients : StaleCopy(c) \/ Drop(c) \/ Leave(c)
<1>1. CASE \E c \in Clients : Type(c)
  BY <1>1 DEF Type, proxies, servers, conns, sessions
<1>2. CASE \E c \in Clients : Dial(c)
  BY <1>2 DEF Dial, proxies, servers, conns, sessions
<1>3. CASE \E c \in Clients : Copy(c)
  BY <1>3 DEF Copy, proxies, servers, conns, sessions
<1>4. CASE \E c \in Clients : StaleCopy(c)
  BY <1>4 DEF StaleCopy, proxies, servers, conns, sessions
<1>5. CASE \E c \in Clients : Receive(c)
  BY <1>5 DEF Receive, proxies, servers, conns, sessions
<1>6. CASE \E c \in Clients : Drop(c)
  BY <1>6 DEF Drop, proxies, servers, conns, sessions
<1>7. CASE \E c \in Clients : Leave(c)
  <2>1. PICK c \in Clients : Leave(c)
    BY <1>7
  <2>2. UNCHANGED <<scenario, gen, status, clients, idMap, nextID, backlog, accepted,
               broadcaster, stopper, alive, stdin, stdout, serverAsked, genOf,
               up, down, handler, asked, got, via, listening>>
    BY <2>1 DEF Leave, proxies, servers, conns, sessions
  <2> QED
    BY <2>1, <2>2 DEF HandlerNext
<1>8. CASE \E k \in Conns : Scan(k)
  <2>1. PICK k \in Conns : Scan(k)
    BY <1>8
  <2>2. UNCHANGED <<scenario, gen, status, clients, backlog, accepted, broadcaster,
               stopper, alive, stdin, stdout, serverAsked, conn, genOf, down,
               asked, typed, shim, got, via, listening, present, stale>>
    BY <2>1 DEF Scan, proxies, servers, conns, sessions
  <2> QED
    BY <2>1, <2>2 DEF HandlerNext
<1>9. CASE \E k \in Conns : Forward(k)
  <2>1. PICK k \in Conns : Forward(k)
    BY <1>9
  <2>2. UNCHANGED <<scenario, gen, status, clients, idMap, nextID, backlog, accepted,
               broadcaster, stopper, alive, stdout, serverAsked, conn, genOf, up,
               down, asked, typed, shim, got, via, listening, present, stale>>
    BY <2>1 DEF Forward, proxies, servers, conns, sessions
  <2> QED
    BY <2>1, <2>2 DEF HandlerNext
<1>10. CASE \E k \in Conns : Ends(k)
  <2>1. PICK k \in Conns : Ends(k)
    BY <1>10
  <2>2. /\ UNCHANGED scenario \/ TooLong(k)
        /\ UNCHANGED <<gen, status, clients, nextID, backlog, accepted,
               broadcaster, stopper, alive, stdin, stdout, serverAsked, conn,
               genOf, down, asked, typed, shim, got, via, listening, present,
               stale>>
    BY <2>1, EndFacts
  <2>3. HandlerNext(k)
    BY <2>1 DEF Ends, HandlerNext
  <2> QED
    BY <2>1, <2>2, <2>3
<1>11. CASE \E k \in Conns : Unregister(k)
  <2>1. PICK k \in Conns : Unregister(k)
    BY <1>11
  <2>2. UNCHANGED <<scenario, gen, status, idMap, nextID, backlog, accepted,
               broadcaster, stopper, alive, stdin, stdout, serverAsked, genOf,
               up, down, asked, typed, shim, got, via, listening, present, stale>>
    BY <2>1 DEF Unregister, proxies, servers, conns, sessions
  <2> QED
    BY <2>1, <2>2 DEF HandlerNext
<1>12. CASE \E g \in Gens : Accept(g)
  <2>1. PICK g \in Gens : Accept(g)
    BY <1>12
  <2>2. UNCHANGED <<scenario, gen, status, clients, idMap, nextID, broadcaster,
               stopper, alive, stdin, stdout, serverAsked, genOf, up, down,
               handler, asked, typed, shim, got, via, listening, present, stale>>
    BY <2>1 DEF Accept, proxies, servers, conns, sessions
  <2> QED
    BY <2>1, <2>2 DEF HandlerNext
<1>13. CASE \E g \in Gens : Register(g)
  <2>1. PICK g \in Gens : Register(g)
    BY <1>13
  <2>2. UNCHANGED <<scenario, gen, status, idMap, nextID, backlog, broadcaster,
               stopper, alive, stdin, stdout, serverAsked, conn, genOf, up, down,
               asked, typed, shim, got, via, listening, present, stale>>
    BY <2>1 DEF Register, proxies, servers, conns, sessions
  <2> QED
    BY <2>1, <2>2 DEF HandlerNext
<1>14. CASE \E g \in Gens : Route(g)
  <2>1. PICK g \in Gens : Route(g)
    BY <1>14
  <2>2. UNCHANGED <<scenario, gen, status, clients, nextID, backlog, accepted,
               broadcaster, stopper, alive, stdin, serverAsked, conn, genOf, up,
               handler, asked, typed, shim, got, via, listening, present, stale>>
    BY <2>1 DEF Route, proxies, servers, conns, sessions
  <2> QED
    BY <2>1, <2>2 DEF HandlerNext
<1>15. CASE \E g \in Gens : Fails(g)
  <2>1. PICK g \in Gens : Fails(g)
    BY <1>15
  <2>2. /\ UNCHANGED scenario \/ Unreadable(g)
        /\ UNCHANGED <<gen, clients, idMap, nextID, backlog, accepted, stopper,
               alive, stdin, stdout, serverAsked, conn, genOf, up, down, handler,
               asked, typed, shim, got, via, listening, present, stale>>
    BY <2>1, FailFacts
  <2> QED
    BY <2>1, <2>2
<1>16. CASE \E g \in Gens : CloseAllClients(g)
  <2>1. PICK g \in Gens : CloseAllClients(g)
    BY <1>16
  <2>2. UNCHANGED <<scenario, gen, status, idMap, nextID, backlog, accepted, stopper,
               alive, stdin, stdout, serverAsked, genOf, up, down, handler,
               asked, typed, shim, got, via, listening, present, stale>>
    BY <2>1 DEF CloseAllClients, proxies, servers, conns, sessions
  <2> QED
    BY <2>1, <2>2 DEF HandlerNext
<1>17. CASE \E g \in Gens : EndBroadcast(g)
  <2>1. PICK g \in Gens : EndBroadcast(g)
    BY <1>17
  <2>2. UNCHANGED <<scenario, gen, status, clients, nextID, accepted, stopper, alive,
               stdin, stdout, serverAsked, genOf, up, down, handler, asked,
               typed, shim, got, via, present, stale>>
    BY <2>1 DEF EndBroadcast, CloseListener, servers, sessions
  <2> QED
    BY <2>1, <2>2 DEF HandlerNext
<1>18. CASE \E g \in Gens : Answer(g)
  BY <1>18 DEF Answer, proxies, servers, conns, sessions
<1>19. CASE \E g \in Gens : AskClients(g)
  BY <1>19 DEF AskClients, proxies, servers, conns, sessions
<1>20. CASE \E g \in Gens : Die(g)
  BY <1>20 DEF Die, proxies, servers, conns, sessions
<1>21. CASE StopClients
  <2>1. UNCHANGED <<scenario, gen, status, idMap, nextID, backlog, accepted,
               broadcaster, alive, stdin, stdout, serverAsked, genOf, up, down,
               handler, asked, typed, shim, got, via, listening, present, stale>>
    BY <1>21 DEF StopClients, proxies, servers, conns, sessions
  <2> QED
    BY <1>21, <2>1 DEF MonitorNext
<1>22. CASE StopRest
  <2>1. UNCHANGED <<scenario, gen, clients, nextID, accepted, broadcaster,
               serverAsked, genOf, up, down, handler, asked, typed, shim, got,
               via, present, stale>>
    BY <1>22 DEF StopRest, CloseListener, servers, sessions
  <2> QED
    BY <1>22, <2>1 DEF MonitorNext
<1>23. CASE StartNext
  <2>1. UNCHANGED <<scenario, status, clients, idMap, nextID, backlog, accepted,
               stdin, stdout, serverAsked, conn, genOf, up, down, handler, asked,
               typed, shim, got, via, present, stale>>
    BY <1>23 DEF StartNext, proxies, servers, conns, sessions
  <2> QED
    BY <1>23, <2>1 DEF MonitorNext
<1>24. CASE SetRunning
  <2>1. UNCHANGED <<scenario, gen, clients, idMap, nextID, backlog, accepted,
               broadcaster, alive, stdin, stdout, serverAsked, conn, genOf, up,
               down, handler, asked, typed, shim, got, via, listening, present,
               stale>>
    BY <1>24 DEF SetRunning, proxies, servers, conns, sessions
  <2> QED
    BY <1>24, <2>1 DEF MonitorNext
<1> QED
  BY <1>1, <1>2, <1>3, <1>4, <1>5, <1>6, <1>7, <1>8, <1>9, <1>10, <1>11, <1>12, <1>13, <1>14, <1>15, <1>16, <1>17, <1>18, <1>19, <1>20, <1>21, <1>22, <1>23, <1>24
  DEF Next, SessionNext, HandlerNext, AcceptNext, BroadcastNext, ServerNext, MonitorNext, Ends, Fails

-----------------------------------------------------------------------------
\* Types.

Messages == [id : Nat, req : Requests \cup {Ask}]

LEMMA Bounds ==
  /\ MaxAsks \in Nat /\ MaxConns \in Nat /\ MaxGens \in Nat /\ 1 \in Gens
  /\ Ask \notin Requests /\ None \notin Requests /\ Ask # None
  /\ \A k \in Conns : k \in 0..MaxConns /\ k # 0 /\ k \in Nat
  /\ \A k \in 0..MaxConns : k # 0 => k \in Conns
  /\ \A g \in Gens : g \in 0..MaxGens /\ g \in Nat /\ g # 0
BY McpAssumption DEF Gens, Conns

LEMMA RequestFacts ==
  /\ \A r \in Requests : r[1] \in Clients /\ r[2] \in 1..MaxAsks /\ r = <<r[1], r[2]>>
  /\ \A c \in Clients, n \in 1..MaxAsks :
       <<c, n>> \in Requests /\ <<c, n>>[1] = c /\ <<c, n>>[2] = n
  /\ \A r \in Requests : r[2] \in Nat /\ r[2] > 0 /\ r[2] <= MaxAsks
BY Bounds DEF Requests

\* Who handles connection k.
LEMMA HandlerFacts ==
  ASSUME TypeOK, Handled, NEW k \in Conns
  PROVE  /\ handler[k].at \in {"none", "scan", "hold", "leave", "end", "cut", "severed"}
         /\ handler[k].at = "hold" => handler[k].id \in Nat /\ handler[k].req \in Requests
         /\ conn[k] # "none" => genOf[k] \in Gens /\ genOf[k] <= gen
         /\ handler[k].at # "none" => genOf[k] \in Gens /\ genOf[k] <= gen
         /\ genOf[k] \in 0..MaxGens /\ gen \in Gens
<1>1. handler[k] \in [at : {"none", "scan", "leave", "end", "cut", "severed"}]
                       \cup [at : {"hold"}, id : Nat, req : Requests]
  BY DEF TypeOK
<1>2. handler[k].at # "none" => conn[k] # "none"
  BY DEF Handled
<1>3. conn[k] # "none" => genOf[k] \in 1..gen
  BY DEF Handled
<1>4. genOf[k] \in 0..MaxGens /\ gen \in Gens
  BY DEF TypeOK
<1>5. \A n \in 1..gen : n \in Gens /\ n <= gen
  BY <1>4, Bounds DEF Gens
<1> QED
  BY <1>1, <1>2, <1>3, <1>4, <1>5

LEMMA McpInit == ASSUME Init PROVE McpInv
<1>1. ScenarioOK
  BY McpAssumption DEF Init, ScenarioOK
<1>2. TypeOK
  BY <1>1, Bounds DEF Init, TypeOK, Only, ScenarioOK
<1>3. ProxyInv
  <2>1. Typing
    BY <1>1 DEF Typing, Init, ScenarioOK
  <2>2. Written
    BY DEF Written, Init
  <2>3. Queues
    BY DEF Queues, Init
  <2>4. Handled
    BY DEF Handled, Init
  <2>5. Lives
    BY Bounds DEF Lives, Init, Only, Gens
  <2> QED
    BY <2>1, <2>2, <2>3, <2>4, <2>5 DEF ProxyInv
<1>4. RouteInv
  <2>1. Sources
    BY DEF Sources, Init
  <2>2. Distinct
    BY DEF Distinct, Init, Holder, Out
  <2>3. \A g \in Gens : InService(g) = {}
    BY DEF InService, Init
  <2> QED
    BY <2>1, <2>2, <2>3 DEF RouteInv, WayBackKnown
<1>5. Delivered /\ Answered
  BY Bounds DEF Delivered, Answered, Init
<1> QED
  BY <1>1, <1>2, <1>3, <1>4, <1>5 DEF McpInv

LEMMA ShutFacts ==
  ASSUME TypeOK, NEW ks, conn' = Shut(ks)
  PROVE  /\ conn' \in [Conns -> {"none", "open", "shut", "left"}]
         /\ \A k \in Conns :
              conn'[k] = conn[k] \/ (k \in ks /\ conn[k] = "open" /\ conn'[k] = "shut")
BY DEF TypeOK, Shut

\* What a message is that broadcastResponses posts, and to whom.
LEMMA RouteFacts ==
  ASSUME TypeOK, NEW g \in Gens, Route(g)
  PROVE  LET m == Head(stdout[g])
             hit == {e \in idMap[g] : e.pid = m.id}
         IN /\ broadcaster[g] = "scan" /\ stdout[g] # <<>>
            /\ m \in Messages /\ m = stdout[g][1] /\ 1 \in DOMAIN stdout[g]
            /\ idMap' = [idMap EXCEPT ![g] = @ \ hit]
            /\ stdout' = [stdout EXCEPT ![g] = Tail(@)]
            /\ \/ \E e \in hit : \E n \in Messages :
                    n.id = e.id /\ n.req = m.req /\ down' = Post({e.conn} \cap clients[g], n)
               \/ hit = {} /\ m.req = Ask /\ down' = down
               \/ hit = {} /\ m.req # Ask /\ down' = Post(clients[g], m)
<1> DEFINE m == Head(stdout[g])
           hit == {e \in idMap[g] : e.pid = m.id}
<1>1. broadcaster[g] = "scan" /\ stdout[g] # <<>>
  BY DEF Route
<1>2. stdout[g] \in Seq(Messages)
  BY DEF TypeOK, Messages
<1>3. m \in Messages /\ m = stdout[g][1] /\ 1 \in DOMAIN stdout[g]
  BY <1>1, <1>2
<1>4. idMap' = [idMap EXCEPT ![g] = @ \ hit] /\ stdout' = [stdout EXCEPT ![g] = Tail(@)]
  BY Zenon DEF Route
<1>5. IF hit # {}
        THEN \E e \in hit : down' = Post({e.conn} \cap clients[g], [m EXCEPT !.id = e.id])
        ELSE down' = IF m.req = Ask THEN down ELSE Post(clients[g], m)
  BY Zenon DEF Route
<1>6. \A e \in hit : e.id \in Nat
  BY DEF TypeOK
<1>7. \A n \in Nat : /\ [m EXCEPT !.id = n] \in Messages
                     /\ [m EXCEPT !.id = n].id = n /\ [m EXCEPT !.id = n].req = m.req
  BY <1>3 DEF Messages
<1>8. CASE hit # {}
  <2>1. PICK e \in hit : down' = Post({e.conn} \cap clients[g], [m EXCEPT !.id = e.id])
    BY <1>5, <1>8 
  <2>2. \E n \in Messages :
          n.id = e.id /\ n.req = m.req /\ down' = Post({e.conn} \cap clients[g], n)
    <3>1. e.id \in Nat
      BY <1>6
    <3> DEFINE n == [m EXCEPT !.id = e.id]
    <3>2. n \in Messages /\ n.id = e.id /\ n.req = m.req
      BY <1>7, <3>1
    <3>3. down' = Post({e.conn} \cap clients[g], n)
      BY <2>1
    <3> HIDE DEF n
    <3> QED
      BY <3>2, <3>3
  <2> QED
    BY <1>1, <1>3, <1>4, <2>2
<1>9. CASE hit = {}
  BY <1>1, <1>3, <1>4, <1>5, <1>9
<1> QED
  BY <1>8, <1>9

\* A request enters its proxy: the id n is new, the entry says who asked.
Numbers(k, g, r, n) ==
  /\ handler[k].at = "scan" /\ genOf[k] = g /\ n = nextID[g] + 1
  /\ r = up[k][1] /\ 1 \in DOMAIN up[k]
  /\ nextID' = [nextID EXCEPT ![g] = n]
  /\ idMap' = [idMap EXCEPT ![g] = @ \cup {[pid |-> n, conn |-> k, id |-> r[2]]}]
  /\ handler' = [handler EXCEPT ![k] = [at |-> "hold", id |-> n, req |-> r]]
  /\ up' = [up EXCEPT ![k] = Tail(@)]

LEMMA ScanFacts ==
  ASSUME TypeOK, Handled, NEW k \in Conns, Scan(k)
  PROVE  \E g \in Gens, r \in Requests, n \in Nat : Numbers(k, g, r, n)
<1> DEFINE g == genOf[k]
           r == Head(up[k])
           n == nextID[g] + 1
<1>1. handler[k].at = "scan" /\ up[k] # <<>>
  BY DEF Scan
<1>2. g \in Gens
  BY <1>1, HandlerFacts
<1>3. n \in Nat
  BY <1>2 DEF TypeOK
<1>4. up[k] \in Seq(Requests)
  BY DEF TypeOK
<1>5. r \in Requests /\ r = up[k][1] /\ 1 \in DOMAIN up[k]
  BY <1>1, <1>4
<1>6. /\ nextID' = [nextID EXCEPT ![g] = n]
      /\ idMap' = [idMap EXCEPT ![g] = @ \cup {[pid |-> n, conn |-> k, id |-> r[2]]}]
      /\ handler' = [handler EXCEPT ![k] = [at |-> "hold", id |-> n, req |-> r]]
      /\ up' = [up EXCEPT ![k] = Tail(@)]
  <2>1. nextID' = [nextID EXCEPT ![g] = n]
    BY <1>2 DEF Scan, TypeOK
  <2> QED
    BY <2>1, Zenon DEF Scan
<1>7. Numbers(k, g, r, n)
  BY <1>1, <1>5, <1>6 DEF Numbers
<1> QED
  BY <1>2, <1>3, <1>5, <1>7

\* A session writes a request: the first it has typed, to its shim's connection.
Writes(c, k, r) ==
  /\ shim[c] = k /\ conn[k] = "open" /\ r = typed[c][1] /\ 1 \in DOMAIN typed[c]
  /\ up' = [up EXCEPT ![k] = Append(@, r)]
  /\ via' = [via EXCEPT ![r] = k]
  /\ shim' = shim

LEMMA CopyFacts ==
  ASSUME TypeOK, NEW c \in Clients, Copy(c)
  PROVE  /\ typed' = [typed EXCEPT ![c] = Tail(@)] /\ typed[c] # <<>>
         /\ \/ \E k \in Conns, r \in Requests : Writes(c, k, r)
            \/ shim' = [shim EXCEPT ![c] = 0] /\ up' = up /\ via' = via
<1> DEFINE k == shim[c]
           r == Head(typed[c])
<1>1. typed[c] # <<>> /\ k # 0 /\ typed' = [typed EXCEPT ![c] = Tail(@)]
  BY DEF Copy
<1>2. typed[c] \in Seq(Requests) /\ k \in Conns
  BY <1>1, Bounds DEF TypeOK
<1>3. r \in Requests /\ r = typed[c][1] /\ 1 \in DOMAIN typed[c]
  BY <1>1, <1>2
<1>4. CASE conn[k] = "open"
  <2>1. /\ up' = [up EXCEPT ![k] = Append(@, r)]
        /\ via' = [via EXCEPT ![r] = k]
        /\ shim' = shim
    BY <1>4 DEF Copy
  <2>2. Writes(c, k, r)
    BY <2>1, <1>3, <1>4 DEF Writes
  <2> QED
    BY <1>1, <1>2, <1>3, <2>2
<1>5. CASE conn[k] # "open"
  <2>1. shim' = [shim EXCEPT ![c] = 0] /\ up' = up /\ via' = via
    BY <1>5 DEF Copy
  <2> QED
    BY <1>1, <2>1
<1> QED
  BY <1>4, <1>5

\* A session opens a connection.
LEMMA DialFacts ==
  ASSUME TypeOK, ScenarioOK, NEW c \in Clients, Dial(c)
  PROVE  \E k \in Conns :
           /\ conn[k] = "none" /\ shim[c] = 0
           /\ conn' = [conn EXCEPT ![k] = "open"]
           /\ genOf' = [genOf EXCEPT ![k] = gen]
           /\ backlog' = [backlog EXCEPT ![gen] = Append(@, k)]
           /\ shim' = [shim EXCEPT ![c] = k]
<1>1. 1..scenario.conns \subseteq Conns
  BY Bounds DEF ScenarioOK, Conns
<1> QED
  BY <1>1 DEF Dial

LEMMA ScenarioMoves ==
  ASSUME Next
  PROVE  \/ scenario' = scenario
         \/ scenario.deaths > 0 /\ scenario' = [scenario EXCEPT !.deaths = @ - 1]
         \/ scenario.longs > 0 /\ scenario' = [scenario EXCEPT !.longs = @ - 1]
<1>1. ASSUME NEW g \in Gens, Die(g)
      PROVE  scenario.deaths > 0 /\ scenario' = [scenario EXCEPT !.deaths = @ - 1]
  BY <1>1 DEF Die
<1>2. ASSUME NEW k \in Conns, TooLong(k)
      PROVE  scenario.longs > 0 /\ scenario' = [scenario EXCEPT !.longs = @ - 1]
  BY <1>2 DEF TooLong
<1>3. ASSUME NEW g \in Gens, Unreadable(g)
      PROVE  scenario.longs > 0 /\ scenario' = [scenario EXCEPT !.longs = @ - 1]
  BY <1>3 DEF Unreadable
<1> QED
  BY <1>1, <1>2, <1>3, WhoMoves

LEMMA TypeStep ==
  ASSUME TypeOK, ScenarioOK, Handled, Typing, Next
  PROVE  TypeOK' /\ ScenarioOK'
<1> USE Bounds
<1>1. ScenarioOK'
  <2>1. CASE scenario' = scenario
    BY <2>1 DEF ScenarioOK
  <2>2. CASE scenario.deaths > 0 /\ scenario' = [scenario EXCEPT !.deaths = @ - 1]
    BY <2>2 DEF ScenarioOK
  <2>3. CASE scenario.longs > 0 /\ scenario' = [scenario EXCEPT !.longs = @ - 1]
    BY <2>3 DEF ScenarioOK
  <2> QED
    BY <2>1, <2>2, <2>3, ScenarioMoves
<1>2. gen' \in Gens
  <2>1. CASE StartNext
    BY <2>1 DEF StartNext, TypeOK, Gens
  <2> QED
    BY <2>1, WhoMoves DEF TypeOK
<1>3. status' \in [Gens -> {"none", "running", "failed", "stopped"}]
  <2>1. CASE StopRest \/ SetRunning \/ \E g \in Gens : Fails(g)
    BY ZenonT(60), <2>1, FailFacts DEF StopRest, SetRunning, TypeOK
  <2> QED
    BY <2>1, WhoMoves DEF TypeOK
<1>4. alive' \in [Gens -> BOOLEAN] /\ listening' \in [Gens -> BOOLEAN]
  <2>1. alive' \in [Gens -> BOOLEAN]
    <3>1. CASE StopRest \/ StartNext \/ \E g \in Gens : Die(g)
      BY ZenonT(60), <3>1 DEF StopRest, StartNext, Die, TypeOK
    <3> QED
      BY <3>1, WhoMoves DEF TypeOK
  <2>2. listening' \in [Gens -> BOOLEAN]
    <3>1. CASE UNCHANGED listening
      BY <3>1 DEF TypeOK
    <3>2. CASE StopRest \/ StartNext \/ \E g \in Gens : EndBroadcast(g)
      BY ZenonT(60), <3>2 DEF StopRest, StartNext, EndBroadcast, CloseListener, TypeOK
    <3> QED
      BY <3>1, <3>2, WhoMoves
  <2> QED
    BY <2>1, <2>2
<1>5. clients' \in [Gens -> SUBSET Conns]
  <2>1. CASE \E k \in Conns : Unregister(k)
    <3>1. PICK k \in Conns : Unregister(k)
      BY <2>1
    <3>2. handler[k].at # "none" /\ clients' = [clients EXCEPT ![genOf[k]] = @ \ {k}]
      BY <3>1 DEF Unregister
    <3> QED
      BY <3>2, HandlerFacts DEF TypeOK
  <2>2. ASSUME NEW g \in Gens, Register(g) PROVE clients' \in [Gens -> SUBSET Conns]
    <3>1. accepted[g] # 0 /\ clients' = [clients EXCEPT ![g] = @ \cup {accepted[g]}]
      BY <2>2 DEF Register
    <3>2. accepted[g] \in Conns
      BY <3>1 DEF TypeOK
    <3> QED
      BY <3>1, <3>2 DEF TypeOK
  <2>3. ASSUME StopClients \/ \E g \in Gens : CloseAllClients(g)
        PROVE  \E g \in Gens : clients' = [clients EXCEPT ![g] = {}]
    BY <2>3 DEF StopClients, CloseAllClients, TypeOK
  <2> QED
    BY <2>1, <2>2, <2>3, WhoMoves DEF TypeOK
<1>6. nextID' \in [Gens -> Nat]
  <2>1. CASE \E k \in Conns : Scan(k)
    <3>1. \E g \in Gens, n \in Nat : nextID' = [nextID EXCEPT ![g] = n]
      BY <2>1, ScanFacts DEF Numbers
    <3> QED
      BY <3>1 DEF TypeOK
  <2> QED
    BY <2>1, WhoMoves DEF TypeOK
<1>7. idMap' \in [Gens -> SUBSET [pid : Nat, conn : Conns, id : Nat]]
  <2> DEFINE Entries == [pid : Nat, conn : Conns, id : Nat]
             Sets(S) == \E g : idMap' = [idMap EXCEPT ![g] = S]
  <2>0. idMap \in [Gens -> SUBSET Entries]
    BY DEF TypeOK
  <2>1. ASSUME NEW k \in Conns, Scan(k) PROVE \E S \in SUBSET Entries : Sets(S)
    <3>1. PICK g \in Gens, r \in Requests, n \in Nat : Numbers(k, g, r, n)
      BY <2>1, ScanFacts
    <3> DEFINE e == [pid |-> n, conn |-> k, id |-> r[2]]
    <3>2. e \in Entries
      BY RequestFacts
    <3>3. idMap' = [idMap EXCEPT ![g] = @ \cup {e}]
      BY <3>1 DEF Numbers
    <3>4. idMap[g] \cup {e} \in SUBSET Entries
      BY <2>0, <3>2
    <3> QED
      BY <3>3, <3>4
  <2>2. ASSUME NEW k \in Conns, Ends(k) PROVE \E S \in SUBSET Entries : Sets(S)
    <3>1. handler[k].at = "scan" /\ idMap' = [idMap EXCEPT ![genOf[k]] = {e \in @ : e.conn # k}]
      BY <2>2, EndFacts
    <3>2. genOf[k] \in Gens
      BY <3>1, HandlerFacts
    <3>3. {e \in idMap[genOf[k]] : e.conn # k} \in SUBSET Entries
      BY <2>0, <3>2
    <3> QED
      BY <3>1, <3>3
  <2>3. ASSUME NEW g \in Gens, EndBroadcast(g) \/ StopRest PROVE \E S \in SUBSET Entries : Sets(S)
    <3>1. \E h : idMap' = [idMap EXCEPT ![h] = {}]
      BY <2>3 DEF EndBroadcast, StopRest
    <3> QED
      BY <3>1
  <2>4. ASSUME NEW g \in Gens, Route(g) PROVE \E S \in SUBSET Entries : Sets(S)
    <3>1. PICK hit : idMap' = [idMap EXCEPT ![g] = @ \ hit]
      BY <2>4, RouteFacts
    <3>2. idMap[g] \ hit \in SUBSET Entries
      BY <2>0
    <3> QED
      BY <3>1, <3>2
  <2>5. UNCHANGED idMap \/ \E S \in SUBSET Entries : Sets(S)
    BY <2>1, <2>2, <2>3, <2>4, WhoMoves
  <2> QED
    BY <2>0, <2>5
<1>8. backlog' \in [Gens -> Seq(Conns)]
  <2>1. CASE \E c \in Clients : Dial(c)
    <3>1. PICK k \in Conns : backlog' = [backlog EXCEPT ![gen] = Append(@, k)]
      BY <2>1, DialFacts
    <3> QED
      BY <3>1 DEF TypeOK
  <2>2. CASE \E g \in Gens : Accept(g)
    <3>1. PICK g \in Gens : Accept(g)
      BY <2>2
    <3>2. backlog[g] # <<>> /\ backlog' = [backlog EXCEPT ![g] = Tail(@)]
      BY <3>1 DEF Accept
    <3>3. backlog[g] \in Seq(Conns)
      BY DEF TypeOK
    <3>4. Tail(backlog[g]) \in Seq(Conns)
      BY <3>2, <3>3
    <3> QED
      BY <3>2, <3>4 DEF TypeOK
  <2>3. CASE StopRest \/ \E g \in Gens : EndBroadcast(g)
    <3>1. \E g \in Gens : backlog' = [backlog EXCEPT ![g] = <<>>]
      BY <2>3 DEF StopRest, EndBroadcast, CloseListener, TypeOK
    <3> QED
      BY <3>1 DEF TypeOK
  <2> QED
    BY <2>1, <2>2, <2>3, WhoMoves DEF TypeOK
<1>9. accepted' \in [Gens -> 0..MaxConns]
  <2>1. CASE \E g \in Gens : Accept(g)
    <3>1. PICK g \in Gens : Accept(g)
      BY <2>1
    <3>2. accepted' = [accepted EXCEPT ![g] = Head(backlog[g])] \/ accepted' = accepted
      BY <3>1 DEF Accept
    <3>3. backlog[g] # <<>> /\ backlog[g] \in Seq(Conns)
      BY <3>1 DEF Accept, TypeOK
    <3>4. Head(backlog[g]) \in Conns
      BY <3>3
    <3> QED
      BY ZenonT(60), <3>2, <3>4 DEF TypeOK
  <2>2. CASE \E g \in Gens : Register(g)
    BY <2>2 DEF Register, TypeOK
  <2> QED
    BY <2>1, <2>2, WhoMoves DEF TypeOK
<1>10. broadcaster' \in [Gens -> {"none", "scan", "failed", "closed", "done"}]
  <2>1. CASE StartNext \/ \E g \in Gens : Fails(g) \/ CloseAllClients(g) \/ EndBroadcast(g)
    <3>1. \E v \in {"scan", "failed", "closed", "done"}, g \in Nat :
            broadcaster' = [broadcaster EXCEPT ![g] = v]
      BY <2>1, <1>2, FailFacts DEF StartNext, CloseAllClients, EndBroadcast, Gens
    <3> QED
      BY <3>1 DEF TypeOK
  <2> QED
    BY <2>1, WhoMoves DEF TypeOK
<1>11. stopper' \in [Gens -> {"starting", "no", "rest", "done"}]
  <2>1. CASE MonitorNext
    <3>1. \E v \in {"starting", "no", "rest", "done"} : \E g :
            stopper' = [stopper EXCEPT ![g] = v]
      BY <2>1 DEF MonitorNext, StopClients, StopRest, StartNext, SetRunning
    <3> QED
      BY <3>1 DEF TypeOK
  <2> QED
    BY <2>1, WhoMoves DEF TypeOK
<1>12. stdin' \in [Gens -> SUBSET [id : Nat, req : Requests]]
  <2> DEFINE Pairs == [id : Nat, req : Requests]
             Sets(S) == \E g : stdin' = [stdin EXCEPT ![g] = S]
  <2>0. stdin \in [Gens -> SUBSET Pairs]
    BY DEF TypeOK
  <2>1. ASSUME NEW k \in Conns, Forward(k) PROVE \E S \in SUBSET Pairs : Sets(S)
    <3> DEFINE m == [id |-> handler[k].id, req |-> handler[k].req]
               g == genOf[k]
    <3>1. handler[k].at = "hold"
      BY <2>1 DEF Forward
    <3>2. g \in Gens /\ m \in Pairs
      BY <3>1, HandlerFacts
    <3>3. stdin' = [stdin EXCEPT ![g] = IF alive[g] THEN @ \cup {m} ELSE @]
      BY <2>1, Zenon DEF Forward
    <3>4. (IF alive[g] THEN stdin[g] \cup {m} ELSE stdin[g]) \in SUBSET Pairs
      BY <2>0, <3>2
    <3> HIDE DEF g, m
    <3> QED
      BY <3>3, <3>4
  <2>2. ASSUME NEW g \in Gens, StopRest \/ Answer(g) \/ Die(g)
        PROVE  \E S \in SUBSET Pairs : Sets(S)
    <3>1. (\E h : stdin' = [stdin EXCEPT ![h] = {}]) \/ \E m : stdin' = [stdin EXCEPT ![g] = @ \ {m}]
      BY <2>2 DEF StopRest, Answer, Die
    <3>2. \A m : stdin[g] \ {m} \in SUBSET Pairs
      BY <2>0
    <3> QED
      BY <3>1, <3>2
  <2>3. UNCHANGED stdin \/ \E S \in SUBSET Pairs : Sets(S)
    BY <2>1, <2>2, WhoMoves
  <2> QED
    BY <2>0, <2>3
<1>13. stdout' \in [Gens -> Seq(Messages)]
  <2>0. stdout \in [Gens -> Seq(Messages)]
    BY DEF TypeOK, Messages
  <2>1. ASSUME NEW g \in Gens, Route(g) PROVE stdout' \in [Gens -> Seq(Messages)]
    <3>1. stdout[g] # <<>> /\ stdout' = [stdout EXCEPT ![g] = Tail(@)]
      BY <2>1, RouteFacts
    <3>2. Tail(stdout[g]) \in Seq(Messages)
      BY <2>0, <3>1
    <3> QED
      BY <2>0, <3>1, <3>2
  <2>2. ASSUME NEW g \in Gens, Answer(g) \/ AskClients(g)
        PROVE  \E m \in Messages : stdout' = [stdout EXCEPT ![g] = Append(@, m)]
    <3>1. CASE Answer(g)
      <4>1. PICK m \in stdin[g] : stdout' = [stdout EXCEPT ![g] = Append(@, m)]
        BY <3>1 DEF Answer
      <4>2. m \in [id : Nat, req : Requests]
        BY DEF TypeOK
      <4>3. m \in Messages
        BY <4>2 DEF Messages
      <4> QED
        BY <4>1, <4>3
    <3>2. CASE AskClients(g)
      <4> DEFINE m == [id |-> serverAsked[g] + 1, req |-> Ask]
      <4>1. m \in Messages
        <5>1. serverAsked[g] \in Nat
          BY DEF TypeOK
        <5> QED
          BY <5>1 DEF Messages
      <4>2. stdout' = [stdout EXCEPT ![g] = Append(@, m)]
        BY <3>2 DEF AskClients
      <4> QED
        BY <4>1, <4>2
    <3> QED
      BY <2>2, <3>1, <3>2
  <2>3. \A g \in Gens, m \in Messages : Append(stdout[g], m) \in Seq(Messages)
    BY <2>0
  <2>4. CASE StopRest
    <3>1. \E g : stdout' = [stdout EXCEPT ![g] = <<>>]
      BY <2>4 DEF StopRest
    <3>2. <<>> \in Seq(Messages)
      OBVIOUS
    <3> QED
      BY <2>0, <3>1, <3>2
  <2>5. ASSUME NEW g \in Gens, Answer(g) \/ AskClients(g) PROVE stdout' \in [Gens -> Seq(Messages)]
    <3>1. PICK m \in Messages : stdout' = [stdout EXCEPT ![g] = Append(@, m)]
      BY <2>2, <2>5
    <3>2. Append(stdout[g], m) \in Seq(Messages)
      BY <2>3
    <3> QED
      BY <2>0, <3>1, <3>2
  <2> QED
    BY <2>0, <2>1, <2>4, <2>5, WhoMoves
<1>14. serverAsked' \in [Gens -> Nat]
  <2>1. CASE \E g \in Gens : AskClients(g)
    <3>1. \E g \in Gens : serverAsked' = [serverAsked EXCEPT ![g] = @ + 1]
      BY <2>1 DEF AskClients
    <3>2. serverAsked \in [Gens -> Nat]
      BY DEF TypeOK
    <3> QED
      BY <3>1, <3>2
  <2> QED
    BY <2>1, WhoMoves DEF TypeOK
<1>15. conn' \in [Conns -> {"none", "open", "shut", "left"}]
  <2>1. CASE \E c \in Clients : Dial(c)
    <3>1. PICK k \in Conns : conn' = [conn EXCEPT ![k] = "open"]
      BY <2>1, DialFacts
    <3> QED
      BY <3>1 DEF TypeOK
  <2>2. CASE \E c \in Clients : Leave(c)
    BY <2>2 DEF Leave, TypeOK
  <2>3. CASE \E ks : conn' = Shut(ks)
    BY <2>3 DEF Shut, TypeOK
  <2>4. ASSUME StopClients \/ StopRest \/ (\E k \in Conns : Unregister(k))
                  \/ \E g \in Gens : Accept(g) \/ CloseAllClients(g) \/ EndBroadcast(g)
        PROVE  (\E ks : conn' = Shut(ks)) \/ conn' = conn
    BY <2>4 DEF StopClients, StopRest, Unregister, Accept, CloseAllClients, EndBroadcast, CloseListener
  <2> QED
    BY <2>1, <2>2, <2>3, <2>4, WhoMoves DEF TypeOK
<1>16. genOf' \in [Conns -> 0..MaxGens]
  <2>1. CASE \E c \in Clients : Dial(c)
    <3>1. PICK k \in Conns : genOf' = [genOf EXCEPT ![k] = gen]
      BY <2>1, DialFacts
    <3> QED
      BY <3>1 DEF TypeOK
  <2> QED
    BY <2>1, WhoMoves DEF TypeOK
<1>17. up' \in [Conns -> Seq(Requests)]
  <2>1. CASE \E c \in Clients : Copy(c)
    <3>1. PICK c \in Clients : Copy(c)
      BY <2>1
    <3>2. up' = up \/ \E k \in Conns, r \in Requests : up' = [up EXCEPT ![k] = Append(@, r)]
      BY <3>1, CopyFacts DEF Writes
    <3>3. up \in [Conns -> Seq(Requests)]
      BY DEF TypeOK
    <3>4. \A k \in Conns, r \in Requests : Append(up[k], r) \in Seq(Requests)
      BY <3>3
    <3> QED
      BY <3>2, <3>3, <3>4
  <2>2. CASE \E k \in Conns : Scan(k)
    <3>1. PICK k \in Conns : up[k] # <<>> /\ up' = [up EXCEPT ![k] = Tail(@)]
      BY <2>2 DEF Scan
    <3>2. Tail(up[k]) \in Seq(Requests)
      BY <3>1 DEF TypeOK
    <3> QED
      BY <3>1, <3>2 DEF TypeOK
  <2>3. CASE \E k \in Conns : Ends(k)
    <3>1. PICK k \in Conns : up' = [up EXCEPT ![k] = <<>>]
      BY <2>3, EndFacts
    <3>2. up \in [Conns -> Seq(Requests)] /\ <<>> \in Seq(Requests)
      BY DEF TypeOK
    <3> QED
      BY <3>1, <3>2
  <2> QED
    BY <2>1, <2>2, <2>3, WhoMoves DEF TypeOK
<1>18. down' \in [Conns -> Seq(Messages)]
  <2>0. down \in [Conns -> Seq(Messages)]
    BY DEF TypeOK, Messages
  <2>1. ASSUME NEW c \in Clients, Receive(c) PROVE down' \in [Conns -> Seq(Messages)]
    <3>1. /\ shim[c] # 0 /\ down[shim[c]] # <<>>
          /\ down' = [down EXCEPT ![shim[c]] = Tail(@)]
      BY <2>1 DEF Receive
    <3>2. shim[c] \in Conns
      BY <3>1 DEF TypeOK
    <3>3. Tail(down[shim[c]]) \in Seq(Messages)
      BY <2>0, <3>1, <3>2
    <3> QED
      BY <2>0, <3>1, <3>3
  <2>2. ASSUME NEW ks, NEW n \in Messages, down' = Post(ks, n) PROVE down' \in [Conns -> Seq(Messages)]
    <3>1. \A k \in Conns : Append(down[k], n) \in Seq(Messages)
      BY <2>0
    <3> QED
      BY <2>0, <2>2, <3>1 DEF Post
  <2>3. ASSUME NEW g \in Gens, Route(g) PROVE down' \in [Conns -> Seq(Messages)]
    <3>1. down' = down \/ \E ks : \E n \in Messages : down' = Post(ks, n)
      BY <2>3, RouteFacts
    <3> QED
      BY <2>0, <2>2, <3>1
  <2> QED
    BY <2>0, <2>1, <2>3, WhoMoves
<1>19. handler' \in [Conns -> [at : {"none", "scan", "leave", "end", "cut", "severed"}]
                             \cup [at : {"hold"}, id : Nat, req : Requests]]
  <2> DEFINE States == [at : {"none", "scan", "leave", "end", "cut", "severed"}]
                             \cup [at : {"hold"}, id : Nat, req : Requests]
  <2>0. handler \in [Conns -> States]
    BY DEF TypeOK
  <2>1. ASSUME NEW k \in Conns, Scan(k) PROVE \E h \in States : handler' = [handler EXCEPT ![k] = h]
    <3>1. PICK g \in Gens, r \in Requests, n \in Nat : Numbers(k, g, r, n)
      BY <2>1, ScanFacts
    <3>2. [at |-> "hold", id |-> n, req |-> r] \in States
      OBVIOUS
    <3> QED
      BY <3>1, <3>2 DEF Numbers
  <2>2. \A at \in {"scan", "leave", "end", "cut", "severed"} : [at |-> at] \in States
    OBVIOUS
  <2> HIDE DEF States
  <2>3. ASSUME (\E g \in Gens : Register(g)) \/ \E k \in Conns : Forward(k) \/ Ends(k) \/ Unregister(k)
        PROVE  \E k : \E h \in States : handler' = [handler EXCEPT ![k] = h]
    BY ZenonT(60), <2>2, <2>3, EndFacts DEF Register, Forward, Unregister
  <2>4. UNCHANGED handler \/ \E k : \E h \in States : handler' = [handler EXCEPT ![k] = h]
    BY <2>1, <2>3, WhoMoves DEF HandlerNext, Ends
  <2>5. handler' \in [Conns -> States]
    BY <2>0, <2>4
  <2> QED
    BY <2>5 DEF States
<1>20. asked' \in [Clients -> Nat] /\ got' \in [Requests -> Requests \cup {None, Ask}]
  <2>1. asked' \in [Clients -> Nat]
    <3>1. UNCHANGED asked \/ \E c \in Clients : asked' = [asked EXCEPT ![c] = @ + 1]
      BY WhoMoves DEF Type
    <3>2. asked \in [Clients -> Nat]
      BY DEF TypeOK
    <3> QED
      BY <3>1, <3>2
  <2>2. got' \in [Requests -> Requests \cup {None, Ask}]
    <3>1. CASE \E c \in Clients : Receive(c)
      <4>1. PICK c \in Clients : Receive(c)
        BY <3>1
      <4> DEFINE m == Head(down[shim[c]])
      <4>2. shim[c] # 0 /\ down[shim[c]] # <<>>
        BY <4>1 DEF Receive
      <4>3. shim[c] \in Conns /\ down \in [Conns -> Seq(Messages)]
        BY <4>2 DEF TypeOK, Messages
      <4>4. m \in Messages
        BY <4>2, <4>3
      <4>5. m.req \in Requests \cup {Ask}
        BY <4>4 DEF Messages
      <4>6. got' = got \/ \E r : got' = [got EXCEPT ![r] = IF @ = None THEN m.req ELSE @]
        BY <4>1 DEF Receive
      <4> HIDE DEF m
      <4> QED
        BY <4>5, <4>6 DEF TypeOK
    <3> QED
      BY <3>1, WhoMoves DEF TypeOK
  <2> QED
    BY <2>1, <2>2
<1>21. present' \in [Clients -> BOOLEAN] /\ stale' \in [Clients -> Nat]
  <2>1. /\ UNCHANGED present \/ \E c \in Clients : present' = [present EXCEPT ![c] = FALSE]
        /\ UNCHANGED stale \/ \E c \in Clients :
             \/ stale[c] > 0 /\ stale' = [stale EXCEPT ![c] = @ - 1]
             \/ stale' = [stale EXCEPT ![c] = @ + 1]
             \/ stale' = [stale EXCEPT ![c] = 0]
    BY WhoMoves DEF Leave, StaleCopy, Drop
  <2>2. present \in [Clients -> BOOLEAN] /\ stale \in [Clients -> Nat]
    BY DEF TypeOK
  <2>3. present' \in [Clients -> BOOLEAN]
    BY <2>1, <2>2
  <2>4. stale' \in [Clients -> Nat]
    BY <2>1, <2>2
  <2> QED
    BY <2>3, <2>4
<1>22. typed' \in [Clients -> Seq(Requests)]
  <2>1. ASSUME NEW c \in Clients, Type(c) PROVE typed' \in [Clients -> Seq(Requests)]
    <3>1. asked[c] \in Nat /\ asked[c] < scenario.asks[c] /\ scenario.asks[c] \in 0..MaxAsks
      BY <2>1 DEF Type, TypeOK
    <3>2. <<c, asked[c] + 1>> \in Requests
      BY <3>1, RequestFacts
    <3>3. typed' = [typed EXCEPT ![c] = Append(@, <<c, asked[c] + 1>>)]
      BY <2>1 DEF Type
    <3> QED
      BY <3>2, <3>3 DEF TypeOK
  <2>2. ASSUME NEW c \in Clients, Copy(c) \/ StaleCopy(c) PROVE typed' \in [Clients -> Seq(Requests)]
    <3>1. typed[c] # <<>> /\ typed' = [typed EXCEPT ![c] = Tail(@)]
      BY <2>2 DEF Copy, StaleCopy
    <3>2. Tail(typed[c]) \in Seq(Requests)
      BY <3>1 DEF TypeOK
    <3> QED
      BY <3>1, <3>2 DEF TypeOK
  <2>3. CASE \E c \in Clients : Leave(c)
    BY <2>3 DEF Leave, TypeOK
  <2> QED
    BY <2>1, <2>2, <2>3, WhoMoves DEF TypeOK
<1>23. shim' \in [Clients -> 0..MaxConns]
  <2>1. ASSUME NEW c \in Clients, Dial(c) \/ Copy(c) PROVE shim' \in [Clients -> 0..MaxConns]
    <3>1. shim' = shim \/ \E k \in 0..MaxConns : shim' = [shim EXCEPT ![c] = k]
      BY <2>1, DialFacts, CopyFacts DEF Writes
    <3> QED
      BY <3>1 DEF TypeOK
  <2>2. CASE \E c \in Clients : Drop(c) \/ Leave(c)
    <3>1. \E c : shim' = [shim EXCEPT ![c] = 0]
      BY <2>2 DEF Drop, Leave
    <3>2. shim \in [Clients -> 0..MaxConns] /\ 0 \in 0..MaxConns
      BY DEF TypeOK
    <3> QED
      BY <3>1, <3>2
  <2> QED
    BY <2>1, <2>2, WhoMoves DEF TypeOK
<1>24. via' \in [Requests -> 0..MaxConns]
  <2>1. CASE \E c \in Clients : Copy(c)
    <3>1. via' = via \/ \E k \in Conns, r \in Requests : via' = [via EXCEPT ![r] = k]
      BY <2>1, CopyFacts DEF Writes
    <3> QED
      BY <3>1 DEF TypeOK
  <2> QED
    BY <2>1, WhoMoves DEF TypeOK
<1>25. scenario'.asks \in [Clients -> 0..MaxAsks] /\ {scenario'.deaths, scenario'.longs} \subseteq Nat
  BY <1>1 DEF ScenarioOK
<1> QED
  BY <1>1, <1>2, <1>3, <1>4, <1>5, <1>6, <1>7, <1>8, <1>9, <1>10, <1>11, <1>12, <1>13, <1>14,
     <1>15, <1>16, <1>17, <1>18, <1>19, <1>20, <1>21, <1>22, <1>23, <1>24, <1>25 DEF TypeOK, Messages

-----------------------------------------------------------------------------
\* What stays.

\* A connection is opened once, and closed once by one of its ends.
LEMMA ConnMoves ==
  ASSUME TypeOK, ScenarioOK, Next, NEW k \in Conns
  PROVE  \/ conn'[k] = conn[k] /\ genOf'[k] = genOf[k]
         \/ conn[k] = "none" /\ conn'[k] = "open" /\ genOf'[k] = gen
         \/ conn[k] = "open" /\ conn'[k] \in {"shut", "left"} /\ genOf'[k] = genOf[k]
<1>0. conn \in [Conns -> {"none", "open", "shut", "left"}] /\ genOf \in [Conns -> 0..MaxGens]
  BY DEF TypeOK
<1>1. CASE \E c \in Clients : Dial(c)
  <2>1. PICK j \in Conns : /\ conn[j] = "none" /\ conn' = [conn EXCEPT ![j] = "open"]
                           /\ genOf' = [genOf EXCEPT ![j] = gen]
    BY <1>1, DialFacts
  <2> QED
    BY <1>0, <2>1
<1>2. CASE ~\E c \in Clients : Dial(c)
  <2>1. genOf' = genOf
    BY <1>2, WhoMoves
  <2>2. CASE \E c \in Clients : Leave(c)
    BY <1>0, <2>1, <2>2 DEF Leave
  <2>3. ASSUME StopClients \/ StopRest \/ (\E j \in Conns : Unregister(j))
                  \/ \E g \in Gens : Accept(g) \/ CloseAllClients(g) \/ EndBroadcast(g)
        PROVE  (\E ks : conn' = Shut(ks)) \/ conn' = conn
    BY <2>3 DEF StopClients, StopRest, Unregister, Accept, CloseAllClients, EndBroadcast, CloseListener
  <2>4. CASE \E ks : conn' = Shut(ks)
    BY <1>0, <2>1, <2>4 DEF Shut
  <2> QED
    BY <1>2, <2>1, <2>2, <2>3, <2>4, WhoMoves
<1> QED
  BY <1>1, <1>2

\* How the handler of a connection goes on.
LEMMA HandlerMoves ==
  ASSUME TypeOK, Handled, Next, NEW k \in Conns
  PROVE  \/ handler'[k] = handler[k]
         \/ handler'[k].at = "scan" /\ \E g \in Gens : Register(g) /\ k = accepted[g]
         \/ handler[k].at = "scan" /\ handler'[k].at = "hold" /\ Scan(k)
         \/ handler[k].at = "hold" /\ handler'[k].at = "scan" /\ Forward(k)
         \/ handler[k].at = "scan" /\ handler'[k].at = "leave" /\ EndScan(k)
         \/ handler[k].at = "scan" /\ handler'[k].at = "cut" /\ TooLong(k)
         \/ handler[k].at = "leave" /\ handler'[k].at = "end" /\ Unregister(k)
         \/ handler[k].at = "cut" /\ handler'[k].at = "severed" /\ Unregister(k)
<1>0. handler \in [Conns -> [at : {"none", "scan", "leave", "end", "cut", "severed"}]
                             \cup [at : {"hold"}, id : Nat, req : Requests]]
  BY DEF TypeOK
<1>1. ASSUME NEW g \in Gens, Register(g)
      PROVE  handler'[k] = handler[k] \/ (handler'[k].at = "scan" /\ k = accepted[g])
  <2>1. handler' = [handler EXCEPT ![accepted[g]] = [at |-> "scan"]]
    BY <1>1 DEF Register
  <2> QED
    BY <1>0, <2>1
<1>2. ASSUME NEW j \in Conns, Scan(j)
      PROVE  handler'[k] = handler[k]
               \/ (k = j /\ handler[k].at = "scan" /\ handler'[k].at = "hold")
  <2>1. PICK g \in Gens, r \in Requests, n \in Nat : Numbers(j, g, r, n)
    BY <1>2, ScanFacts
  <2>2. handler[j].at = "scan" /\ handler' = [handler EXCEPT ![j] = [at |-> "hold", id |-> n, req |-> r]]
    BY <2>1 DEF Numbers
  <2> QED
    BY <1>0, <2>2
<1>3. ASSUME NEW j \in Conns, Forward(j)
      PROVE  handler'[k] = handler[k]
               \/ (k = j /\ handler[k].at = "hold" /\ handler'[k].at = "scan")
  <2>1. handler[j].at = "hold" /\ handler' = [handler EXCEPT ![j] = [at |-> "scan"]]
    BY <1>3 DEF Forward
  <2> QED
    BY <1>0, <2>1
<1>4. ASSUME NEW j \in Conns, Ends(j)
      PROVE  \/ handler'[k] = handler[k]
             \/ EndScan(j) /\ k = j /\ handler[k].at = "scan" /\ handler'[k].at = "leave"
             \/ TooLong(j) /\ k = j /\ handler[k].at = "scan" /\ handler'[k].at = "cut"
  BY <1>0, <1>4, EndFacts
<1>5. ASSUME NEW j \in Conns, Unregister(j)
      PROVE  \/ handler'[k] = handler[k]
             \/ k = j /\ handler[k].at = "leave" /\ handler'[k].at = "end"
             \/ k = j /\ handler[k].at = "cut" /\ handler'[k].at = "severed"
  <2>1. CASE handler[j].at = "leave"
    <3>1. handler' = [handler EXCEPT ![j] = [at |-> "end"]]
      BY <1>5, <2>1 DEF Unregister, Cut
    <3> QED
      BY <1>0, <2>1, <3>1
  <2>2. CASE handler[j].at = "cut"
    <3>1. handler' = [handler EXCEPT ![j] = [at |-> "severed"]]
      BY <1>5, <2>2 DEF Unregister, Cut
    <3> QED
      BY <1>0, <2>2, <3>1
  <2> QED
    BY <1>5, <2>1, <2>2 DEF Unregister
<1>6. CASE \E g \in Gens : Register(g)
  BY <1>1, <1>6
<1>7. CASE \E j \in Conns : HandlerNext(j)
  BY <1>2, <1>3, <1>4, <1>5, <1>7 DEF HandlerNext, Ends
<1> QED
  BY <1>6, <1>7, WhoMoves

LEMMA Grows ==
  ASSUME TypeOK, ScenarioOK, Handled, Typing, Next
  PROVE  /\ \A k \in Conns : /\ conn[k] # "none" => conn'[k] # "none" /\ genOf'[k] = genOf[k]
                             /\ conn[k] = "left" => conn'[k] = "left"
                             /\ conn'[k] = "open" => conn[k] \in {"open", "none"}
                             /\ handler[k].at # "none" => handler'[k].at # "none"
         /\ \A r \in Requests : via[r] # 0 => via'[r] = via[r]
         /\ \A g \in Gens : serverAsked[g] <= serverAsked'[g] /\ nextID[g] <= nextID'[g]
         /\ gen <= gen' /\ \A c \in Clients : asked[c] <= asked'[c]
<1>1. \A k \in Conns : /\ conn[k] # "none" => conn'[k] # "none" /\ genOf'[k] = genOf[k]
                       /\ conn[k] = "left" => conn'[k] = "left"
                       /\ conn'[k] = "open" => conn[k] \in {"open", "none"}
  BY ConnMoves
<1>2. \A k \in Conns : handler[k].at # "none" => handler'[k].at # "none"
  BY HandlerMoves
<1>3. \A r \in Requests : via[r] # 0 => via'[r] = via[r]
  <2>1. ASSUME NEW c \in Clients, Copy(c), NEW k \in Conns, NEW r \in Requests, Writes(c, k, r)
        PROVE  \A q \in Requests : via[q] # 0 => via'[q] = via[q]
    <3>1. via[r] = 0 /\ via' = [via EXCEPT ![r] = k]
      BY <2>1 DEF Writes, Typing
    <3> QED
      BY <3>1 DEF TypeOK
  <2> QED
    BY <2>1, CopyFacts, WhoMoves
<1>4. \A g \in Gens : serverAsked[g] <= serverAsked'[g]
  <2>1. serverAsked \in [Gens -> Nat]
    BY DEF TypeOK
  <2>2. UNCHANGED serverAsked \/ \E h \in Gens : serverAsked' = [serverAsked EXCEPT ![h] = @ + 1]
    BY WhoMoves DEF AskClients
  <2> QED
    BY <2>1, <2>2
<1>5. \A g \in Gens : nextID[g] <= nextID'[g]
  <2>1. nextID \in [Gens -> Nat]
    BY DEF TypeOK
  <2>2. UNCHANGED nextID \/ \E h \in Gens : nextID' = [nextID EXCEPT ![h] = nextID[h] + 1]
    BY WhoMoves, ScanFacts DEF Numbers
  <2> QED
    BY <2>1, <2>2
<1>6. gen <= gen'
  <2>1. gen \in Nat /\ (gen' = gen \/ gen' = gen + 1)
    BY WhoMoves DEF StartNext, TypeOK, Gens
  <2> QED
    BY <2>1
<1>7. \A c \in Clients : asked[c] <= asked'[c]
  <2>1. asked \in [Clients -> Nat]
    BY DEF TypeOK
  <2>2. UNCHANGED asked \/ \E c \in Clients : asked' = [asked EXCEPT ![c] = @ + 1]
    BY WhoMoves DEF Type
  <2> QED
    BY <2>1, <2>2
<1> QED
  BY <1>1, <1>2, <1>3, <1>4, <1>5, <1>6, <1>7

-----------------------------------------------------------------------------
\* Queues: taking the first, adding a last.

LEMMA TailFacts ==
  ASSUME NEW S, NEW s \in Seq(S), s # <<>>
  PROVE  /\ 1 \in DOMAIN s /\ Head(s) = s[1] /\ s[1] \in S
         /\ Tail(s) \in Seq(S)
         /\ \A i \in DOMAIN Tail(s) : Tail(s)[i] = s[i + 1] /\ i + 1 \in DOMAIN s
                                     /\ i \in Nat /\ i + 1 # 1
<1>1. Len(s) \in Nat /\ Len(s) > 0 /\ DOMAIN s = 1..Len(s)
  OBVIOUS
<1>2. DOMAIN Tail(s) = 1..(Len(s) - 1)
  BY <1>1
<1>3. \A i \in 1..(Len(s) - 1) : i \in Nat /\ i + 1 \in 1..Len(s) /\ i + 1 # 1
  BY <1>1
<1>4. \A i \in DOMAIN Tail(s) : Tail(s)[i] = s[i + 1]
  BY <1>1, <1>2
<1> QED
  BY <1>1, <1>2, <1>3, <1>4

LEMMA AppendFacts ==
  ASSUME NEW S, NEW s \in Seq(S), NEW x \in S
  PROVE  /\ Append(s, x) \in Seq(S)
         /\ \A i \in DOMAIN Append(s, x) :
              \/ i \in DOMAIN s /\ Append(s, x)[i] = s[i]
              \/ i = Len(s) + 1 /\ i \notin DOMAIN s /\ Append(s, x)[i] = x
OBVIOUS

-----------------------------------------------------------------------------
\* The sessions and what they write.

\* What session c has typed.
TypedBy(c) ==
  \A i \in DOMAIN typed[c] :
    /\ typed[c][i][1] = c /\ typed[c][i][2] <= asked[c]
    /\ via[typed[c][i]] = 0
    /\ \A j \in DOMAIN typed[c] : typed[c][i] = typed[c][j] => i = j

LEMMA AsksKept ==
  ASSUME TypeOK, ScenarioOK, Next
  PROVE  scenario'.asks = scenario.asks
BY ScenarioMoves DEF ScenarioOK

LEMMA TypingStep ==
  ASSUME TypeOK, ScenarioOK, Handled, Typing, Written, Next
  PROVE  Typing'
<1>1. SUFFICES ASSUME NEW c \in Clients PROVE asked'[c] <= scenario'.asks[c] /\ TypedBy(c)'
  BY DEF Typing, TypedBy
<1>2. TypedBy(c) /\ asked[c] <= scenario.asks[c] /\ asked[c] \in Nat /\ asked[c] <= asked'[c]
  BY Grows DEF Typing, TypedBy, TypeOK
<1>3. asked'[c] <= scenario'.asks[c]
  <2>1. asked'[c] = asked[c] \/ (asked[c] < scenario.asks[c] /\ asked'[c] = asked[c] + 1)
    <3>1. UNCHANGED asked \/ \E d \in Clients : asked[d] < scenario.asks[d]
                                /\ asked' = [asked EXCEPT ![d] = @ + 1]
      BY WhoMoves DEF Type
    <3> QED
      BY <3>1 DEF TypeOK
  <2>2. scenario.asks[c] \in Nat
    BY Bounds DEF ScenarioOK
  <2> QED
    BY <1>2, <2>1, <2>2, AsksKept
<1>4. /\ typed[c] \in Seq(Requests) /\ typed \in [Clients -> Seq(Requests)]
      /\ asked'[c] \in Nat
      /\ via \in [Requests -> 0..MaxConns]
  <2>1. TypeOK'
    BY TypeStep
  <2> QED
    BY <2>1 DEF TypeOK
<1>5. \A i \in DOMAIN typed[c] : typed[c][i] \in Requests
  BY <1>4
<1>6. ASSUME typed'[c] = typed[c], via' = via PROVE TypedBy(c)'
  <2> SUFFICES ASSUME NEW i \in DOMAIN typed[c]
               PROVE  /\ typed[c][i][1] = c /\ typed[c][i][2] <= asked'[c]
                      /\ via[typed[c][i]] = 0
                      /\ \A j \in DOMAIN typed[c] : typed[c][i] = typed[c][j] => i = j
    BY <1>6 DEF TypedBy
  <2>1. typed[c][i][2] \in Nat
    BY <1>5, RequestFacts
  <2> QED
    BY <1>2, <1>4, <2>1 DEF TypedBy
<1>7. ASSUME typed' = typed, via' = via PROVE TypedBy(c)'
  BY <1>6, <1>7
<1>8. ASSUME NEW d \in Clients, Type(d) PROVE TypedBy(c)'
  <2>1. /\ asked[d] \in Nat /\ asked'[d] = asked[d] + 1
        /\ typed' = [typed EXCEPT ![d] = Append(@, <<d, asked[d] + 1>>)]
        /\ asked[d] < scenario.asks[d] /\ scenario.asks[d] \in 0..MaxAsks /\ via' = via
    BY <1>8 DEF Type, TypeOK
  <2>2. CASE d # c
    <3>1. typed'[c] = typed[c]
      BY <1>4, <2>1, <2>2
    <3> QED
      BY <1>6, <2>1, <3>1
  <2>3. CASE d = c
    <3> DEFINE r == <<c, asked[c] + 1>>
    <3>1. r \in Requests /\ r[1] = c /\ r[2] = asked[c] + 1
      BY <2>1, <2>3, RequestFacts, Bounds
    <3>2. via[r] = 0
      BY <1>2, <2>1, <2>3, <3>1 DEF Written
    <3>3. typed'[c] = Append(typed[c], r)
      BY <1>4, <2>1, <2>3
    <3> HIDE DEF r
    <3>4. /\ DOMAIN typed'[c] = DOMAIN typed[c] \cup {Len(typed[c]) + 1}
          /\ typed'[c][Len(typed[c]) + 1] = r /\ Len(typed[c]) + 1 \notin DOMAIN typed[c]
          /\ \A i \in DOMAIN typed[c] : typed'[c][i] = typed[c][i]
      BY <1>4, <3>1, <3>3
    <3>5. \A i \in DOMAIN typed[c] : typed[c][i][2] \in Nat /\ typed[c][i][2] <= asked[c]
      BY <1>2, <1>5, RequestFacts DEF TypedBy
    <3>6. \A i \in DOMAIN typed[c] : typed[c][i] # r
      BY <1>2, <3>1, <3>5
    <3>7. \A i \in DOMAIN typed[c] : typed[c][i][2] <= asked'[c]
      BY <1>2, <1>4, <3>5
    <3> QED
      <4>1. asked'[c] \in Nat /\ r[2] <= asked'[c]
        BY <1>4, <2>1, <2>3, <3>1
      <4>2. \A i \in DOMAIN typed'[c] : typed'[c][i] = r \/ i \in DOMAIN typed[c]
        BY <3>4
      <4>3. \A i \in DOMAIN typed'[c] :
              typed'[c][i][1] = c /\ typed'[c][i][2] <= asked'[c] /\ via'[typed'[c][i]] = 0
        <5> SUFFICES ASSUME NEW i \in DOMAIN typed'[c]
                     PROVE  /\ typed'[c][i][1] = c /\ typed'[c][i][2] <= asked'[c]
                            /\ via'[typed'[c][i]] = 0
          OBVIOUS
        <5>1. CASE typed'[c][i] = r
          BY <2>1, <3>1, <3>2, <4>1, <5>1
        <5>2. CASE i \in DOMAIN typed[c]
          BY <1>2, <2>1, <3>4, <3>7, <5>2 DEF TypedBy
        <5> QED
          BY <4>2, <5>1, <5>2
      <4>4. \A i, j \in DOMAIN typed'[c] : typed'[c][i] = typed'[c][j] => i = j
        BY <1>2, <3>4, <3>6 DEF TypedBy
      <4> QED
        BY <4>3, <4>4 DEF TypedBy
  <2> QED
    BY <2>2, <2>3
<1>9. ASSUME NEW d \in Clients, Leave(d) PROVE TypedBy(c)'
  <2>1. typed' = [typed EXCEPT ![d] = <<>>] /\ via' = via
    BY <1>9 DEF Leave
  <2>2. CASE d # c
    BY <1>4, <1>6, <2>1, <2>2
  <2>3. CASE d = c
    BY <1>4, <2>1, <2>3 DEF TypedBy
  <2> QED
    BY <2>2, <2>3
<1>10. ASSUME NEW d \in Clients, Copy(d) \/ StaleCopy(d) PROVE TypedBy(c)'
  <2>1. /\ typed[d] # <<>> /\ typed' = [typed EXCEPT ![d] = Tail(@)]
        /\ via' = via \/ \E k \in Conns : via' = [via EXCEPT ![typed[d][1]] = k]
    <3>1. CASE StaleCopy(d)
      BY <3>1 DEF StaleCopy
    <3>2. CASE Copy(d)
      BY <3>2, CopyFacts DEF Writes
    <3> QED
      BY <1>10, <3>1, <3>2
  <2>2. asked' = asked
    BY <1>10 DEF Copy, StaleCopy
  <2>3. typed[d] \in Seq(Requests) /\ 1 \in DOMAIN typed[d] /\ typed[d][1] \in Requests
    BY <1>4, <2>1
  <2>4. typed[d][1][1] = d
    BY <2>3 DEF Typing
  <2>5. CASE d # c
    <3>1. \A i \in DOMAIN typed[c] : typed[c][i] # typed[d][1]
      BY <1>2, <2>4, <2>5 DEF TypedBy
    <3>2. \A i \in DOMAIN typed[c] : via'[typed[c][i]] = via[typed[c][i]]
      BY <1>4, <1>5, <2>1, <3>1
    <3>3. typed'[c] = typed[c]
      BY <1>4, <2>1, <2>5
    <3> QED
      BY <1>2, <2>2, <3>2, <3>3 DEF TypedBy
  <2>6. CASE d = c
    <3>1. /\ typed'[c] = Tail(typed[c]) /\ DOMAIN typed'[c] = 1..(Len(typed[c]) - 1)
          /\ \A i \in DOMAIN typed'[c] : typed'[c][i] = typed[c][i + 1] /\ i + 1 \in DOMAIN typed[c]
                                         /\ i \in Nat /\ i + 1 # 1
      BY <1>4, <2>1, <2>6
    <3>2. \A i \in DOMAIN typed'[c] : typed'[c][i] # typed[c][1]
      BY <1>2, <2>3, <2>6, <3>1 DEF TypedBy
    <3>3. \A i \in DOMAIN typed'[c] : typed'[c][i] \in Requests /\ via'[typed'[c][i]] = via[typed'[c][i]]
      BY <1>4, <1>5, <2>1, <2>6, <3>1, <3>2
    <3>4. \A i \in DOMAIN typed'[c] : typed'[c][i][1] = c /\ typed'[c][i][2] <= asked[c] /\ via'[typed'[c][i]] = 0
      BY <1>2, <3>1, <3>3 DEF TypedBy
    <3>5. \A i, j \in DOMAIN typed'[c] : typed'[c][i] = typed'[c][j] => i = j
      <4> SUFFICES ASSUME NEW i \in DOMAIN typed'[c], NEW j \in DOMAIN typed'[c],
                          typed'[c][i] = typed'[c][j]
                   PROVE  i = j
        OBVIOUS
      <4>1. typed[c][i + 1] = typed[c][j + 1] /\ i + 1 \in DOMAIN typed[c] /\ j + 1 \in DOMAIN typed[c]
        BY <3>1
      <4>2. i + 1 = j + 1
        BY <1>2, <4>1 DEF TypedBy
      <4>3. i \in Nat /\ j \in Nat
        BY <3>1
      <4> QED
        BY <4>2, <4>3
    <3> QED
      BY <2>2, <3>4, <3>5 DEF TypedBy
  <2> QED
    BY <2>5, <2>6
<1>11. TypedBy(c)'
  BY <1>7, <1>8, <1>9, <1>10, WhoMoves
<1> QED
  BY <1>3, <1>11

LEMMA WrittenStep ==
  ASSUME TypeOK, ScenarioOK, Handled, Typing, Written, Next
  PROVE  Written'
<1>1. \A r \in Requests : via'[r] # 0 => conn'[via'[r]] # "none" /\ r[2] <= asked'[r[1]]
  <2> SUFFICES ASSUME NEW r \in Requests, via'[r] # 0
               PROVE  conn'[via'[r]] # "none" /\ r[2] <= asked'[r[1]]
    OBVIOUS
  <2>0. r[1] \in Clients /\ r[2] \in Nat /\ asked[r[1]] \in Nat /\ asked[r[1]] <= asked'[r[1]]
    BY RequestFacts, Grows DEF TypeOK
  <2>00. asked'[r[1]] \in Nat
    BY TypeStep, <2>0 DEF TypeOK
  <2>1. CASE via'[r] = via[r]
    <3>1. via[r] \in Conns /\ conn[via[r]] # "none" /\ r[2] <= asked[r[1]]
      BY <2>1, Bounds DEF Written, TypeOK
    <3> QED
      BY <2>1, <2>0, <2>00, <3>1, Grows
  <2>2. CASE via'[r] # via[r]
    <3>1. PICK c \in Clients, k \in Conns, q \in Requests : Copy(c) /\ Writes(c, k, q)
      BY <2>2, WhoMoves, CopyFacts
    <3>2. via' = [via EXCEPT ![q] = k] /\ conn[k] = "open" /\ q = typed[c][1] /\ 1 \in DOMAIN typed[c]
      BY <3>1 DEF Writes
    <3>3. q = r /\ via'[r] = k
      BY <2>2, <3>2 DEF TypeOK
    <3>4. q[1] = c /\ q[2] <= asked[c]
      BY <3>2 DEF Typing
    <3> QED
      BY <2>0, <2>00, <3>2, <3>3, <3>4, Grows
  <2> QED
    BY <2>1, <2>2
<1>2. ASSUME NEW c \in Clients, shim'[c] # 0
      PROVE  /\ conn'[shim'[c]] # "none"
             /\ \A r \in Requests : via'[r] = shim'[c] => r[1] = c
             /\ \A d \in Clients : shim'[d] = shim'[c] => d = c
  <2>0. shim \in [Clients -> 0..MaxConns] /\ via \in [Requests -> 0..MaxConns]
    BY DEF TypeOK
  <2>1. CASE \E e \in Clients : Dial(e)
    <3>1. PICK e \in Clients, k \in Conns :
            /\ conn[k] = "none" /\ conn' = [conn EXCEPT ![k] = "open"]
            /\ shim' = [shim EXCEPT ![e] = k]
            /\ Dial(e)
      BY <2>1, DialFacts
    <3>2. via' = via
      BY <3>1 DEF Dial
    <3>3. (\A d \in Clients : shim[d] # k) /\ \A r \in Requests : via[r] # k
      BY <3>1, Bounds DEF Written
    <3>4. conn'[k] = "open" /\ k # 0
      BY <3>1, Bounds DEF TypeOK
    <3>5. CASE e = c
      BY <2>0, <3>1, <3>2, <3>3, <3>4, <3>5
    <3>6. CASE e # c
      <4>1. shim'[c] = shim[c] /\ shim[c] # k /\ shim[c] \in Conns
        BY <1>2, <2>0, <3>1, <3>3, <3>6, Bounds
      <4>2. conn'[shim[c]] # "none"
        BY <1>2, <4>1, Grows DEF Written
      <4> QED
        BY <1>2, <2>0, <3>1, <3>2, <4>1, <4>2 DEF Written
    <3> QED
      BY <3>5, <3>6
  <2>2. CASE ~\E e \in Clients : Dial(e)
    <3>1. \A d \in Clients : shim'[d] \in {0, shim[d]}
      <4>1. UNCHANGED shim \/ \E e : shim' = [shim EXCEPT ![e] = 0]
        BY <2>2, WhoMoves, CopyFacts DEF Writes, Drop, Leave
      <4> QED
        BY <2>0, <4>1
    <3>2. shim'[c] = shim[c] /\ shim[c] \in Conns
      BY <1>2, <2>0, <3>1, Bounds
    <3>3. conn'[shim[c]] # "none"
      BY <1>2, <3>2, Grows DEF Written
    <3>4. \A d \in Clients : shim'[d] = shim'[c] => d = c
      BY <1>2, <3>1, <3>2 DEF Written
    <3>5. \A r \in Requests : via'[r] = shim'[c] => r[1] = c
      <4>1. CASE via' = via
        BY <1>2, <3>2, <4>1 DEF Written
      <4>2. CASE via' # via
        <5>1. PICK e \in Clients, k \in Conns, q \in Requests : Copy(e) /\ Writes(e, k, q)
          BY <4>2, WhoMoves, CopyFacts
        <5>2. via' = [via EXCEPT ![q] = k] /\ shim[e] = k /\ k # 0 /\ q = typed[e][1] /\ 1 \in DOMAIN typed[e]
          BY <5>1, Bounds DEF Writes
        <5>3. q[1] = e
          BY <5>2 DEF Typing
        <5>4. shim[c] = k => c = e
          BY <5>2 DEF Written
        <5> QED
          BY <1>2, <2>0, <3>2, <5>2, <5>3, <5>4 DEF Written
      <4> QED
        BY <4>1, <4>2
    <3> QED
      BY <3>2, <3>3, <3>4, <3>5
  <2> QED
    BY <2>1, <2>2
<1> QED
  BY <1>1, <1>2 DEF Written

-----------------------------------------------------------------------------
\* The connections and their proxies.

\* Connection k is in no queue.
Gone(k) == \A g \in Gens : /\ accepted[g] # k
                           /\ \A i \in DOMAIN backlog[g] : backlog[g][i] # k

LEMMA QueueTypes ==
  ASSUME TypeOK, NEW g \in Gens
  PROVE  /\ backlog[g] \in Seq(Conns) /\ \A i \in DOMAIN backlog[g] : backlog[g][i] \in Conns
         /\ accepted[g] \in 0..MaxConns /\ (accepted[g] # 0 => accepted[g] \in Conns)
         /\ clients[g] \subseteq Conns
<1>1. backlog[g] \in Seq(Conns) /\ accepted[g] \in 0..MaxConns /\ clients[g] \subseteq Conns
  BY DEF TypeOK
<1> QED
  BY <1>1, Bounds

\* How the queue of a proxy moves.
LEMMA QueueMoves ==
  ASSUME TypeOK, ScenarioOK, Next, NEW g \in Gens
  PROVE  \/ /\ backlog'[g] = <<>>
            /\ accepted'[g] = accepted[g]
         \/ /\ backlog'[g] = backlog[g]
            /\ accepted'[g] = accepted[g] \/ (Register(g) /\ accepted'[g] = 0)
         \/ /\ Accept(g) /\ backlog[g] # <<>> /\ backlog'[g] = Tail(backlog[g])
            /\ accepted[g] = 0 /\ accepted'[g] \in {0, Head(backlog[g])}
            /\ accepted'[g] # 0 => conn' = conn
            /\ conn' = conn \/ conn' = Shut({Head(backlog[g])})
         \/ /\ \E k \in Conns : /\ conn[k] = "none" /\ backlog'[g] = Append(backlog[g], k)
                                /\ conn'[k] = "open" /\ genOf'[k] = g
            /\ accepted'[g] = accepted[g] /\ handler' = handler
<1>0. /\ backlog \in [Gens -> Seq(Conns)] /\ accepted \in [Gens -> 0..MaxConns]
      /\ conn \in [Conns -> {"none", "open", "shut", "left"}] /\ genOf \in [Conns -> 0..MaxGens]
  BY DEF TypeOK
<1>1. ASSUME NEW h \in Gens, Accept(h)
      PROVE  /\ backlog[h] # <<>> /\ backlog' = [backlog EXCEPT ![h] = Tail(@)] /\ accepted[h] = 0
             /\ \/ accepted' = accepted /\ conn' = Shut({Head(backlog[h])})
                \/ accepted' = [accepted EXCEPT ![h] = Head(backlog[h])] /\ conn' = conn
  BY <1>1 DEF Accept
<1>2. ASSUME NEW h \in Gens, Register(h)
      PROVE  backlog' = backlog /\ accepted' = [accepted EXCEPT ![h] = 0]
  BY <1>2 DEF Register
<1>3. ASSUME NEW c \in Clients, Dial(c)
      PROVE  /\ accepted' = accepted /\ handler' = handler
             /\ \E k \in Conns : /\ conn[k] = "none" /\ conn' = [conn EXCEPT ![k] = "open"]
                                 /\ genOf' = [genOf EXCEPT ![k] = gen]
                                 /\ backlog' = [backlog EXCEPT ![gen] = Append(@, k)]
  BY <1>3, DialFacts DEF Dial
<1>4. ASSUME NEW h \in Gens, EndBroadcast(h) \/ StopRest
      PROVE  accepted' = accepted /\ \E e : backlog' = [backlog EXCEPT ![e] = <<>>]
  BY <1>4 DEF EndBroadcast, StopRest, CloseListener
<1>5. CASE \E h \in Gens : Accept(h)
  <2>1. PICK h \in Gens : Accept(h)
    BY <1>5
  <2>2. CASE h = g
    BY <1>0, <1>1, <2>1, <2>2
  <2>3. CASE h # g
    BY <1>0, <1>1, <2>1, <2>3
  <2> QED
    BY <2>2, <2>3
<1>6. CASE \E h \in Gens : Register(h)
  BY <1>0, <1>2, <1>6
<1>7. CASE \E c \in Clients : Dial(c)
  <2>1. PICK c \in Clients : Dial(c)
    BY <1>7
  <2>2. accepted'[g] = accepted[g] /\ handler' = handler
    BY <1>3, <2>1
  <2>3. PICK k \in Conns : /\ conn[k] = "none" /\ conn' = [conn EXCEPT ![k] = "open"]
                           /\ genOf' = [genOf EXCEPT ![k] = gen]
                           /\ backlog' = [backlog EXCEPT ![gen] = Append(@, k)]
    BY <1>3, <2>1
  <2>4. CASE gen = g
    <3>1. backlog'[g] = Append(backlog[g], k) /\ conn'[k] = "open" /\ genOf'[k] = g
      BY <1>0, <2>3, <2>4
    <3> QED
      BY <2>2, <2>3, <3>1
  <2>5. CASE gen # g
    BY <1>0, <2>2, <2>3, <2>5
  <2> QED
    BY <2>4, <2>5
<1>8. CASE StopRest \/ \E h \in Gens : EndBroadcast(h)
  BY <1>0, <1>4, <1>8
<1>9. CASE backlog' = backlog /\ accepted' = accepted
  BY <1>9
<1> QED
  BY <1>5, <1>6, <1>7, <1>8, <1>9, WhoMoves

\* What was cut off stays so.
LEMMA CutStays ==
  ASSUME TypeOK, Handled, Queues, Next, NEW k \in Conns, handler[k].at # "none"
  PROVE  /\ handler[k].at = "severed" => handler'[k].at = "severed"
         /\ Cut(k) => Cut(k)'
         /\ handler'[k].at \in {"scan", "hold"} => handler[k].at \in {"scan", "hold"}
<1>1. ASSUME NEW g \in Gens, Register(g), k = accepted[g] PROVE FALSE
  BY <1>1 DEF Queues, Waiting, Register
<1> QED
  BY <1>1, HandlerMoves DEF Cut

\* The proxy closes a connection: one that has a handler when it reads its server no
\* more, or when it cut it off; one that waits by taking it out of the queue.
LEMMA ShutWho ==
  ASSUME TypeOK, ScenarioOK, Queues, Handled, Lives, Next,
         NEW k \in Conns, conn'[k] = "shut", conn[k] # "shut"
  PROVE  \/ handler[k].at # "none" /\ broadcaster'[genOf[k]] # "scan"
         \/ handler[k].at = "cut" /\ handler'[k].at = "severed"
         \/ handler[k].at = "none" /\ handler' = handler /\ Gone(k)'
<1>0. /\ broadcaster \in [Gens -> {"none", "scan", "failed", "closed", "done"}]
      /\ gen \in Gens
  BY DEF TypeOK
<1>1. ASSUME NEW g \in Gens, CloseAllClients(g)
      PROVE  handler[k].at # "none" /\ broadcaster'[genOf[k]] # "scan"
  <2>1. conn' = Shut(clients[g]) /\ broadcaster' = [broadcaster EXCEPT ![g] = "closed"]
    BY <1>1 DEF CloseAllClients
  <2>2. k \in clients[g]
    BY <2>1, ShutFacts
  <2> QED
    BY <1>0, <2>1, <2>2 DEF Queues
<1>2. ASSUME StopClients
      PROVE  handler[k].at # "none" /\ broadcaster'[genOf[k]] # "scan"
  <2>1. conn' = Shut(clients[gen]) /\ broadcaster' = broadcaster /\ status[gen] = "failed"
    BY <1>2 DEF StopClients
  <2>2. k \in clients[gen]
    BY <2>1, ShutFacts
  <2> QED
    BY <1>0, <2>1, <2>2 DEF Queues, Lives
<1>3. ASSUME NEW g \in Gens, handler' = handler, accepted' = accepted,
             conn' = Shut({backlog[g][i] : i \in DOMAIN backlog[g]}),
             backlog' = [backlog EXCEPT ![g] = <<>>]
      PROVE  handler[k].at = "none" /\ handler' = handler /\ Gone(k)'
  <2>1. PICK i \in DOMAIN backlog[g] : k = backlog[g][i]
    BY <1>3, ShutFacts
  <2>2. genOf[k] = g /\ handler[k].at = "none" /\ k # accepted[g]
    BY <2>1 DEF Queues, Waiting
  <2>3. backlog'[g] = <<>> /\ \A h \in Gens : h # g => backlog'[h] = backlog[h]
    BY <1>3 DEF TypeOK
  <2>4. \A h \in Gens : h # g => accepted[h] # k /\ \A j \in DOMAIN backlog[h] : backlog[h][j] # k
    BY <2>2, Bounds DEF Queues, Waiting
  <2> QED
    BY <1>3, <2>2, <2>3, <2>4 DEF Gone
<1>4. ASSUME NEW g \in Gens, EndBroadcast(g) \/ StopRest
      PROVE  handler[k].at = "none" /\ handler' = handler /\ Gone(k)'
  <2>1. \E h \in Gens : /\ handler' = handler /\ accepted' = accepted
                        /\ conn' = Shut({backlog[h][i] : i \in DOMAIN backlog[h]})
                        /\ backlog' = [backlog EXCEPT ![h] = <<>>]
    BY <1>0, <1>4 DEF EndBroadcast, StopRest, CloseListener
  <2> QED
    BY <1>3, <2>1
<1>5. ASSUME NEW g \in Gens, Accept(g)
      PROVE  handler[k].at = "none" /\ handler' = handler /\ Gone(k)'
  <2>1. /\ backlog[g] # <<>> /\ accepted[g] = 0 /\ handler' = handler
        /\ backlog' = [backlog EXCEPT ![g] = Tail(@)]
        /\ accepted' = accepted /\ conn' = Shut({Head(backlog[g])})
    BY <1>5 DEF Accept
  <2>2. backlog[g] \in Seq(Conns)
    BY QueueTypes
  <2>3. k = backlog[g][1] /\ 1 \in DOMAIN backlog[g]
    <3>1. Head(backlog[g]) = backlog[g][1] /\ 1 \in DOMAIN backlog[g]
      BY <2>1, <2>2
    <3>2. k \in {Head(backlog[g])}
      BY <2>1, ShutFacts
    <3> QED
      BY <3>1, <3>2
  <2>4. genOf[k] = g /\ handler[k].at = "none" /\ k # accepted[g]
    BY <2>3 DEF Queues, Waiting
  <2>5. backlog'[g] = Tail(backlog[g]) /\ \A h \in Gens : h # g => backlog'[h] = backlog[h]
    BY <2>1 DEF TypeOK
  <2>6. \A h \in Gens : h # g => accepted[h] # k /\ \A j \in DOMAIN backlog[h] : backlog[h][j] # k
    BY <2>4, Bounds DEF Queues, Waiting
  <2>7. \A i \in DOMAIN backlog'[g] : backlog'[g][i] = backlog[g][i + 1]
                                      /\ i + 1 \in DOMAIN backlog[g] /\ i + 1 # 1
    <3>1. backlog[g] # <<>>
      BY <2>1
    <3>2. \A i \in DOMAIN Tail(backlog[g]) :
            Tail(backlog[g])[i] = backlog[g][i + 1] /\ i + 1 \in DOMAIN backlog[g] /\ i + 1 # 1
      BY <2>2, <3>1, TailFacts
    <3> QED
      BY <2>5, <3>2
  <2>8. \A i \in DOMAIN backlog'[g] : backlog'[g][i] # k
    BY <2>3, <2>7 DEF Queues
  <2> QED
    BY <2>1, <2>4, <2>5, <2>6, <2>8 DEF Gone
<1>6. ASSUME NEW j \in Conns, Unregister(j)
      PROVE  handler[k].at = "cut" /\ handler'[k].at = "severed"
  <2>1. handler[j].at \in {"leave", "cut"} /\ conn' = Shut({j})
    BY <1>6 DEF Unregister
  <2>2. k = j /\ conn[k] = "open"
    <3>1. k \in {j} /\ conn[k] = "open"
      BY <2>1, ShutFacts
    <3> QED
      BY <3>1
  <2>3. handler[k].at = "cut"
    BY <2>1, <2>2 DEF Handled
  <2>4. handler' = [handler EXCEPT ![k] = [at |-> "severed"]]
    BY <1>6, <2>2, <2>3 DEF Unregister, Cut
  <2> QED
    BY <2>3, <2>4 DEF TypeOK
<1>7. ASSUME NEW c \in Clients, Leave(c) PROVE FALSE
  BY <1>7 DEF Leave
<1>8. ASSUME NEW c \in Clients, Dial(c) PROVE FALSE
  <2>1. \E j \in Conns : conn' = [conn EXCEPT ![j] = "open"]
    BY <1>8, DialFacts
  <2> QED
    BY <2>1 DEF TypeOK
<1>9. conn' # conn
  OBVIOUS
<1> QED
  BY <1>0, <1>1, <1>2, <1>4, <1>5, <1>6, <1>7, <1>8, <1>9, WhoMoves

\* Connection k waits after the step.
WaitsOn(g, k) ==
  genOf'[k] = g /\ handler'[k].at = "none" /\ conn'[k] \in {"open", "left"}

\* What waits goes on waiting, until it is registered or closed.
LEMMA WaitingStays ==
  ASSUME TypeOK, ScenarioOK, Queues, Handled, Lives, Typing, Next,
         NEW g \in Gens, NEW k \in Conns, Waiting(g, k),
         ~(Register(g) /\ accepted[g] = k), ~Gone(k)'
  PROVE  WaitsOn(g, k)
<1>1. genOf[k] = g /\ handler[k].at = "none" /\ conn[k] \in {"open", "left"}
  BY DEF Waiting
<1>2. genOf'[k] = g /\ conn'[k] # "none"
  BY <1>1, Grows
<1>3. conn'[k] # "shut"
  BY <1>1, ShutWho
<1>4. conn'[k] \in {"open", "left"}
  BY <1>1, <1>3, ConnMoves
<1>5. handler'[k] = handler[k]
  <2>1. ASSUME NEW h \in Gens, Register(h), k = accepted[h] PROVE FALSE
    <3>1. accepted[h] # 0
      BY <2>1 DEF Register
    <3>2. genOf[k] = h
      BY <2>1, <3>1 DEF Queues, Waiting
    <3> QED
      BY <1>1, <2>1, <3>2
  <2> QED
    BY <1>1, <2>1, HandlerMoves
<1> QED
  BY <1>1, <1>2, <1>4, <1>5 DEF WaitsOn

\* The part of Queues about the proxy g.
QueueOf(g) ==
  /\ \A i \in DOMAIN backlog[g] :
       /\ Waiting(g, backlog[g][i]) /\ backlog[g][i] # accepted[g]
       /\ \A j \in DOMAIN backlog[g] : backlog[g][i] = backlog[g][j] => i = j
  /\ accepted[g] # 0 => Waiting(g, accepted[g])

LEMMA QueueStep ==
  ASSUME TypeOK, ScenarioOK, Queues, Handled, Lives, Typing, Next, NEW g \in Gens
  PROVE  QueueOf(g)'
<1>0. QueueOf(g)
  BY DEF Queues, QueueOf
<1>1. /\ backlog[g] \in Seq(Conns) /\ accepted[g] \in 0..MaxConns
      /\ \A i \in DOMAIN backlog[g] : backlog[g][i] \in Conns /\ backlog[g][i] # 0
      /\ accepted[g] # 0 => accepted[g] \in Conns
  BY QueueTypes, Bounds
<1>2. \A k \in Conns : (\E i \in DOMAIN backlog'[g] : backlog'[g][i] = k) => ~Gone(k)'
  BY DEF Gone
<1>3. \A k \in Conns : accepted'[g] = k => ~Gone(k)'
  BY DEF Gone
<1>4. accepted'[g] # 0 => ~Register(g)
  BY DEF Register, TypeOK
<1>5. ASSUME NEW k \in Conns, Waiting(g, k), k # accepted[g] \/ accepted'[g] = k, ~Gone(k)'
      PROVE  WaitsOn(g, k)
  BY <1>4, <1>5, WaitingStays, Bounds
<1>6. ASSUME accepted'[g] = accepted[g], accepted'[g] # 0 PROVE WaitsOn(g, accepted'[g])
  <2>0. PICK k \in Conns : k = accepted[g]
    BY <1>1, <1>6
  <2>1. Waiting(g, k) /\ ~Gone(k)' /\ accepted'[g] = k
    BY <1>0, <1>3, <1>6, <2>0 DEF QueueOf
  <2>2. WaitsOn(g, k)
    BY <1>5, <2>1
  <2> QED
    BY <2>1, <2>2
<1>7. ASSUME NEW i \in DOMAIN backlog'[g], NEW j \in DOMAIN backlog[g], backlog'[g][i] = backlog[g][j]
      PROVE  WaitsOn(g, backlog'[g][i])
  <2>0. PICK k \in Conns : k = backlog[g][j]
    BY <1>1
  <2>1. Waiting(g, k) /\ ~Gone(k)' /\ k # accepted[g] /\ backlog'[g][i] = k
    BY <1>0, <1>2, <1>7, <2>0 DEF QueueOf
  <2>2. WaitsOn(g, k)
    BY <1>5, <2>1
  <2> QED
    BY <2>1, <2>2
<1>8. CASE backlog'[g] = <<>> /\ accepted'[g] = accepted[g]
  BY <1>6, <1>8 DEF QueueOf, Waiting, WaitsOn
<1>9. CASE /\ backlog'[g] = backlog[g]
           /\ accepted'[g] = accepted[g] \/ (Register(g) /\ accepted'[g] = 0)
  <2>1. \A i \in DOMAIN backlog'[g] :
          /\ WaitsOn(g, backlog'[g][i]) /\ backlog'[g][i] # accepted'[g]
          /\ \A j \in DOMAIN backlog'[g] : backlog'[g][i] = backlog'[g][j] => i = j
    BY <1>0, <1>1, <1>7, <1>9 DEF QueueOf
  <2>2. accepted'[g] # 0 => WaitsOn(g, accepted'[g])
    BY <1>6, <1>9
  <2> QED
    BY <2>1, <2>2 DEF QueueOf, Waiting, WaitsOn
<1>10. CASE /\ Accept(g) /\ backlog[g] # <<>> /\ backlog'[g] = Tail(backlog[g])
            /\ accepted[g] = 0 /\ accepted'[g] \in {0, Head(backlog[g])}
  <2>1. 1 \in DOMAIN backlog[g] /\ accepted'[g] \in {0, backlog[g][1]}
    BY <1>1, <1>10, TailFacts
  <2>2. \A i \in DOMAIN backlog'[g] : backlog'[g][i] = backlog[g][i + 1]
                                      /\ i + 1 \in DOMAIN backlog[g] /\ i + 1 # 1 /\ i \in Nat
    BY <1>1, <1>10, TailFacts
  <2>3. \A i \in DOMAIN backlog'[g] : WaitsOn(g, backlog'[g][i]) /\ backlog'[g][i] # accepted'[g]
    BY <1>0, <1>1, <1>7, <2>1, <2>2 DEF QueueOf
  <2>4. \A i, j \in DOMAIN backlog'[g] : backlog'[g][i] = backlog'[g][j] => i = j
    <3> SUFFICES ASSUME NEW i \in DOMAIN backlog'[g], NEW j \in DOMAIN backlog'[g],
                        backlog'[g][i] = backlog'[g][j]
                 PROVE  i = j
      OBVIOUS
    <3>1. i + 1 = j + 1
      BY <1>0, <2>2 DEF QueueOf
    <3> QED
      BY <2>2, <3>1
  <2>5. accepted'[g] # 0 => WaitsOn(g, accepted'[g])
    <3> SUFFICES ASSUME accepted'[g] # 0 PROVE WaitsOn(g, accepted'[g])
      OBVIOUS
    <3>0. PICK k \in Conns : k = backlog[g][1]
      BY <1>1, <2>1
    <3>1. Waiting(g, k) /\ ~Gone(k)' /\ accepted'[g] = k
      BY <1>0, <1>3, <2>1, <3>0 DEF QueueOf
    <3>2. WaitsOn(g, k)
      BY <1>5, <3>1
    <3> QED
      BY <3>1, <3>2
  <2> QED
    BY <2>3, <2>4, <2>5 DEF QueueOf, Waiting, WaitsOn
<1>11. CASE /\ \E k \in Conns : /\ conn[k] = "none" /\ backlog'[g] = Append(backlog[g], k)
                                /\ conn'[k] = "open" /\ genOf'[k] = g
            /\ accepted'[g] = accepted[g] /\ handler' = handler
  <2>1. PICK k \in Conns : /\ conn[k] = "none" /\ backlog'[g] = Append(backlog[g], k)
                           /\ conn'[k] = "open" /\ genOf'[k] = g
    BY <1>11
  <2>2. WaitsOn(g, k)
    BY <1>11, <2>1 DEF WaitsOn, Handled
  <2>3. \A i \in DOMAIN backlog'[g] :
          \/ i \in DOMAIN backlog[g] /\ backlog'[g][i] = backlog[g][i]
          \/ i = Len(backlog[g]) + 1 /\ i \notin DOMAIN backlog[g] /\ backlog'[g][i] = k
    BY <1>1, <2>1, AppendFacts
  <2>4. k # accepted[g] /\ \A i \in DOMAIN backlog[g] : backlog[g][i] # k
    BY <1>0, <1>1, <2>1, Bounds DEF QueueOf, Waiting
  <2>5. ASSUME NEW i \in DOMAIN backlog'[g]
        PROVE  WaitsOn(g, backlog'[g][i]) /\ backlog'[g][i] # accepted'[g]
    <3>1. CASE i \in DOMAIN backlog[g] /\ backlog'[g][i] = backlog[g][i]
      BY <1>0, <1>7, <1>11, <3>1 DEF QueueOf
    <3>2. CASE backlog'[g][i] = k
      BY <1>11, <2>2, <2>4, <3>2
    <3> QED
      BY <2>3, <3>1, <3>2
  <2>6. \A i, j \in DOMAIN backlog'[g] : backlog'[g][i] = backlog'[g][j] => i = j
    BY <1>0, <2>3, <2>4 DEF QueueOf
  <2>7. accepted'[g] # 0 => WaitsOn(g, accepted'[g])
    BY <1>6, <1>11
  <2> QED
    BY <2>5, <2>6, <2>7 DEF QueueOf, Waiting, WaitsOn
<1> QED
  BY <1>8, <1>9, <1>10, <1>11, QueueMoves

LEMMA QueuesStep ==
  ASSUME TypeOK, ScenarioOK, Queues, Handled, Lives, Typing, Next
  PROVE  Queues'
<1>1. ASSUME NEW g \in Gens, NEW k \in clients'[g]
      PROVE  genOf'[k] = g /\ handler'[k].at # "none"
  <2>0. clients \in [Gens -> SUBSET Conns]
    BY DEF TypeOK
  <2>1. CASE k \in clients[g]
    <3>1. k \in Conns /\ genOf[k] = g /\ handler[k].at # "none" /\ conn[k] # "none"
      BY <2>1, QueueTypes DEF Queues, Handled
    <3> QED
      BY <3>1, Grows
  <2>2. CASE k \notin clients[g]
    <3>1. ASSUME NEW h \in Gens, Register(h) PROVE h = g /\ k = accepted[g] /\ accepted[g] # 0
      <4>1. accepted[h] # 0 /\ clients' = [clients EXCEPT ![h] = @ \cup {accepted[h]}]
        BY <3>1 DEF Register
      <4> QED
        BY <2>0, <2>2, <4>1
    <3>2. ASSUME NEW h \in Gens, clients' = [clients EXCEPT ![h] = {}] PROVE FALSE
      BY <2>0, <2>2, <3>2
    <3>3. ASSUME NEW j \in Conns, Unregister(j) PROVE FALSE
      <4>1. \E h : clients' = [clients EXCEPT ![h] = @ \ {j}]
        BY <3>3 DEF Unregister
      <4> QED
        BY <2>0, <2>2, <4>1
    <3>4. gen \in Gens
      BY DEF TypeOK
    <3>5. clients' # clients
      BY <2>2
    <3>6. Register(g) /\ k = accepted[g] /\ accepted[g] # 0
      BY <3>1, <3>2, <3>3, <3>4, <3>5, WhoMoves DEF StopClients, CloseAllClients
    <3>7. k \in Conns /\ genOf[k] = g /\ conn[k] # "none"
      BY <3>6, QueueTypes DEF Queues, Waiting
    <3>8. handler' = [handler EXCEPT ![k] = [at |-> "scan"]]
      BY <3>6 DEF Register
    <3>9. handler'[k].at = "scan"
      BY <3>7, <3>8 DEF TypeOK
    <3> QED
      BY <3>7, <3>9, Grows
  <2> QED
    BY <2>1, <2>2
<1>2. \A g \in Gens : QueueOf(g)'
  BY QueueStep
<1> QED
  BY <1>1, <1>2 DEF Queues, QueueOf

LEMMA LivesStep ==
  ASSUME TypeOK, Lives, Next
  PROVE  Lives'
<1>0. /\ broadcaster \in [Gens -> {"none", "scan", "failed", "closed", "done"}]
      /\ status \in [Gens -> {"none", "running", "failed", "stopped"}]
      /\ stopper \in [Gens -> {"starting", "no", "rest", "done"}]
      /\ gen \in Gens /\ gen \in Nat /\ \A g \in Gens : g \in Nat
  BY DEF TypeOK, Gens
<1>1. SUFFICES ASSUME NEW g \in Gens
               PROVE  /\ g > gen' => broadcaster'[g] = "none" /\ status'[g] = "none"
                      /\ status'[g] = "failed" => broadcaster'[g] # "scan"
                      /\ stopper'[g] \in {"rest", "done"} => broadcaster'[g] # "scan"
  BY DEF Lives
<1>2. /\ g > gen => broadcaster[g] = "none" /\ status[g] = "none"
      /\ status[g] = "failed" => broadcaster[g] # "scan"
      /\ stopper[g] \in {"rest", "done"} => broadcaster[g] # "scan"
  BY DEF Lives
<1>3. CASE StartNext
  <2>1. /\ gen < MaxGens /\ gen' = gen + 1 /\ status' = status
        /\ stopper' = [stopper EXCEPT ![gen + 1] = "starting"]
        /\ broadcaster' = [broadcaster EXCEPT ![gen + 1] = "scan"]
    BY <1>3 DEF StartNext
  <2>2. CASE g = gen + 1
    <3>1. broadcaster'[g] = "scan" /\ stopper'[g] = "starting" /\ status'[g] = "none" /\ ~(g > gen')
      BY <1>0, <1>2, <2>1, <2>2
    <3> QED
      BY <3>1
  <2>3. CASE g # gen + 1
    <3>1. broadcaster'[g] = broadcaster[g] /\ stopper'[g] = stopper[g] /\ status'[g] = status[g]
      BY <1>0, <2>1, <2>3
    <3>2. g > gen' => g > gen
      BY <1>0, <2>1
    <3> QED
      BY <1>2, <3>1, <3>2
  <2> QED
    BY <2>2, <2>3
<1>4. ASSUME NEW h \in Gens, Fails(h) \/ CloseAllClients(h) \/ EndBroadcast(h)
      PROVE  /\ broadcaster[h] \in {"scan", "failed", "closed"} /\ gen' = gen /\ stopper' = stopper
             /\ \E v \in {"failed", "closed", "done"} : broadcaster' = [broadcaster EXCEPT ![h] = v]
             /\ status' = status \/ status' = [status EXCEPT ![h] = "failed"]
  BY <1>4, FailFacts DEF CloseAllClients, EndBroadcast
<1>5. CASE \E h \in Gens : Fails(h) \/ CloseAllClients(h) \/ EndBroadcast(h)
  <2>1. PICK h \in Gens, v \in {"failed", "closed", "done"} :
          /\ broadcaster[h] \in {"scan", "failed", "closed"} /\ gen' = gen /\ stopper' = stopper
          /\ broadcaster' = [broadcaster EXCEPT ![h] = v]
          /\ status' = status \/ status' = [status EXCEPT ![h] = "failed"]
    BY <1>4, <1>5
  <2>2. CASE h = g
    BY <1>0, <1>2, <2>1, <2>2
  <2>3. CASE h # g
    BY <1>0, <1>2, <2>1, <2>3
  <2> QED
    BY <2>2, <2>3
<1>6. CASE StopClients \/ StopRest \/ SetRunning
  <2>1. /\ gen' = gen /\ broadcaster' = broadcaster
        /\ \E v \in {"running", "stopped"} : status' = [status EXCEPT ![gen] = v] \/ status' = status
        /\ \/ stopper[gen] \in {"rest", "starting"} \/ status[gen] = "failed"
        /\ \/ stopper' = [stopper EXCEPT ![gen] = "no"]
           \/ /\ stopper[gen] = "rest" \/ status[gen] = "failed"
              /\ \E v \in {"rest", "done"} : stopper' = [stopper EXCEPT ![gen] = v]
    BY <1>6 DEF StopClients, StopRest, SetRunning
  <2>2. g = gen /\ stopper'[g] \in {"rest", "done"} => broadcaster[g] # "scan"
    BY <1>0, <1>2, <2>1
  <2>3. g # gen => stopper'[g] = stopper[g] /\ status'[g] = status[g]
    BY <1>0, <2>1
  <2>4. status'[g] = "failed" => status[g] = "failed"
    BY <1>0, <2>1
  <2>5. g > gen => g # gen
    BY <1>0
  <2> QED
    BY <1>2, <2>1, <2>2, <2>3, <2>4, <2>5
<1>7. CASE UNCHANGED <<gen, broadcaster, status, stopper>>
  BY <1>2, <1>7
<1> QED
  BY <1>3, <1>5, <1>6, <1>7, WhoMoves DEF MonitorNext

LEMMA HandledStep ==
  ASSUME TypeOK, ScenarioOK, Queues, Handled, Lives, Typing, Next
  PROVE  Handled'
<1>0. TypeOK' /\ gen \in Nat /\ gen' \in Nat /\ gen <= gen'
  <2>1. TypeOK'
    BY TypeStep
  <2>2. gen \in Nat /\ gen' \in Nat
    BY <2>1 DEF TypeOK, Gens
  <2> QED
    BY <2>1, <2>2, Grows
<1> SUFFICES ASSUME NEW k \in Conns
             PROVE  /\ conn'[k] # "none" => genOf'[k] \in 1..gen'
                    /\ handler'[k].at # "none" =>
                         /\ conn'[k] # "none"
                         /\ broadcaster'[genOf'[k]] = "scan" =>
                              conn'[k] \in {"open", "left"} \/ handler'[k].at = "severed"
                    /\ handler'[k].at \in {"leave", "end", "severed"} => conn'[k] # "open"
  BY DEF Handled
<1>1. conn'[k] # "none" => genOf'[k] \in 1..gen'
  <2>1. gen \in 1..gen' /\ \A n \in 1..gen : n \in 1..gen'
    BY <1>0 DEF TypeOK, Gens
  <2>2. conn[k] # "none" => genOf[k] \in 1..gen
    BY DEF Handled
  <2> QED
    BY <2>1, <2>2, ConnMoves
<1>2. ASSUME NEW g \in Gens, Register(g), k = accepted[g]
      PROVE  /\ conn'[k] \in {"open", "left"} /\ handler'[k].at = "scan"
  <2>1. accepted[g] # 0 /\ conn' = conn
    BY <1>2 DEF Register
  <2>2. conn[k] \in {"open", "left"}
    BY <1>2, <2>1 DEF Queues, Waiting
  <2>3. handler' = [handler EXCEPT ![k] = [at |-> "scan"]]
    BY <1>2 DEF Register
  <2> QED
    BY <2>1, <2>2, <2>3 DEF TypeOK
<1>3. CASE handler[k].at = "none"
  BY <1>1, <1>2, <1>3, HandlerMoves
<1>4. CASE handler[k].at # "none"
  <2>1. conn[k] # "none" /\ conn'[k] # "none" /\ genOf'[k] = genOf[k] /\ genOf[k] \in 1..gen
    BY <1>4, Grows DEF Handled
  <2>2. broadcaster'[genOf[k]] = "scan" => broadcaster[genOf[k]] = "scan"
    <3>1. genOf[k] \in Gens /\ genOf[k] # gen + 1
      BY <2>1 DEF TypeOK, Gens
    <3>2. \/ broadcaster' = broadcaster
          \/ broadcaster' = [broadcaster EXCEPT ![gen + 1] = "scan"]
          \/ \E g \in Gens : \E v \in {"failed", "closed", "done"} : broadcaster' = [broadcaster EXCEPT ![g] = v]
      BY WhoMoves, FailFacts DEF StartNext, CloseAllClients, EndBroadcast
    <3>3. broadcaster \in [Gens -> {"none", "scan", "failed", "closed", "done"}]
      BY DEF TypeOK
    <3> QED
      BY <3>1, <3>2, <3>3
  <2>3. broadcaster'[genOf[k]] = "scan" =>
          conn'[k] \in {"open", "left"} \/ handler'[k].at = "severed"
    <3>1. conn'[k] \in {"none", "open", "shut", "left"} /\ conn[k] \in {"none", "open", "shut", "left"}
      BY <1>0 DEF TypeOK
    <3>2. broadcaster[genOf[k]] = "scan" => conn[k] \in {"open", "left"} \/ handler[k].at = "severed"
      BY <1>4 DEF Handled
    <3>3. handler[k].at = "severed" => handler'[k].at = "severed"
      BY <1>4, CutStays
    <3>4. CASE conn'[k] = "shut" /\ conn[k] # "shut"
      BY <1>4, <3>4, ShutWho
    <3> QED
      BY <2>1, <2>2, <3>1, <3>2, <3>3, <3>4
  <2>4. handler'[k].at \in {"leave", "end", "severed"} => conn'[k] # "open"
    <3>1. CASE handler[k].at \in {"leave", "end", "severed"}
      BY <2>1, <3>1, Grows DEF Handled
    <3>3. CASE handler[k].at = "cut" /\ Unregister(k)
      <4>1. conn' = Shut({k})
        BY <3>3 DEF Unregister
      <4> QED
        BY <4>1 DEF Shut
    <3>2. CASE EndScan(k)
      <4>1. conn[k] \in {"shut", "left"}
        BY <3>2 DEF EndScan
      <4> QED
        BY <4>1, Grows
    <3> QED
      BY <3>1, <3>2, <3>3, HandlerMoves
  <2> QED
    BY <1>1, <2>1, <2>3, <2>4
<1> QED
  BY <1>3, <1>4

-----------------------------------------------------------------------------
\* The requests in a proxy and the entries of its map.

LEMMA SetTypes ==
  ASSUME TypeOK, NEW g \in Gens
  PROVE  /\ \A m \in stdin[g] : m \in Messages /\ m.id \in Nat /\ m.req \in Requests
                                /\ m = [id |-> m.id, req |-> m.req]
         /\ stdout[g] \in Seq(Messages)
         /\ \A i \in DOMAIN stdout[g] : stdout[g][i] \in Messages /\ stdout[g][i].id \in Nat
               /\ (stdout[g][i].req # Ask => stdout[g][i].req \in Requests)
               /\ stdout[g][i] = [id |-> stdout[g][i].id, req |-> stdout[g][i].req]
         /\ \A e \in idMap[g] : e.pid \in Nat /\ e.conn \in Conns /\ e.id \in Nat
               /\ e = [pid |-> e.pid, conn |-> e.conn, id |-> e.id]
         /\ nextID[g] \in Nat /\ serverAsked[g] \in Nat
<1>1. stdin[g] \subseteq [id : Nat, req : Requests]
  BY DEF TypeOK
<1>2. stdout[g] \in Seq(Messages)
  BY DEF TypeOK, Messages
<1>3. idMap[g] \subseteq [pid : Nat, conn : Conns, id : Nat]
  BY DEF TypeOK
<1>4. \A m \in Messages : m.id \in Nat /\ (m.req # Ask => m.req \in Requests)
                          /\ m = [id |-> m.id, req |-> m.req]
  BY DEF Messages
<1>5. \A i \in DOMAIN stdout[g] : stdout[g][i] \in Messages
  BY <1>2
<1>6. \A m \in stdin[g] : m \in Messages /\ m.req \in Requests
  BY <1>1 DEF Messages
<1>7. nextID[g] \in Nat /\ serverAsked[g] \in Nat
  BY DEF TypeOK
<1> QED
  BY <1>2, <1>3, <1>4, <1>5, <1>6, <1>7

\* Request r is in proxy g after the step.
InAfter(g, r) == via'[r] # 0 /\ genOf'[via'[r]] = g /\ handler'[via'[r]].at # "none"

LEMMA InStays ==
  ASSUME TypeOK, ScenarioOK, Handled, Typing, Next,
         NEW g \in Gens, NEW r \in Requests, In(g, r)
  PROVE  /\ InAfter(g, r) /\ via'[r] = via[r] /\ via[r] \in Conns /\ genOf'[via[r]] = g
<1>1. via[r] # 0 /\ genOf[via[r]] = g /\ handler[via[r]].at # "none"
  BY DEF In
<1>2. via[r] \in Conns /\ via'[r] = via[r]
  BY <1>1, Grows, Bounds DEF TypeOK
<1>3. conn[via[r]] # "none"
  BY <1>1, <1>2 DEF Handled
<1>4. genOf'[via[r]] = g /\ handler'[via[r]].at # "none"
  BY <1>1, <1>2, <1>3, Grows
<1> QED
  BY <1>1, <1>2, <1>4 DEF InAfter

\* How a step changes the map of a proxy.
LEMMA EntryMoves ==
  ASSUME TypeOK, ScenarioOK, Handled, Next, NEW g \in Gens, NEW e \in idMap'[g], e \notin idMap[g]
  PROVE  \E k \in Conns, r \in Requests, n \in Nat :
           Scan(k) /\ Numbers(k, g, r, n) /\ e = [pid |-> n, conn |-> k, id |-> r[2]]
<1>0. idMap \in [Gens -> SUBSET [pid : Nat, conn : Conns, id : Nat]]
  BY DEF TypeOK
<1>1. ASSUME NEW k \in Conns, Ends(k) PROVE FALSE
  <2>1. handler[k].at = "scan" /\ idMap' = [idMap EXCEPT ![genOf[k]] = {f \in @ : f.conn # k}]
    BY <1>1, EndFacts
  <2> QED
    BY <1>0, <2>1
<1>2. ASSUME NEW h, idMap' = [idMap EXCEPT ![h] = {}] PROVE FALSE
  BY <1>0, <1>2
<1>3. ASSUME NEW h \in Gens, NEW S, idMap' = [idMap EXCEPT ![h] = @ \ S] PROVE FALSE
  BY <1>0, <1>3
<1>4. ASSUME NEW h \in Gens, Route(h) PROVE FALSE
  <2>1. \E S : idMap' = [idMap EXCEPT ![h] = @ \ S]
    BY <1>4, RouteFacts
  <2> QED
    BY <1>3, <2>1
<1>5. ASSUME NEW h \in Gens, StopRest \/ EndBroadcast(h) PROVE FALSE
  <2>1. \E f : idMap' = [idMap EXCEPT ![f] = {}]
    BY <1>5 DEF StopRest, EndBroadcast
  <2> QED
    BY <1>2, <2>1
<1>6. PICK k \in Conns : Scan(k)
  BY <1>1, <1>4, <1>5, WhoMoves
<1>7. PICK h \in Gens, r \in Requests, n \in Nat : Numbers(k, h, r, n)
  BY <1>6, ScanFacts
<1> DEFINE f == [pid |-> n, conn |-> k, id |-> r[2]]
<1>8. idMap' = [idMap EXCEPT ![h] = @ \cup {f}]
  BY <1>7 DEF Numbers
<1> HIDE DEF f
<1>9. h = g /\ e = f
  BY <1>0, <1>8
<1> QED
  BY <1>6, <1>7, <1>9 DEF f

LEMMA EntriesStep ==
  ASSUME TypeOK, ScenarioOK, Handled, Typing, Written, Sources, Next,
         NEW g \in Gens, NEW e \in idMap'[g]
  PROVE  /\ e.pid <= nextID'[g] /\ genOf'[e.conn] = g /\ handler'[e.conn].at # "none"
         /\ \E r \in Requests : via'[r] = e.conn /\ r[2] = e.id
<1>0. nextID[g] \in Nat /\ nextID'[g] \in Nat /\ nextID[g] <= nextID'[g]
  BY ZenonT(60), TypeStep, Grows DEF TypeOK
<1>1. CASE e \in idMap[g]
  <2>1. /\ e.pid \in Nat /\ e.conn \in Conns /\ e.pid <= nextID[g]
        /\ genOf[e.conn] = g /\ handler[e.conn].at # "none"
    BY <1>1, SetTypes DEF Sources
  <2>2. PICK r \in Requests : via[r] = e.conn /\ r[2] = e.id
    BY <1>1 DEF Sources
  <2>3. In(g, r)
    BY <2>1, <2>2, Bounds DEF In
  <2>4. via'[r] = e.conn /\ genOf'[e.conn] = g /\ handler'[e.conn].at # "none"
    BY <2>2, <2>3, InStays DEF InAfter
  <2>5. e.pid <= nextID'[g]
    BY <1>0, <2>1
  <2> QED
    BY <2>2, <2>4, <2>5
<1>2. CASE e \notin idMap[g]
  <2>1. PICK k \in Conns, r \in Requests, n \in Nat :
          Scan(k) /\ Numbers(k, g, r, n) /\ e = [pid |-> n, conn |-> k, id |-> r[2]]
    BY <1>2, EntryMoves
  <2>2. e.pid = n /\ e.conn = k /\ e.id = r[2]
    BY <2>1
  <2>3. nextID'[g] = n /\ genOf[k] = g /\ handler[k].at = "scan" /\ via[r] = k
    BY <2>1 DEF Numbers, Sources, TypeOK
  <2>4. In(g, r)
    BY <2>3, Bounds DEF In
  <2>5. via'[r] = k /\ genOf'[k] = g /\ handler'[k].at # "none"
    BY <2>3, <2>4, InStays DEF InAfter
  <2> QED
    BY <2>2, <2>3, <2>5
<1> QED
  BY <1>1, <1>2

\* What a connection carries up was written to it.
LEMMA UpStep ==
  ASSUME TypeOK, ScenarioOK, Handled, Typing, Sources, Next, NEW k \in Conns
  PROVE  \A i \in DOMAIN up'[k] : via'[up'[k][i]] = k
<1>0. up \in [Conns -> Seq(Requests)] /\ via \in [Requests -> 0..MaxConns]
  BY DEF TypeOK
<1>1. \A i \in DOMAIN up[k] : up[k][i] \in Requests /\ via[up[k][i]] = k
                              /\ via'[up[k][i]] = k
  BY <1>0, Grows, Bounds DEF Sources
<1>2. CASE up'[k] = up[k]
  BY <1>1, <1>2
<1>3. CASE up'[k] = <<>>
  BY <1>3
<1>4. CASE up[k] # <<>> /\ up'[k] = Tail(up[k])
  <2>1. up[k] \in Seq(Requests)
    BY <1>0
  <2>2. \A i \in DOMAIN Tail(up[k]) : Tail(up[k])[i] = up[k][i + 1] /\ i + 1 \in DOMAIN up[k]
    BY <1>4, <2>1, TailFacts
  <2> QED
    BY <1>1, <1>4, <2>2
<1>5. ASSUME NEW r \in Requests, up'[k] = Append(up[k], r), via'[r] = k
      PROVE  \A i \in DOMAIN up'[k] : via'[up'[k][i]] = k
  <2>1. up[k] \in Seq(Requests)
    BY <1>0
  <2>2. \A i \in DOMAIN up'[k] : up'[k][i] = r \/ (i \in DOMAIN up[k] /\ up'[k][i] = up[k][i])
    BY <1>5, <2>1, AppendFacts
  <2> QED
    BY <1>1, <1>5, <2>2
<1>6. ASSUME NEW c \in Clients, Copy(c)
      PROVE  up'[k] = up[k] \/ \E r \in Requests : up'[k] = Append(up[k], r) /\ via'[r] = k
  <2>1. CASE up' = up
    BY <2>1
  <2>2. CASE up' # up
    <3>1. PICK j \in Conns, r \in Requests : Writes(c, j, r)
      BY <1>6, <2>2, CopyFacts
    <3>2. up' = [up EXCEPT ![j] = Append(@, r)] /\ via' = [via EXCEPT ![r] = j]
      BY <3>1 DEF Writes
    <3> QED
      BY <1>0, <3>2
  <2> QED
    BY <2>1, <2>2
<1>7. ASSUME NEW j \in Conns, Scan(j) \/ Ends(j)
      PROVE  up'[k] = up[k] \/ up'[k] = <<>> \/ (up[k] # <<>> /\ up'[k] = Tail(up[k]))
  BY <1>0, <1>7, EndFacts DEF Scan
<1> QED
  BY <1>2, <1>3, <1>4, <1>5, <1>6, <1>7, WhoMoves

\* How a step changes what is on the way to a server, ...
LEMMA StdinMoves ==
  ASSUME TypeOK, Handled, Next, NEW g \in Gens, NEW m \in stdin'[g], m \notin stdin[g]
  PROVE  \E k \in Conns : /\ Forward(k) /\ genOf[k] = g /\ handler[k].at = "hold"
                          /\ m = [id |-> handler[k].id, req |-> handler[k].req]
<1>0. stdin \in [Gens -> SUBSET [id : Nat, req : Requests]]
  BY DEF TypeOK
<1>1. ASSUME NEW h \in Gens, StopRest \/ Answer(h) \/ Die(h) PROVE FALSE
  <2>1. (\E f : stdin' = [stdin EXCEPT ![f] = {}]) \/ \E f, l : stdin' = [stdin EXCEPT ![f] = @ \ {l}]
    BY <1>1 DEF StopRest, Answer, Die
  <2> QED
    BY <1>0, <2>1
<1>2. PICK k \in Conns : Forward(k)
  BY <1>1, WhoMoves
<1> DEFINE l == [id |-> handler[k].id, req |-> handler[k].req]
           h == genOf[k]
<1>3. handler[k].at = "hold"
  BY <1>2 DEF Forward
<1>4. h \in Gens
  BY <1>3, HandlerFacts
<1>5. stdin' = [stdin EXCEPT ![h] = IF alive[h] THEN @ \cup {l} ELSE @]
  BY <1>2, Zenon DEF Forward
<1> HIDE DEF h, l
<1>6. h = g /\ m = l
  BY <1>0, <1>4, <1>5
<1> QED
  BY <1>2, <1>3, <1>6 DEF h, l

\* ... and on the way from it.
LEMMA StdoutMoves ==
  ASSUME TypeOK, Next, NEW g \in Gens
  PROVE  \/ stdout'[g] = stdout[g]
         \/ stdout'[g] = <<>>
         \/ Route(g) /\ stdout[g] # <<>> /\ stdout'[g] = Tail(stdout[g])
         \/ Answer(g) /\ \E m \in stdin[g] : stdout'[g] = Append(stdout[g], m)
                                             /\ stdin'[g] = stdin[g] \ {m}
         \/ /\ AskClients(g) /\ serverAsked'[g] = serverAsked[g] + 1
            /\ stdout'[g] = Append(stdout[g], [id |-> serverAsked[g] + 1, req |-> Ask])
<1>0. /\ stdout \in [Gens -> Seq(Messages)] /\ serverAsked \in [Gens -> Nat]
      /\ stdin \in [Gens -> SUBSET [id : Nat, req : Requests]]
  BY DEF TypeOK, Messages
<1>1. CASE StopRest
  <2>1. stdout' = [stdout EXCEPT ![gen] = <<>>]
    BY <1>1 DEF StopRest
  <2> QED
    BY <1>0, <2>1
<1>2. ASSUME NEW h \in Gens, Route(h)
      PROVE  \/ stdout'[g] = stdout[g]
             \/ Route(g) /\ stdout[g] # <<>> /\ stdout'[g] = Tail(stdout[g])
  <2>1. stdout[h] # <<>> /\ stdout' = [stdout EXCEPT ![h] = Tail(@)]
    BY <1>2, RouteFacts
  <2> QED
    BY <1>0, <1>2, <2>1
<1>3. ASSUME NEW h \in Gens, Answer(h)
      PROVE  \/ stdout'[g] = stdout[g]
             \/ Answer(g) /\ \E m \in stdin[g] : stdout'[g] = Append(stdout[g], m)
                                                 /\ stdin'[g] = stdin[g] \ {m}
  <2>1. PICK m \in stdin[h] : /\ stdin' = [stdin EXCEPT ![h] = @ \ {m}]
                              /\ stdout' = [stdout EXCEPT ![h] = Append(@, m)]
    BY <1>3 DEF Answer
  <2>2. CASE h = g
    <3>1. stdout'[g] = Append(stdout[g], m) /\ stdin'[g] = stdin[g] \ {m}
      BY <1>0, <2>1, <2>2
    <3> QED
      BY <1>3, <2>1, <2>2, <3>1
  <2>3. CASE h # g
    BY <1>0, <2>1, <2>3
  <2> QED
    BY <2>2, <2>3
<1>4. ASSUME NEW h \in Gens, AskClients(h)
      PROVE  \/ stdout'[g] = stdout[g]
             \/ /\ AskClients(g) /\ serverAsked'[g] = serverAsked[g] + 1
                /\ stdout'[g] = Append(stdout[g], [id |-> serverAsked[g] + 1, req |-> Ask])
  <2>1. /\ serverAsked' = [serverAsked EXCEPT ![h] = @ + 1]
        /\ stdout' = [stdout EXCEPT ![h] = Append(@, [id |-> serverAsked[h] + 1, req |-> Ask])]
    BY <1>4 DEF AskClients
  <2> QED
    BY <1>0, <1>4, <2>1
<1> QED
  BY <1>1, <1>2, <1>3, <1>4, WhoMoves

LEMMA SourcesStep ==
  ASSUME TypeOK, ScenarioOK, Handled, Typing, Written, Sources, Next
  PROVE  Sources'
<1>0. TypeOK'
  BY TypeStep
<1>1. ASSUME NEW g \in Gens, NEW n \in Nat, n <= nextID[g]
      PROVE  n <= nextID'[g]
  <2>1. nextID[g] \in Nat /\ nextID'[g] \in Nat /\ nextID[g] <= nextID'[g]
    BY ZenonT(60), <1>0, Grows DEF TypeOK
  <2> QED
    BY <1>1, <2>1
<1>2. ASSUME NEW k \in Conns, handler[k].at = "hold"
      PROVE  /\ genOf[k] \in Gens /\ handler[k].req \in Requests /\ handler[k].id \in Nat
             /\ via[handler[k].req] = k /\ handler[k].id <= nextID[genOf[k]]
             /\ In(genOf[k], handler[k].req)
  BY <1>2, HandlerFacts, Bounds DEF In, Sources
<1>3. ASSUME NEW k \in Conns, handler'[k].at = "hold"
      PROVE  via'[handler'[k].req] = k /\ handler'[k].id <= nextID'[genOf'[k]]
  <2>1. CASE handler'[k] = handler[k]
    <3>1. handler[k].at = "hold"
      BY <1>3, <2>1
    <3>2. via'[handler[k].req] = k /\ genOf'[k] = genOf[k]
      BY <1>2, <3>1, InStays
    <3> QED
      BY <1>1, <1>2, <2>1, <3>1, <3>2
  <2>2. CASE Scan(k)
    <3>1. PICK g \in Gens, r \in Requests, n \in Nat : Numbers(k, g, r, n)
      BY <2>2, ScanFacts
    <3>2. /\ handler[k].at = "scan" /\ genOf[k] = g /\ via[r] = k /\ nextID'[g] = n
          /\ handler' = [handler EXCEPT ![k] = [at |-> "hold", id |-> n, req |-> r]]
      BY <3>1 DEF Numbers, Sources, TypeOK
    <3>3. handler'[k] = [at |-> "hold", id |-> n, req |-> r]
      BY <3>2 DEF TypeOK
    <3>4. In(g, r)
      BY <3>2, Bounds DEF In
    <3>5. via'[r] = k /\ genOf'[k] = g
      BY <3>2, <3>4, InStays
    <3> QED
      BY <3>2, <3>3, <3>5
  <2> QED
    BY <1>3, <2>1, <2>2, HandlerMoves
<1>4. ASSUME NEW g \in Gens, NEW m \in stdin'[g]
      PROVE  InAfter(g, m.req) /\ m.id <= nextID'[g]
  <2>1. CASE m \in stdin[g]
    BY <1>1, <2>1, SetTypes, InStays DEF Sources
  <2>2. CASE m \notin stdin[g]
    <3>1. PICK k \in Conns : /\ genOf[k] = g /\ handler[k].at = "hold"
                             /\ m = [id |-> handler[k].id, req |-> handler[k].req]
      BY <2>2, StdinMoves
    <3>2. m.id = handler[k].id /\ m.req = handler[k].req
      BY <3>1
    <3>3. /\ m.req \in Requests /\ m.id \in Nat /\ m.id <= nextID[g] /\ In(g, m.req)
      BY <1>2, <3>1, <3>2
    <3> QED
      BY <1>1, <3>3, InStays
  <2> QED
    BY <2>1, <2>2
<1>5. ASSUME NEW g \in Gens, NEW i \in DOMAIN stdout'[g]
      PROVE  IF stdout'[g][i].req = Ask THEN serverAsked'[g] > 0
             ELSE InAfter(g, stdout'[g][i].req) /\ stdout'[g][i].id <= nextID'[g]
  <2>0. /\ stdout[g] \in Seq(Messages) /\ serverAsked[g] \in Nat /\ serverAsked'[g] \in Nat
        /\ serverAsked[g] <= serverAsked'[g]
    <3>1. serverAsked'[g] \in Nat
      BY <1>0 DEF TypeOK
    <3> QED
      BY <3>1, Grows, SetTypes
  <2>1. ASSUME NEW j \in DOMAIN stdout[g], stdout'[g][i] = stdout[g][j]
        PROVE  IF stdout'[g][i].req = Ask THEN serverAsked'[g] > 0
               ELSE InAfter(g, stdout'[g][i].req) /\ stdout'[g][i].id <= nextID'[g]
    <3>1. CASE stdout[g][j].req = Ask
      <4>1. serverAsked[g] > 0
        BY <3>1 DEF Sources
      <4>2. serverAsked'[g] > 0
        BY <2>0, <4>1
      <4> QED
        BY <2>1, <3>1, <4>2
    <3>2. CASE stdout[g][j].req # Ask
      <4>1. PICK r \in Requests : r = stdout[g][j].req
        BY <3>2, SetTypes
      <4>2. In(g, r) /\ stdout[g][j].id <= nextID[g] /\ stdout[g][j].id \in Nat
        BY <3>2, <4>1, SetTypes DEF Sources
      <4>3. InAfter(g, r) /\ stdout[g][j].id <= nextID'[g]
        BY <1>1, <4>2, InStays
      <4>4. stdout'[g][i].req = r
        BY <2>1, <4>1
      <4> QED
        BY <2>1, <3>2, <4>1, <4>3, <4>4
    <3> QED
      BY <3>1, <3>2
  <2>2. CASE stdout'[g] = stdout[g]
    BY <2>1, <2>2
  <2>3. CASE stdout'[g] = <<>>
    BY <2>3
  <2>4. CASE stdout[g] # <<>> /\ stdout'[g] = Tail(stdout[g])
    <3>1. stdout'[g][i] = stdout[g][i + 1] /\ i + 1 \in DOMAIN stdout[g]
      BY <2>0, <2>4, TailFacts
    <3> QED
      BY <2>1, <3>1
  <2>5. ASSUME NEW m \in stdin[g], stdout'[g] = Append(stdout[g], m)
        PROVE  IF stdout'[g][i].req = Ask THEN serverAsked'[g] > 0
               ELSE InAfter(g, stdout'[g][i].req) /\ stdout'[g][i].id <= nextID'[g]
    <3>0. m \in Messages /\ m.req \in Requests /\ m.id \in Nat
      BY SetTypes
    <3>1. stdout'[g][i] = m \/ (i \in DOMAIN stdout[g] /\ stdout'[g][i] = stdout[g][i])
      BY <2>0, <2>5, <3>0, AppendFacts
    <3>2. CASE stdout'[g][i] = m
      <4>1. PICK r \in Requests : r = m.req
        BY <3>0
      <4>2. In(g, r) /\ m.id <= nextID[g]
        BY <4>1 DEF Sources
      <4>3. InAfter(g, r) /\ m.id <= nextID'[g]
        BY <1>1, <3>0, <4>2, InStays
      <4>4. stdout'[g][i].req = r /\ r # Ask
        BY <3>2, <4>1, Bounds
      <4> QED
        BY <3>2, <4>3, <4>4
    <3> QED
      BY <2>1, <3>1, <3>2
  <2>6. CASE /\ serverAsked'[g] = serverAsked[g] + 1
             /\ stdout'[g] = Append(stdout[g], [id |-> serverAsked[g] + 1, req |-> Ask])
    <3> DEFINE m == [id |-> serverAsked[g] + 1, req |-> Ask]
    <3>0. m \in Messages /\ m.req = Ask
      BY <2>0 DEF Messages
    <3>1. stdout'[g] = Append(stdout[g], m)
      BY <2>6
    <3>2. serverAsked'[g] > 0
      BY <2>0, <2>6
    <3> HIDE DEF m
    <3>3. stdout'[g][i] = m \/ (i \in DOMAIN stdout[g] /\ stdout'[g][i] = stdout[g][i])
      BY <2>0, <3>0, <3>1, AppendFacts
    <3> QED
      BY <2>1, <3>0, <3>2, <3>3
  <2> QED
    BY <2>2, <2>3, <2>4, <2>5, <2>6, StdoutMoves
<1> QED
  <2>1. \A g \in Gens : \A m \in stdin'[g] : In(g, m.req)' /\ m.id <= nextID'[g]
    BY <1>4 DEF In, InAfter
  <2>2. \A g \in Gens : \A e \in idMap'[g] :
          /\ e.pid <= nextID'[g] /\ genOf'[e.conn] = g /\ handler'[e.conn].at # "none"
          /\ \E r \in Requests : via'[r] = e.conn /\ r[2] = e.id
    BY EntriesStep
  <2>3. \A k \in Conns : \A i \in DOMAIN up'[k] : via'[up'[k][i]] = k
    BY UpStep
  <2> QED
    BY <1>3, <1>5, <2>1, <2>2, <2>3 DEF Sources, In, InAfter

-----------------------------------------------------------------------------
\* Each id is on the way once.

\* Who holds an id after a step: who held it, or the handler that has just given it.
LEMMA HolderMoves ==
  ASSUME TypeOK, ScenarioOK, Handled, Typing, Next, NEW g \in Gens
  PROVE  \/ \A j \in Conns, n \in Nat : Holder(g, j, n)' => Holder(g, j, n)
         \/ \E k \in Conns :
              /\ \A j \in Conns, n \in Nat : j # k => (Holder(g, j, n)' => Holder(g, j, n))
              /\ \A n \in Nat : Holder(g, k, n)' => n = nextID[g] + 1
              /\ stdin'[g] = stdin[g] /\ stdout'[g] = stdout[g]
<1>1. ASSUME NEW j \in Conns, NEW n \in Nat, Holder(g, j, n)', handler'[j] = handler[j]
      PROVE  Holder(g, j, n)
  <2>1. genOf'[j] = g /\ handler[j].at = "hold" /\ handler[j].id = n
    BY <1>1 DEF Holder
  <2>2. conn[j] # "none"
    BY <2>1 DEF Handled
  <2> QED
    BY <2>1, <2>2, Grows DEF Holder
<1>2. CASE \E k \in Conns : Scan(k)
  <2>1. PICK k \in Conns : Scan(k)
    BY <1>2
  <2>2. PICK h \in Gens, r \in Requests, n \in Nat : Numbers(k, h, r, n)
    BY <2>1, ScanFacts
  <2>3. /\ handler' = [handler EXCEPT ![k] = [at |-> "hold", id |-> n, req |-> r]]
        /\ genOf[k] = h /\ n = nextID[h] + 1
    BY <2>2 DEF Numbers
  <2>4. stdin' = stdin /\ stdout' = stdout /\ genOf' = genOf
    BY <2>1 DEF Scan, servers
  <2>5. handler'[k] = [at |-> "hold", id |-> n, req |-> r] /\ \A j \in Conns : j # k => handler'[j] = handler[j]
    BY <2>3 DEF TypeOK
  <2>6. \A j \in Conns, l \in Nat : j # k => (Holder(g, j, l)' => Holder(g, j, l))
    BY <1>1, <2>5
  <2>7. \A l \in Nat : Holder(g, k, l)' => l = nextID[g] + 1
    BY <2>3, <2>4, <2>5 DEF Holder
  <2> QED
    BY <2>4, <2>6, <2>7
<1>3. CASE ~\E k \in Conns : Scan(k)
  <2>1. \A j \in Conns, n \in Nat : Holder(g, j, n)' => handler'[j] = handler[j]
    BY <1>3, HandlerMoves DEF Holder
  <2> QED
    BY <1>1, <2>1
<1> QED
  BY <1>2, <1>3

\* Which answers are on the way after a step.
LEMMA OutMoves ==
  ASSUME TypeOK, Next, NEW g \in Gens
  PROVE  \/ \A i \in DOMAIN stdout'[g], n \in Nat : Out(g, i, n)' => i \in DOMAIN stdout[g] /\ Out(g, i, n)
         \/ \A i \in DOMAIN stdout'[g], n \in Nat :
              Out(g, i, n)' => i + 1 \in DOMAIN stdout[g] /\ Out(g, i + 1, n) /\ i \in Nat
         \/ \E m \in stdin[g] :
              /\ stdin'[g] = stdin[g] \ {m}
              /\ \A i \in DOMAIN stdout'[g], n \in Nat : Out(g, i, n)' =>
                   \/ i \in DOMAIN stdout[g] /\ Out(g, i, n)
                   \/ i = Len(stdout[g]) + 1 /\ i \notin DOMAIN stdout[g] /\ n = m.id
<1>0. stdout[g] \in Seq(Messages) /\ serverAsked[g] \in Nat
  BY SetTypes
<1>1. CASE stdout'[g] = stdout[g]
  BY <1>1 DEF Out
<1>2. CASE stdout'[g] = <<>>
  BY <1>2 DEF Out
<1>3. CASE stdout[g] # <<>> /\ stdout'[g] = Tail(stdout[g])
  <2>1. \A i \in DOMAIN stdout'[g] : stdout'[g][i] = stdout[g][i + 1] /\ i + 1 \in DOMAIN stdout[g] /\ i \in Nat
    BY <1>0, <1>3, TailFacts
  <2> QED
    BY <2>1 DEF Out
<1>4. CASE \E m \in stdin[g] : stdout'[g] = Append(stdout[g], m) /\ stdin'[g] = stdin[g] \ {m}
  <2>1. PICK m \in stdin[g] : stdout'[g] = Append(stdout[g], m) /\ stdin'[g] = stdin[g] \ {m}
    BY <1>4
  <2>2. m \in Messages
    BY SetTypes
  <2>3. \A i \in DOMAIN stdout'[g] :
          \/ i \in DOMAIN stdout[g] /\ stdout'[g][i] = stdout[g][i]
          \/ i = Len(stdout[g]) + 1 /\ i \notin DOMAIN stdout[g] /\ stdout'[g][i] = m
    BY <1>0, <2>1, <2>2, AppendFacts
  <2>4. \A i \in DOMAIN stdout'[g], n \in Nat : Out(g, i, n)' =>
          \/ i \in DOMAIN stdout[g] /\ Out(g, i, n)
          \/ i = Len(stdout[g]) + 1 /\ i \notin DOMAIN stdout[g] /\ n = m.id
    BY <2>3 DEF Out
  <2> QED
    BY <2>1, <2>4
<1>5. CASE stdout'[g] = Append(stdout[g], [id |-> serverAsked[g] + 1, req |-> Ask])
  <2> DEFINE m == [id |-> serverAsked[g] + 1, req |-> Ask]
  <2>1. m \in Messages /\ m.req = Ask
    BY <1>0 DEF Messages
  <2> HIDE DEF m
  <2>2. stdout'[g] = Append(stdout[g], m)
    BY <1>5 DEF m
  <2>3. \A i \in DOMAIN stdout'[g] :
          (i \in DOMAIN stdout[g] /\ stdout'[g][i] = stdout[g][i]) \/ stdout'[g][i] = m
    BY <1>0, <2>1, <2>2, AppendFacts
  <2> QED
    BY <2>1, <2>3 DEF Out
<1> QED
  BY <1>1, <1>2, <1>3, <1>4, <1>5, StdoutMoves

LEMMA DistinctStep ==
  ASSUME TypeOK, ScenarioOK, Handled, Typing, Sources, Distinct, Next
  PROVE  Distinct'
<1> SUFFICES ASSUME NEW g \in Gens
             PROVE  /\ \A k, j \in Conns, n \in Nat : Holder(g, k, n)' /\ Holder(g, j, n)' => k = j
                    /\ \A m, l \in stdin'[g] : m.id = l.id => m = l
                    /\ \A i, j \in DOMAIN stdout'[g], n \in Nat : Out(g, i, n)' /\ Out(g, j, n)' => i = j
                    /\ \A m \in stdin'[g] : /\ \A k \in Conns : ~Holder(g, k, m.id)'
                                            /\ \A i \in DOMAIN stdout'[g] : ~Out(g, i, m.id)'
                    /\ \A k \in Conns, i \in DOMAIN stdout'[g], n \in Nat :
                         ~(Holder(g, k, n)' /\ Out(g, i, n)')
  BY DEF Distinct
<1>1. /\ \A k, j \in Conns, n \in Nat : Holder(g, k, n) /\ Holder(g, j, n) => k = j
      /\ \A m, l \in stdin[g] : m.id = l.id => m = l
      /\ \A i, j \in DOMAIN stdout[g], n \in Nat : Out(g, i, n) /\ Out(g, j, n) => i = j
      /\ \A m \in stdin[g] : /\ \A k \in Conns : ~Holder(g, k, m.id)
                             /\ \A i \in DOMAIN stdout[g] : ~Out(g, i, m.id)
      /\ \A k \in Conns, i \in DOMAIN stdout[g], n \in Nat : ~(Holder(g, k, n) /\ Out(g, i, n))
  BY DEF Distinct
\* The ids that were given, and those that come out and in.
<1>2. /\ nextID[g] \in Nat
      /\ \A k \in Conns, n \in Nat : Holder(g, k, n) => n <= nextID[g]
      /\ \A m \in stdin[g] : m.id \in Nat /\ m.id <= nextID[g]
      /\ \A i \in DOMAIN stdout[g], n \in Nat : Out(g, i, n) => n <= nextID[g]
  BY SetTypes DEF Sources, Holder, Out
<1>3. \A n \in Nat : n = nextID[g] + 1 => ~(n <= nextID[g])
  BY <1>2
<1>4. \A i \in DOMAIN stdout'[g], n \in Nat : Out(g, i, n)' =>
        \/ \E j \in DOMAIN stdout[g] : Out(g, j, n)
        \/ \E m \in stdin[g] : m.id = n /\ stdin'[g] = stdin[g] \ {m}
  BY OutMoves
<1>5. \A m \in stdin'[g] : m \in stdin[g] \/ \E k \in Conns :
        /\ Holder(g, k, m.id) /\ m.id \in Nat /\ (\A n \in Nat : ~Holder(g, k, n)') /\ stdout'[g] = stdout[g]
        /\ m = [id |-> handler[k].id, req |-> handler[k].req]
  <2> SUFFICES ASSUME NEW m \in stdin'[g], m \notin stdin[g]
               PROVE  \E k \in Conns :
                        /\ Holder(g, k, m.id) /\ m.id \in Nat /\ (\A n \in Nat : ~Holder(g, k, n)')
                        /\ stdout'[g] = stdout[g]
                        /\ m = [id |-> handler[k].id, req |-> handler[k].req]
    OBVIOUS
  <2>1. PICK k \in Conns : /\ Forward(k) /\ genOf[k] = g /\ handler[k].at = "hold"
                           /\ m = [id |-> handler[k].id, req |-> handler[k].req]
    BY StdinMoves
  <2>2. Holder(g, k, m.id) /\ m.id \in Nat
    BY <2>1, HandlerFacts DEF Holder
  <2>3. stdout' = stdout /\ handler' = [handler EXCEPT ![k] = [at |-> "scan"]]
    BY <2>1 DEF Forward
  <2>4. handler'[k].at = "scan"
    BY <2>3 DEF TypeOK
  <2>5. \A n \in Nat : ~Holder(g, k, n)'
    BY <2>4 DEF Holder
  <2> QED
    BY <2>1, <2>2, <2>3, <2>5
<1>6. \A m \in stdin'[g] : m.id \in Nat
  BY <1>2, <1>5
<1>7. ASSUME NEW k \in Conns, NEW n \in Nat, Holder(g, k, n)', ~Holder(g, k, n)
      PROVE  /\ stdin'[g] = stdin[g] /\ stdout'[g] = stdout[g] /\ n = nextID[g] + 1
             /\ \A j \in Conns : j # k => (Holder(g, j, n)' => Holder(g, j, n))
  BY <1>7, HolderMoves
<1>8. ASSUME NEW k \in Conns, NEW j \in Conns, NEW n \in Nat, Holder(g, k, n)', Holder(g, j, n)'
      PROVE  k = j
  BY <1>1, <1>2, <1>3, <1>7, <1>8
<1>9. ASSUME NEW m \in stdin'[g], NEW l \in stdin'[g], m.id = l.id PROVE m = l
  <2>1. CASE m \in stdin[g] /\ l \in stdin[g]
    BY <1>1, <1>9, <2>1
  <2>2. CASE m \notin stdin[g] /\ l \in stdin[g]
    BY <1>1, <1>5, <1>9, <2>2
  <2>3. CASE m \in stdin[g] /\ l \notin stdin[g]
    BY <1>1, <1>5, <1>9, <2>3
  <2>4. CASE m \notin stdin[g] /\ l \notin stdin[g]
    <3>1. PICK k \in Conns : Holder(g, k, m.id) /\ m.id \in Nat /\ m = [id |-> handler[k].id, req |-> handler[k].req]
      BY <1>5, <2>4
    <3>2. PICK j \in Conns : Holder(g, j, l.id) /\ l = [id |-> handler[j].id, req |-> handler[j].req]
      BY <1>5, <2>4
    <3>3. k = j
      BY <1>1, <1>9, <3>1, <3>2
    <3> QED
      BY <3>1, <3>2, <3>3
  <2> QED
    BY <2>1, <2>2, <2>3, <2>4
<1>10. ASSUME NEW i \in DOMAIN stdout'[g], NEW j \in DOMAIN stdout'[g], NEW n \in Nat,
              Out(g, i, n)', Out(g, j, n)'
       PROVE  i = j
  <2>1. CASE \A h \in DOMAIN stdout'[g], l \in Nat : Out(g, h, l)' => h \in DOMAIN stdout[g] /\ Out(g, h, l)
    BY <1>1, <1>10, <2>1
  <2>2. CASE \A h \in DOMAIN stdout'[g], l \in Nat :
               Out(g, h, l)' => h + 1 \in DOMAIN stdout[g] /\ Out(g, h + 1, l) /\ h \in Nat
    <3>1. /\ i + 1 \in DOMAIN stdout[g] /\ Out(g, i + 1, n) /\ i \in Nat
          /\ j + 1 \in DOMAIN stdout[g] /\ Out(g, j + 1, n) /\ j \in Nat
      BY <1>10, <2>2
    <3>2. i + 1 = j + 1
      BY <1>1, <3>1
    <3> QED
      BY <3>1, <3>2
  <2>3. CASE \E m \in stdin[g] :
               \A h \in DOMAIN stdout'[g], l \in Nat : Out(g, h, l)' =>
                   \/ h \in DOMAIN stdout[g] /\ Out(g, h, l)
                   \/ h = Len(stdout[g]) + 1 /\ h \notin DOMAIN stdout[g] /\ l = m.id
    BY <1>1, <1>10, <2>3
  <2> QED
    BY <2>1, <2>2, <2>3, OutMoves
<1>11. ASSUME NEW m \in stdin'[g], NEW k \in Conns, Holder(g, k, m.id)' PROVE FALSE
  <2>1. CASE m \in stdin[g]
    BY <1>1, <1>2, <1>3, <1>6, <1>7, <1>11, <2>1
  <2>2. CASE m \notin stdin[g]
    <3>1. PICK j \in Conns : Holder(g, j, m.id) /\ m.id \in Nat /\ \A n \in Nat : ~Holder(g, j, n)'
      BY <1>5, <2>2
    <3>2. k # j
      BY <1>11, <3>1
    <3>3. m.id <= nextID[g]
      BY <1>2, <3>1
    <3>4. Holder(g, k, m.id)
      BY <1>3, <1>7, <1>11, <3>1, <3>3
    <3> QED
      BY <1>1, <3>1, <3>2, <3>4
  <2> QED
    BY <2>1, <2>2
<1>12. ASSUME NEW m \in stdin'[g], NEW i \in DOMAIN stdout'[g], Out(g, i, m.id)' PROVE FALSE
  <2>1. CASE m \in stdin[g]
    BY <1>1, <1>4, <1>6, <1>12, <2>1
  <2>2. CASE m \notin stdin[g]
    <3>1. PICK j \in Conns : Holder(g, j, m.id) /\ m.id \in Nat /\ stdout'[g] = stdout[g]
      BY <1>5, <2>2
    <3>2. i \in DOMAIN stdout[g] /\ Out(g, i, m.id)
      BY <1>12, <3>1 DEF Out
    <3> QED
      BY <1>1, <3>1, <3>2
  <2> QED
    BY <2>1, <2>2
<1>13. ASSUME NEW k \in Conns, NEW i \in DOMAIN stdout'[g], NEW n \in Nat, Holder(g, k, n)', Out(g, i, n)'
       PROVE  FALSE
  <2>1. CASE Holder(g, k, n)
    BY <1>1, <1>4, <1>13, <2>1
  <2>2. CASE ~Holder(g, k, n)
    <3>1. stdout'[g] = stdout[g] /\ n = nextID[g] + 1
      BY <1>7, <1>13, <2>2
    <3>2. i \in DOMAIN stdout[g] /\ Out(g, i, n)
      BY <1>13, <3>1 DEF Out
    <3> QED
      BY <1>2, <1>3, <3>1, <3>2
  <2> QED
    BY <2>1, <2>2
<1> QED
  BY <1>8, <1>9, <1>10, <1>11, <1>12, <1>13

-----------------------------------------------------------------------------
\* The way back.

\* What is in service, and where.
LEMMA ServiceFacts ==
  ASSUME TypeOK, ScenarioOK, Handled, Sources, NEW g \in Gens, NEW m
  PROVE  /\ m \in InService(g) <=>
              \/ m \in stdin[g]
              \/ \E i \in DOMAIN stdout[g] : stdout[g][i] = m /\ m.req # Ask
              \/ \E k \in Conns : /\ genOf[k] = g /\ handler[k].at = "hold"
                                  /\ m = [id |-> handler[k].id, req |-> handler[k].req]
         /\ m \in InService(g) =>
              m.id \in Nat /\ m.id <= nextID[g] /\ m.req \in Requests /\ In(g, m.req)
<1>1. m \in InService(g) <=>
              \/ m \in stdin[g]
              \/ \E i \in DOMAIN stdout[g] : stdout[g][i] = m /\ m.req # Ask
              \/ \E k \in Conns : /\ genOf[k] = g /\ handler[k].at = "hold"
                                  /\ m = [id |-> handler[k].id, req |-> handler[k].req]
  BY DEF InService
<1>2. CASE m \in stdin[g]
  BY <1>1, <1>2, SetTypes DEF Sources
<1>3. ASSUME NEW i \in DOMAIN stdout[g], stdout[g][i] = m, m.req # Ask
      PROVE  m.id \in Nat /\ m.id <= nextID[g] /\ m.req \in Requests /\ In(g, m.req)
  BY <1>3, SetTypes DEF Sources
<1>4. ASSUME NEW k \in Conns, genOf[k] = g, handler[k].at = "hold",
             m = [id |-> handler[k].id, req |-> handler[k].req]
      PROVE  m.id \in Nat /\ m.id <= nextID[g] /\ m.req \in Requests /\ In(g, m.req)
  <2>1. m.id = handler[k].id /\ m.req = handler[k].req
    BY <1>4
  <2>2. handler[k].id \in Nat /\ handler[k].req \in Requests
    BY <1>4, HandlerFacts
  <2>3. via[handler[k].req] = k /\ handler[k].id <= nextID[g]
    BY <1>4 DEF Sources
  <2> QED
    BY <1>4, <2>1, <2>2, <2>3, Bounds DEF In
<1> QED
  BY <1>1, <1>2, <1>3, <1>4

\* What is in service after a step was in service, or has just been numbered.
LEMMA ServiceMoves ==
  ASSUME TypeOK, ScenarioOK, Handled, Typing, Sources, Next, Handled', Sources',
         NEW g \in Gens, NEW m, m \in InService(g)'
  PROVE  \/ m \in InService(g)
         \/ \E k \in Conns, r \in Requests, n \in Nat :
              Scan(k) /\ Numbers(k, g, r, n) /\ m = [id |-> n, req |-> r]
<1>1. \/ m \in stdin'[g]
      \/ \E i \in DOMAIN stdout'[g] : stdout'[g][i] = m /\ m.req # Ask
      \/ \E k \in Conns : /\ genOf'[k] = g /\ handler'[k].at = "hold"
                          /\ m = [id |-> handler'[k].id, req |-> handler'[k].req]
  BY DEF InService
<1>2. CASE m \in stdin'[g]
  BY <1>2, StdinMoves, ServiceFacts
<1>3. ASSUME NEW i \in DOMAIN stdout'[g], stdout'[g][i] = m, m.req # Ask
      PROVE  m \in InService(g)
  <2>0. stdout[g] \in Seq(Messages) /\ serverAsked[g] \in Nat
    BY SetTypes
  <2>1. CASE stdout'[g] = stdout[g]
    BY <1>3, <2>1, ServiceFacts
  <2>2. CASE stdout'[g] = <<>>
    BY <1>3, <2>2
  <2>3. CASE stdout[g] # <<>> /\ stdout'[g] = Tail(stdout[g])
    <3>1. stdout'[g][i] = stdout[g][i + 1] /\ i + 1 \in DOMAIN stdout[g]
      BY <2>0, <2>3, TailFacts
    <3> QED
      BY <1>3, <3>1, ServiceFacts
  <2>4. ASSUME NEW l \in stdin[g], stdout'[g] = Append(stdout[g], l)
        PROVE  m \in InService(g)
    <3>1. l \in Messages
      BY SetTypes
    <3>2. stdout'[g][i] = l \/ (i \in DOMAIN stdout[g] /\ stdout'[g][i] = stdout[g][i])
      BY <2>0, <2>4, <3>1, AppendFacts
    <3> QED
      BY <1>3, <3>2, ServiceFacts
  <2>5. CASE stdout'[g] = Append(stdout[g], [id |-> serverAsked[g] + 1, req |-> Ask])
    <3> DEFINE l == [id |-> serverAsked[g] + 1, req |-> Ask]
    <3>1. l \in Messages /\ l.req = Ask
      BY <2>0 DEF Messages
    <3> HIDE DEF l
    <3>2. stdout'[g] = Append(stdout[g], l)
      BY <2>5 DEF l
    <3>3. stdout'[g][i] = l \/ (i \in DOMAIN stdout[g] /\ stdout'[g][i] = stdout[g][i])
      BY <2>0, <3>1, <3>2, AppendFacts
    <3> QED
      BY <1>3, <3>1, <3>3, ServiceFacts
  <2> QED
    BY <2>1, <2>2, <2>3, <2>4, <2>5, StdoutMoves
<1>4. ASSUME NEW k \in Conns, genOf'[k] = g, handler'[k].at = "hold",
             m = [id |-> handler'[k].id, req |-> handler'[k].req]
      PROVE  \/ m \in InService(g)
             \/ \E r \in Requests, n \in Nat :
                  Scan(k) /\ Numbers(k, g, r, n) /\ m = [id |-> n, req |-> r]
  <2>1. CASE handler'[k] = handler[k]
    <3>1. conn[k] # "none" /\ handler[k].at = "hold"
      BY <1>4, <2>1 DEF Handled
    <3>2. genOf[k] = g
      BY <1>4, <3>1, Grows
    <3> QED
      BY <1>4, <2>1, <3>1, <3>2, ServiceFacts
  <2>2. CASE Scan(k)
    <3>1. PICK h \in Gens, r \in Requests, n \in Nat : Numbers(k, h, r, n)
      BY <2>2, ScanFacts
    <3>2. genOf[k] = h /\ handler' = [handler EXCEPT ![k] = [at |-> "hold", id |-> n, req |-> r]]
      BY <3>1 DEF Numbers
    <3>3. handler'[k] = [at |-> "hold", id |-> n, req |-> r] /\ genOf' = genOf
      BY <2>2, <3>2 DEF TypeOK, Scan
    <3> QED
      BY <1>4, <2>2, <3>1, <3>2, <3>3
  <2> QED
    BY <1>4, <2>1, <2>2, HandlerMoves
<1> QED
  BY <1>1, <1>2, <1>3, <1>4

\* How an entry is lost while its proxy reads its server.
LEMMA EntryLoss ==
  ASSUME TypeOK, ScenarioOK, Handled, Lives, Next, NEW g \in Gens, Routing(g)',
         NEW e \in idMap[g], e \notin idMap'[g]
  PROVE  \/ Ends(e.conn)
         \/ Route(g) /\ e.pid = Head(stdout[g]).id
<1>0. /\ idMap \in [Gens -> SUBSET [pid : Nat, conn : Conns, id : Nat]]
      /\ broadcaster \in [Gens -> {"none", "scan", "failed", "closed", "done"}]
      /\ stopper \in [Gens -> {"starting", "no", "rest", "done"}]
      /\ gen \in Gens
  BY DEF TypeOK
<1>1. ASSUME NEW k \in Conns, Scan(k) PROVE FALSE
  <2>1. PICK h \in Gens, r \in Requests, n \in Nat : Numbers(k, h, r, n)
    BY <1>1, ScanFacts
  <2>2. \E f : idMap' = [idMap EXCEPT ![h] = @ \cup {f}]
    BY <2>1 DEF Numbers
  <2> QED
    BY <1>0, <2>2
<1>2. ASSUME NEW k \in Conns, Ends(k) PROVE e.conn = k
  <2>1. idMap' = [idMap EXCEPT ![genOf[k]] = {f \in @ : f.conn # k}]
    BY <1>2, EndFacts
  <2> QED
    BY <1>0, <2>1
<1>3. ASSUME NEW h \in Gens, Route(h) PROVE h = g /\ e.pid = Head(stdout[g]).id
  <2>1. idMap' = [idMap EXCEPT ![h] = @ \ {f \in idMap[h] : f.pid = Head(stdout[h]).id}]
    BY <1>3, RouteFacts
  <2> QED
    BY <1>0, <2>1
<1>4. ASSUME StopRest PROVE FALSE
  <2>1. idMap' = [idMap EXCEPT ![gen] = {}] /\ stopper' = [stopper EXCEPT ![gen] = "done"]
    BY <1>4 DEF StopRest
  <2>2. g = gen /\ stopper'[g] = "done"
    BY <1>0, <2>1
  <2> QED
    BY <2>2 DEF Routing
<1>5. ASSUME NEW h \in Gens, EndBroadcast(h) PROVE FALSE
  <2>1. idMap' = [idMap EXCEPT ![h] = {}] /\ broadcaster' = [broadcaster EXCEPT ![h] = "done"]
    BY <1>5 DEF EndBroadcast
  <2>2. g = h /\ broadcaster'[g] = "done"
    BY <1>0, <2>1
  <2> QED
    BY <2>2 DEF Routing
<1> QED
  BY <1>1, <1>2, <1>3, <1>4, <1>5, WhoMoves

LEMMA WayBackStep ==
  ASSUME TypeOK, ScenarioOK, ProxyInv, RouteInv, Next, Handled', Sources'
  PROVE  WayBackKnown'
<1> USE DEF ProxyInv, RouteInv
<1>1. SUFFICES ASSUME NEW g \in Gens, Routing(g)', serverAsked'[g] = 0,
                      NEW m, m \in InService(g)',
                      handler'[via'[m.req]].at \in {"scan", "hold"}
               PROVE  {e \in idMap'[g] : e.pid = m.id}
                        = {[pid |-> m.id, conn |-> via'[m.req], id |-> m.req[2]]}
  BY DEF WayBackKnown
<1>2. serverAsked[g] = 0 /\ nextID[g] \in Nat
  <2>1. serverAsked[g] \in Nat /\ serverAsked[g] <= serverAsked'[g] /\ nextID[g] \in Nat
    BY SetTypes, Grows
  <2> QED
    BY <1>1, <2>1
<1>3. \A h \in Gens : h <= gen => (broadcaster'[h] = "scan" => broadcaster[h] = "scan")
  <2>1. \/ broadcaster' = broadcaster
        \/ broadcaster' = [broadcaster EXCEPT ![gen + 1] = "scan"]
        \/ \E h \in Gens : \E v \in {"failed", "closed", "done"} : broadcaster' = [broadcaster EXCEPT ![h] = v]
    BY WhoMoves, FailFacts DEF StartNext, CloseAllClients, EndBroadcast
  <2>2. broadcaster \in [Gens -> {"none", "scan", "failed", "closed", "done"}]
    BY DEF TypeOK
  <2>3. gen \in Nat /\ \A h \in Gens : h \in Nat
    BY DEF TypeOK, Gens
  <2>4. \A h \in Gens : h <= gen => h # gen + 1
    BY <2>3
  <2> QED
    BY <2>1, <2>2, <2>4
<1>4. g <= gen => Routing(g)
  <2>1. g <= gen => broadcaster[g] = "scan"
    BY <1>1, <1>3 DEF Routing
  <2> QED
    BY <2>1 DEF Routing, Lives
<1>5. CASE m \in InService(g)
  <2>1. m.id \in Nat /\ m.id <= nextID[g] /\ m.req \in Requests /\ In(g, m.req)
    BY <1>5, ServiceFacts
  <2>2. via'[m.req] = via[m.req] /\ via[m.req] \in Conns /\ genOf[via[m.req]] = g
    BY <2>1, InStays DEF In
  <2>3. handler[via[m.req]].at \in {"scan", "hold"} /\ g <= gen
    <3>1. handler[via[m.req]].at # "none" /\ conn[via[m.req]] # "none"
      BY <2>1, <2>2 DEF In, Handled
    <3>2. handler'[via[m.req]].at \in {"scan", "hold"}
      BY <1>1, <2>2
    <3>3. g <= gen
      BY <2>2, <3>1, HandlerFacts
    <3> QED
      BY <2>2, <3>1, <3>2, <3>3, CutStays
  <2> DEFINE E == [pid |-> m.id, conn |-> via[m.req], id |-> m.req[2]]
  <2>4. {e \in idMap[g] : e.pid = m.id} = {E}
    BY <1>2, <1>4, <1>5, <2>3 DEF WayBackKnown
  <2>5. ~Ends(via[m.req])
    <3>1. handler'[via[m.req]].at \in {"scan", "hold"}
      BY <1>1, <2>2
    <3>2. ASSUME Ends(via[m.req]) PROVE handler'[via[m.req]].at \in {"leave", "cut"}
      <4>1. \E at \in {"leave", "cut"} :
              handler' = [handler EXCEPT ![via[m.req]] = [at |-> at]]
        BY <3>2, EndFacts
      <4> QED
        BY <2>2, <4>1 DEF TypeOK
    <3> QED
      BY <3>1, <3>2
  <2>6. ~(Route(g) /\ m.id = Head(stdout[g]).id)
    <3> SUFFICES ASSUME Route(g), m.id = Head(stdout[g]).id PROVE FALSE
      OBVIOUS
    <3>1. /\ 1 \in DOMAIN stdout[g] /\ stdout[g] # <<>> /\ Head(stdout[g]) = stdout[g][1]
          /\ stdout' = [stdout EXCEPT ![g] = Tail(@)]
      BY RouteFacts
    <3>2. stdout[g][1].req # Ask
      BY <1>2, <3>1 DEF Sources
    <3>3. Out(g, 1, m.id)
      BY <3>1, <3>2 DEF Out
    <3>4. stdin' = stdin /\ handler' = handler /\ genOf' = genOf
      BY DEF Route
    <3>5. stdout'[g] = Tail(stdout[g]) /\ stdout[g] \in Seq(Messages)
      BY <3>1, SetTypes DEF TypeOK
    <3>6. \/ m \in stdin[g]
          \/ \E i \in DOMAIN stdout'[g] : stdout'[g][i] = m /\ m.req # Ask
          \/ \E k \in Conns : /\ genOf[k] = g /\ handler[k].at = "hold"
                              /\ m = [id |-> handler[k].id, req |-> handler[k].req]
      BY <1>1, <3>4 DEF InService
    <3>7. ASSUME NEW i \in DOMAIN stdout'[g], stdout'[g][i] = m, m.req # Ask PROVE FALSE
      <4>1. stdout[g][i + 1] = m /\ i + 1 \in DOMAIN stdout[g] /\ i + 1 # 1
        BY ZenonT(60), <3>1, <3>5, <3>7, TailFacts
      <4>2. Out(g, i + 1, m.id)
        BY <3>7, <4>1 DEF Out
      <4> QED
        BY <2>1, <3>1, <3>3, <4>1, <4>2 DEF Distinct
    <3>8. ASSUME NEW k \in Conns, genOf[k] = g, handler[k].at = "hold",
                 m = [id |-> handler[k].id, req |-> handler[k].req]
          PROVE  FALSE
      <4>1. Holder(g, k, m.id)
        BY <3>8 DEF Holder
      <4> QED
        BY <2>1, <3>1, <3>3, <4>1 DEF Distinct
    <3>9. m \notin stdin[g]
      BY <3>1, <3>3 DEF Distinct
    <3> QED
      BY <3>6, <3>7, <3>8, <3>9
  <2>7. E \in idMap'[g]
    <3>1. E \in idMap[g] /\ E.conn = via[m.req] /\ E.pid = m.id
      BY <2>4
    <3> HIDE DEF E
    <3> QED
      BY <1>1, <2>5, <2>6, <3>1, EntryLoss
  <2>8. \A e \in idMap'[g] : e.pid = m.id => e \in idMap[g]
    <3> SUFFICES ASSUME NEW e \in idMap'[g], e.pid = m.id, e \notin idMap[g] PROVE FALSE
      OBVIOUS
    <3>1. PICK k \in Conns, r \in Requests, n \in Nat :
            Numbers(k, g, r, n) /\ e = [pid |-> n, conn |-> k, id |-> r[2]]
      BY EntryMoves
    <3>2. m.id = nextID[g] + 1
      BY <3>1 DEF Numbers
    <3> QED
      BY <1>2, <2>1, <3>2
  <2>9. {e \in idMap'[g] : e.pid = m.id} = {E}
    <3>1. E.pid = m.id
      OBVIOUS
    <3> HIDE DEF E
    <3> QED
      BY <2>4, <2>7, <2>8, <3>1
  <2> QED
    BY <2>2, <2>9
<1>6. ASSUME NEW k \in Conns, NEW r \in Requests, NEW n \in Nat,
             Scan(k), Numbers(k, g, r, n), m = [id |-> n, req |-> r]
      PROVE  {e \in idMap'[g] : e.pid = m.id}
               = {[pid |-> m.id, conn |-> via'[m.req], id |-> m.req[2]]}
  <2>1. m.id = n /\ m.req = r
    BY <1>6
  <2>2. via[r] = k /\ n = nextID[g] + 1 /\ genOf[k] = g
    BY <1>6 DEF Numbers, Sources
  <2>3. via' = via
    BY <1>6 DEF Scan, sessions
  <2> DEFINE E == [pid |-> n, conn |-> k, id |-> r[2]]
  <2>4. idMap' = [idMap EXCEPT ![g] = @ \cup {E}]
    BY <1>6 DEF Numbers
  <2>5. E.pid = n
    OBVIOUS
  <2> HIDE DEF E
  <2>6. idMap'[g] = idMap[g] \cup {E}
    BY <2>4 DEF TypeOK
  <2>7. \A e \in idMap[g] : e.pid # n
    <3>1. \A e \in idMap[g] : e.pid \in Nat /\ e.pid <= nextID[g]
      BY SetTypes DEF Sources
    <3> QED
      BY <1>2, <2>2, <3>1
  <2>8. {e \in idMap'[g] : e.pid = n} = {E}
    BY <2>5, <2>6, <2>7
  <2> QED
    BY <2>1, <2>2, <2>3, <2>8 DEF E
<1> QED
  BY <1>1, <1>5, <1>6, ServiceMoves

-----------------------------------------------------------------------------
\* What the sessions get.

\* Message m may go down connection k.
Fits(k, m) ==
  IF m.req = Ask
    THEN serverAsked[genOf[k]] > 0 /\ \E r \in Requests : via[r] = k /\ r[2] = m.id
    ELSE Caused(m.req) \/ (via[m.req] = k /\ m.req[2] = m.id)

LEMMA CausedStays ==
  ASSUME TypeOK, ScenarioOK, Handled, Queues, Typing, Written, Next, NEW x \in Requests, Caused(x)
  PROVE  Caused(x)'
<1>1. via[x] # 0 /\ via[x] \in Conns
  BY Bounds DEF Caused, TypeOK
<1>2. via'[x] = via[x] /\ conn[via[x]] # "none"
  BY <1>1, Grows DEF Written
<1>3. genOf'[via[x]] = genOf[via[x]] /\ genOf[via[x]] \in Gens
  BY <1>1, <1>2, Grows, HandlerFacts
<1>4. serverAsked[genOf[via[x]]] > 0 => serverAsked'[genOf[via[x]]] > 0
  <2>1. serverAsked[genOf[via[x]]] \in Nat /\ serverAsked'[genOf[via[x]]] \in Nat
    BY <1>3, TypeStep DEF TypeOK
  <2> QED
    BY <1>3, <2>1, Grows
<1>5. conn[via[x]] = "left" => conn'[via[x]] = "left"
  BY <1>1, Grows
<1>6. Cut(via[x]) => handler'[via[x]].at \in {"cut", "severed"}
  <2>1. Cut(via[x]) => handler[via[x]].at # "none"
    BY DEF Cut
  <2>2. \A k \in Conns : handler[k].at # "none" =>
          (handler[k].at \in {"cut", "severed"} => handler'[k].at \in {"cut", "severed"})
    BY CutStays DEF Cut
  <2> QED
    BY <1>1, <2>1, <2>2 DEF Cut
<1> QED
  BY <1>1, <1>2, <1>3, <1>4, <1>5, <1>6 DEF Caused, Cut

LEMMA FitsStays ==
  ASSUME TypeOK, ScenarioOK, Handled, Queues, Typing, Written, Next,
         NEW k \in Conns, NEW m \in Messages, Fits(k, m)
  PROVE  Fits(k, m)'
<1>1. CASE m.req = Ask
  <2>1. PICK r \in Requests : via[r] = k /\ r[2] = m.id
    BY <1>1 DEF Fits
  <2>2. via'[r] = k /\ conn[k] # "none" /\ serverAsked[genOf[k]] > 0
    BY <1>1, <2>1, Grows, Bounds DEF Written, Fits
  <2>3. genOf'[k] = genOf[k] /\ genOf[k] \in Gens
    BY <2>2, Grows, HandlerFacts
  <2>4. serverAsked[genOf[k]] \in Nat /\ serverAsked'[genOf[k]] \in Nat
    BY <2>3, TypeStep DEF TypeOK
  <2>5. serverAsked'[genOf[k]] > 0
    BY <2>2, <2>3, <2>4, Grows
  <2> QED
    BY <1>1, <2>1, <2>2, <2>3, <2>5 DEF Fits
<1>2. CASE m.req # Ask
  <2>1. m.req \in Requests
    BY <1>2 DEF Messages
  <2>2. CASE Caused(m.req)
    BY <1>2, <2>1, <2>2, CausedStays DEF Fits
  <2>3. CASE via[m.req] = k /\ m.req[2] = m.id
    <3>1. via'[m.req] = k
      BY <2>1, <2>3, Grows, Bounds
    <3> QED
      BY <1>2, <2>3, <3>1 DEF Fits
  <2> QED
    BY <1>2, <2>2, <2>3 DEF Fits
<1> QED
  BY <1>1, <1>2

\* broadcastResponses posts a message where it fits.
LEMMA RouteFits ==
  ASSUME TypeOK, ScenarioOK, ProxyInv, RouteInv, NEW g \in Gens, Route(g), NEW k \in Conns
  PROVE  \/ down'[k] = down[k]
         \/ \E n \in Messages : down'[k] = Append(down[k], n) /\ Fits(k, n)
<1> USE DEF ProxyInv, RouteInv
<1> DEFINE m == Head(stdout[g])
           hit == {e \in idMap[g] : e.pid = m.id}
<1>1. /\ broadcaster[g] = "scan" /\ m \in Messages /\ m = stdout[g][1] /\ 1 \in DOMAIN stdout[g]
      /\ \/ \E e \in hit : \E n \in Messages :
              n.id = e.id /\ n.req = m.req /\ down' = Post({e.conn} \cap clients[g], n)
         \/ hit = {} /\ m.req = Ask /\ down' = down
         \/ hit = {} /\ m.req # Ask /\ down' = Post(clients[g], m)
  BY RouteFacts
<1>2. Routing(g)
  BY <1>1 DEF Routing, Lives
<1>3. \A ks, n : down' = Post(ks, n) =>
        down'[k] = down[k] \/ (k \in ks /\ down'[k] = Append(down[k], n))
  BY DEF Post
<1>4. ASSUME m.req # Ask
      PROVE  /\ m.req \in Requests
             /\ Caused(m.req) \/ \E e \in hit : hit = {e} /\ e.conn = via[m.req] /\ e.id = m.req[2]
  <2>1. m \in InService(g) /\ m.req \in Requests /\ In(g, m.req)
    BY <1>1, <1>4, ServiceFacts
  <2>2. /\ via[m.req] # 0 /\ via[m.req] \in Conns /\ genOf[via[m.req]] = g
        /\ handler[via[m.req]].at # "none"
    BY <2>1, Bounds DEF In, TypeOK
  <2>3. \/ conn[via[m.req]] = "left"
        \/ handler[via[m.req]].at \in {"scan", "hold", "cut", "severed"}
    <3>1. /\ conn[via[m.req]] \in {"open", "left"} \/ handler[via[m.req]].at = "severed"
          /\ handler[via[m.req]].at \in {"leave", "end"} => conn[via[m.req]] # "open"
      BY <1>1, <2>2 DEF Handled
    <3> QED
      BY <2>2, <3>1, HandlerFacts
  <2>4. CASE conn[via[m.req]] = "left" \/ serverAsked[g] > 0 \/ Cut(via[m.req])
    BY <2>1, <2>2, <2>4 DEF Caused
  <2>5. CASE handler[via[m.req]].at \in {"scan", "hold"} /\ serverAsked[g] = 0
    <3> DEFINE e == [pid |-> m.id, conn |-> via[m.req], id |-> m.req[2]]
    <3>1. hit = {e}
      BY <1>2, <2>1, <2>5 DEF WayBackKnown
    <3>2. e.conn = via[m.req] /\ e.id = m.req[2]
      OBVIOUS
    <3> HIDE DEF e, hit
    <3> QED
      BY <2>1, <3>1, <3>2
  <2>6. serverAsked[g] \in Nat
    BY SetTypes
  <2> QED
    BY SMTT(30), <2>3, <2>4, <2>5, <2>6 DEF Cut
<1>5. ASSUME NEW e \in hit, NEW n \in Messages, n.id = e.id, n.req = m.req,
             down' = Post({e.conn} \cap clients[g], n)
      PROVE  down'[k] = down[k] \/ (down'[k] = Append(down[k], n) /\ Fits(k, n))
  <2>1. CASE down'[k] = down[k]
    BY <2>1
  <2>2. CASE k = e.conn /\ down'[k] = Append(down[k], n)
    <3>1. genOf[k] = g /\ \E r \in Requests : via[r] = k /\ r[2] = n.id
      BY <1>5, <2>2 DEF Sources
    <3>2. CASE m.req = Ask
      <4>1. serverAsked[g] > 0
        BY <1>1, <3>2 DEF Sources
      <4> QED
        BY <1>5, <2>2, <3>1, <3>2, <4>1 DEF Fits
    <3>3. CASE m.req # Ask
      <4>1. Caused(m.req) \/ (e.conn = via[m.req] /\ e.id = m.req[2])
        <5> HIDE DEF hit, m
        <5> QED
          BY <1>4, <3>3, <1>5
      <4> QED
        BY <1>5, <2>2, <3>3, <4>1 DEF Fits
    <3> QED
      BY <3>2, <3>3
  <2>3. down'[k] = down[k] \/ (k \in {e.conn} \cap clients[g] /\ down'[k] = Append(down[k], n))
    <3> HIDE DEF hit, m
    <3> QED
      BY <1>3, <1>5
  <2>4. down'[k] = down[k] \/ (k = e.conn /\ down'[k] = Append(down[k], n))
    <3> HIDE DEF hit, m
    <3> QED
      BY <2>3
  <2> QED
    BY <2>1, <2>2, <2>4
<1>6. ASSUME hit = {}, m.req # Ask, down' = Post(clients[g], m)
      PROVE  down'[k] = down[k] \/ (down'[k] = Append(down[k], m) /\ Fits(k, m))
  <2>1. Caused(m.req)
    <3> HIDE DEF hit, m
    <3> QED
      BY <1>4, <1>6
  <2> QED
    BY <1>3, <1>6, <2>1 DEF Fits
<1> HIDE DEF hit, m
<1>7. CASE \E e \in hit : \E n \in Messages :
              n.id = e.id /\ n.req = m.req /\ down' = Post({e.conn} \cap clients[g], n)
  BY <1>5, <1>7
<1> QED
  BY <1>1, <1>6, <1>7

LEMMA DeliveredStep ==
  ASSUME TypeOK, ScenarioOK, ProxyInv, RouteInv, Delivered, Next
  PROVE  Delivered'
<1> USE DEF ProxyInv
<1>0. down \in [Conns -> Seq(Messages)]
  BY DEF TypeOK, Messages
<1>1. SUFFICES ASSUME NEW k \in Conns, NEW i \in DOMAIN down'[k]
               PROVE  \E m \in Messages : m = down'[k][i] /\ Fits(k, m)'
  BY DEF Delivered, Fits, Caused, Cut
<1>2. ASSUME NEW j \in DOMAIN down[k], down'[k][i] = down[k][j]
      PROVE  \E m \in Messages : m = down'[k][i] /\ Fits(k, m)'
  <2>1. PICK m \in Messages : m = down[k][j]
    BY <1>0
  <2>2. Fits(k, m)
    BY <2>1 DEF Delivered, Fits
  <2> QED
    BY <1>2, <2>1, <2>2, FitsStays
<1>3. CASE down'[k] = down[k]
  BY <1>2, <1>3
<1>4. ASSUME NEW g \in Gens, Route(g)
      PROVE  \E m \in Messages : m = down'[k][i] /\ Fits(k, m)'
  <2>1. CASE down'[k] # down[k]
    <3>1. PICK n \in Messages : down'[k] = Append(down[k], n) /\ Fits(k, n)
      BY <1>4, <2>1, RouteFits
    <3>2. down'[k][i] = n \/ (i \in DOMAIN down[k] /\ down'[k][i] = down[k][i])
      BY <1>0, <3>1, AppendFacts
    <3> QED
      BY <1>2, <3>1, <3>2, FitsStays
  <2> QED
    BY <1>3, <2>1
<1>5. ASSUME NEW c \in Clients, Receive(c)
      PROVE  \E m \in Messages : m = down'[k][i] /\ Fits(k, m)'
  <2>1. down[shim[c]] # <<>> /\ down' = [down EXCEPT ![shim[c]] = Tail(@)]
    BY <1>5 DEF Receive
  <2>2. CASE k = shim[c]
    <3>1. down'[k] = Tail(down[k]) /\ down[k] # <<>> /\ down[k] \in Seq(Messages)
      BY <1>0, <2>1, <2>2
    <3>2. down'[k][i] = down[k][i + 1] /\ i + 1 \in DOMAIN down[k]
      BY <3>1, TailFacts
    <3> QED
      BY <1>2, <3>2
  <2>3. CASE k # shim[c]
    BY <1>0, <1>3, <2>1, <2>3
  <2> QED
    BY <2>2, <2>3
<1> QED
  BY <1>3, <1>4, <1>5, WhoMoves

LEMMA AnsweredStep ==
  ASSUME TypeOK, ScenarioOK, ProxyInv, Delivered, Answered, Next
  PROVE  Answered'
<1> USE DEF ProxyInv
<1>1. SUFFICES ASSUME NEW r \in Requests
               PROVE  /\ got'[r] = Ask => via'[r] # 0 /\ serverAsked'[genOf'[via'[r]]] > 0
                      /\ \A x \in Requests : got'[r] = x /\ x # r => Caused(x)'
  <2>1. \A q \in Requests : got'[q] \in Requests \cup {None, Ask}
    BY TypeStep DEF TypeOK
  <2>2. ASSUME \A q \in Requests :
                 /\ got'[q] = Ask => via'[q] # 0 /\ serverAsked'[genOf'[via'[q]]] > 0
                 /\ \A x \in Requests : got'[q] = x /\ x # q => Caused(x)'
        PROVE  Answered'
    BY <2>1, <2>2 DEF Answered, Caused, Cut
  <2> QED
    BY <2>2
\* What request r got with the step.
<1>2. CASE got'[r] = got[r]
  <2>1. ASSUME got[r] = Ask PROVE via'[r] # 0 /\ serverAsked'[genOf'[via'[r]]] > 0
    <3>1. Caused(r)
      BY <2>1 DEF Answered, Caused
    <3>2. via[r] # 0 /\ via[r] \in Conns /\ serverAsked[genOf[via[r]]] > 0
      BY <2>1, Bounds DEF Answered, TypeOK
    <3>3. via'[r] = via[r] /\ conn[via[r]] # "none"
      BY <3>2, Grows DEF Written
    <3>4. genOf'[via[r]] = genOf[via[r]] /\ genOf[via[r]] \in Gens
      BY <3>2, <3>3, Grows, HandlerFacts
    <3>5. serverAsked[genOf[via[r]]] \in Nat /\ serverAsked'[genOf[via[r]]] \in Nat
      BY <3>4, TypeStep DEF TypeOK
    <3>6. serverAsked'[genOf[via[r]]] > 0
      BY <3>2, <3>4, <3>5, Grows
    <3> QED
      BY <3>2, <3>3, <3>4, <3>6
  <2>2. ASSUME NEW x \in Requests, got[r] = x, x # r PROVE Caused(x)'
    <3>1. Caused(x)
      BY <2>2, Bounds DEF Answered
    <3> QED
      BY <3>1, CausedStays
  <2> QED
    BY <1>2, <2>1, <2>2
<1>3. CASE got'[r] # got[r]
  <2>1. PICK c \in Clients : Receive(c)
    BY <1>3, WhoMoves
  <2>2. shim[c] # 0 /\ down[shim[c]] # <<>>
    BY <2>1 DEF Receive
  <2>3. PICK k \in Conns : k = shim[c]
    BY <2>2, Bounds DEF TypeOK
  <2>4. down[k] \in Seq(Messages)
    BY DEF TypeOK, Messages
  <2>5. PICK m \in Messages : m = Head(down[k]) /\ m = down[k][1] /\ 1 \in DOMAIN down[k]
    BY <2>2, <2>3, <2>4, TailFacts
  <2>6. got' = got \/ got' = [got EXCEPT ![<<c, m.id>>] = IF @ = None THEN m.req ELSE @]
    BY <2>1, <2>3, <2>5 DEF Receive
  <2>7. r = <<c, m.id>> /\ got'[r] = m.req
    BY <1>3, <2>6 DEF TypeOK
  <2>8. r[1] = c /\ r[2] = m.id
    BY <2>7
  <2>9. /\ Fits(k, m) /\ via' = via /\ genOf' = genOf /\ serverAsked' = serverAsked
        /\ conn' = conn /\ handler' = handler
    BY <2>1, <2>5 DEF Delivered, Fits, Receive, servers
  <2>10. \A q \in Requests : via[q] = k => q[1] = c
    BY <2>2, <2>3 DEF Written
  <2>11. \A q \in Requests : via[q] = k /\ q[2] = m.id => q = r
    BY <2>8, <2>10, RequestFacts
  <2>12. CASE m.req = Ask
    <3>1. via[r] = k /\ serverAsked[genOf[k]] > 0
      BY <2>9, <2>11, <2>12 DEF Fits
    <3> QED
      BY <2>7, <2>9, <2>12, <3>1, Bounds
  <2>13. CASE m.req # Ask
    <3>1. ASSUME NEW x \in Requests, m.req = x, x # r PROVE Caused(x)
      BY <2>9, <2>11, <2>13, <3>1 DEF Fits
    <3> QED
      BY <2>7, <2>9, <2>13, <3>1 DEF Caused, Cut
  <2> QED
    BY <2>12, <2>13
<1> QED
  BY <1>2, <1>3

-----------------------------------------------------------------------------
\* The invariant holds, and what it gives.

LEMMA McpStep ==
  ASSUME McpInv, [Next]_vars
  PROVE  McpInv'
<1>1. CASE Next
  <2> USE <1>1 DEF McpInv, ProxyInv, RouteInv
  <2>1. TypeOK' /\ ScenarioOK'
    BY TypeStep
  <2>2. Typing' /\ Written' /\ Queues' /\ Handled' /\ Lives'
    BY TypingStep, WrittenStep, QueuesStep, HandledStep, LivesStep
  <2>3. Sources' /\ Distinct'
    BY SourcesStep, DistinctStep
  <2>4. WayBackKnown'
    BY <2>2, <2>3, WayBackStep
  <2>5. Delivered' /\ Answered'
    BY DeliveredStep, AnsweredStep
  <2> QED
    BY <2>1, <2>2, <2>3, <2>4, <2>5
<1>2. CASE UNCHANGED vars
  <2>0. UNCHANGED <<proxies, servers, conns, sessions>>
    BY <1>2 DEF vars
  <2> USE <2>0 DEF proxies, servers, conns, sessions, McpInv
  <2>1. TypeOK'
    BY DEF TypeOK
  <2>2. ScenarioOK'
    BY DEF ScenarioOK
  <2>3. Typing'
    BY DEF Typing, ProxyInv
  <2>4. Written'
    BY DEF Written, ProxyInv
  <2>5. Queues'
    BY DEF Queues, Waiting, ProxyInv
  <2>6. Handled'
    BY DEF Handled, ProxyInv
  <2>7. Lives'
    BY DEF Lives, ProxyInv
  <2>8. Sources'
    BY DEF Sources, In, RouteInv
  <2>9. Distinct'
    BY DEF Distinct, Holder, Out, In, RouteInv
  <2>10. WayBackKnown'
    BY DEF WayBackKnown, Routing, InService, In, RouteInv
  <2>11. Delivered'
    BY DEF Delivered, Caused, Cut
  <2>12. Answered'
    BY DEF Answered, Caused, Cut
  <2> QED
    BY <2>1, <2>2, <2>3, <2>4, <2>5, <2>6, <2>7, <2>8, <2>9, <2>10, <2>11, <2>12 DEF ProxyInv, RouteInv
<1> QED
  BY <1>1, <1>2

LEMMA McpInvariant == Spec => []McpInv
BY McpInit, McpStep, PTL DEF Spec

\* The proxies, servers, connections and sessions keep their types.
THEOREM TypeCorrect == Spec => []TypeOK
<1>1. McpInv => TypeOK
  BY DEF McpInv
<1> QED
  BY <1>1, McpInvariant, PTL

\* The answer to a request in service finds the session that asked, under the id the
\* session gave it, as long as the proxy reads this connection and the server asks
\* nothing itself (handleClient, broadcastResponses, socket_proxy.go 368-549).
THEOREM AnswersFindTheirWay == Spec => []WayBackKnown
<1>1. McpInv => WayBackKnown
  BY DEF McpInv, RouteInv
<1> QED
  BY <1>1, McpInvariant, PTL

\* A session takes another message for its answer only when the session that asked
\* has left or was cut off after a request too long for the proxy, or the server made
\* requests (handleClient, routeToClient, broadcastToAll).
THEOREM ForeignAnswersAreCaused == Spec => []ForeignAnswerHasCause
<1>1. McpInv => ForeignAnswerHasCause
  <2> SUFFICES ASSUME McpInv, NEW r \in Requests, got[r] \notin {None, r}
               PROVE  LET k == IF got[r] = Ask THEN via[r] ELSE via[got[r]] IN
                        \/ serverAsked[genOf[k]] > 0
                        \/ got[r] # Ask /\ (conn[k] = "left" \/ Cut(k))
    BY DEF ForeignAnswerHasCause
  <2> QED
    BY DEF McpInv, Answered, Caused
<1> QED
  BY <1>1, McpInvariant, PTL
=============================================================================
