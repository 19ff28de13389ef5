---------------------------- MODULE WatcherEngine ----------------------------
(***************************************************************************)
(* The watcher engine of the deck, internal/watcher: adapters push events, *)
(* the writer stores each one in watcher_events and asks for a triage of   *)
(* those no rule routes, triageLoop spawns triage sessions within the rate *)
(* limit, and the reaper reads the verdicts the sessions leave in files.   *)
(*                                                                         *)
(* Goroutines interleave between any two accesses to the table, the files, *)
(* the channels and the router.  Events, the table, the triage directories *)
(* and clients.json survive the engine; channels, limiter and births do    *)
(* not.  `watcher import` rewrites clients.json from another process.      *)
(* Time is not counted: a spawn leaves the rolling window and a session    *)
(* becomes overdue at any moment.                                          *)
(***************************************************************************)
EXTENDS Naturals, Sequences

CONSTANTS
  Watchers,
  Events,            \* dedup keys; a triage directory is named by the key alone
  Replies,           \* the events that carry a ParentDedupKey
  Senders, SenderOf,
  None,              \* no event, no watcher, no clients.json
  EventChCap,        \* capacity of eventCh (64 in the code)
  TriageReqChCap,    \* 16 in the code
  TriageQueueCap,    \* 16 in the code
  TriageMaxPerHour,  \* 5 in the code
  MaxEvents,         \* MaxEventsPerWatcher
  Scenarios          \* bounds: how often each watcher's source delivers each
                     \* event, how often the engine ends or a call fails, how
                     \* many imports there are

ASSUME WatcherAssumption ==
  /\ None \notin Watchers \cup Events /\ \A S \in SUBSET Senders : S # None
  /\ None \notin [at : {"save", "push"}, key : Watchers \X Events,
                  to : {"routed", "unrouted", "triage"}]
  /\ Replies \subseteq Events /\ SenderOf \in [Events -> Senders]
  /\ {EventChCap, TriageReqChCap, TriageQueueCap, TriageMaxPerHour, MaxEvents}
       \subseteq Nat \ {0}
  /\ Scenarios \subseteq [feed : [Watchers \X Events -> Nat], faults : Nat,
                          imports : Nat]

VARIABLES
  running,           \* is there an engine?
  eventCh,           \* the engine's event channel
  rows,              \* watcher_events, oldest row first, one table per watcher
  writer,            \* the event the writer works on, or None
  triageReqCh, triageQueue,
  recent,            \* spawns in the rolling window (rateLimiter.spawns)
  loop,              \* what triageLoop does
  birth, overdue,    \* the reaper's births and those older than TriageTimeout
  reaper,            \* what the reaper does
  clients, router,   \* clients.json and the tables of the router
  importer,          \* what an import has read of clients.json, or None
  results,           \* the result.json of each event's directory
  processed,         \* events with a result.processed.json
  sessions,          \* triage sessions at work on each event
  feed, faults, imports, \* what is left of the scenario
  \* history
  inserted, spawned, \* how often each event was stored, and its session started
  lost,              \* triages cut short by a fault, or whose mark was not written
  drifted            \* has an import written, or a reload failed, since the router
                     \* read the file?

store == <<rows, clients, results, processed, sessions>>
queues == <<triageReqCh, triageQueue, recent, loop>>
births == <<birth, overdue, reaper>>
routing == <<router, importer, imports, drifted>>
ghosts == <<inserted, spawned, lost>>
vars == <<running, eventCh, store, writer, queues, births, routing,
          feed, faults, ghosts>>

Keys == Watchers \X Events

\* What a session writes: a file that does not parse or names no confidence;
\* high confidence with should_persist; any other confidence or high without
\* should_persist, which do the same and differ in the mark only.
Verdicts == {"bad", "persist", "other"}
MarkOf == [v \in Verdicts |->
             CASE v = "bad" -> "triage-parse-error"
               [] v = "persist" -> "routed"
               [] v = "other" -> "triage-medium"]
Judged == {MarkOf[v] : v \in Verdicts}
Marks == Judged \cup {"unrouted", "triage", "triage-req-dropped",
                      "triage-dropped", "triage-timeout"}

Idle == [at |-> "idle"]

(***************************************************************************)
(* The table.                                                              *)
(***************************************************************************)
RowsOf(w, e) == {i \in DOMAIN rows[w] : rows[w][i].event = e}
Stored(w, e) == RowsOf(w, e) # {}
RoutedTo(k) ==
  IF Stored(k[1], k[2])
  THEN rows[k[1]][CHOOSE i \in RowsOf(k[1], k[2]) : TRUE].to ELSE "absent"

UpdateRoutedTo(w, e, to) ==
  rows' = [rows EXCEPT ![w] = [i \in DOMAIN @ |->
             IF @[i].event = e THEN [@[i] EXCEPT !.to = to] ELSE @[i]]]

Fault == faults > 0 /\ faults' = faults - 1

\* Every caller of UpdateWatcherEventRoutedTo at most logs its error, be it that the
\* row is gone or that the write failed, and never comes back to the row.
Mark(w, e, to) ==
  \/ UpdateRoutedTo(w, e, to) /\ UNCHANGED <<faults, lost>>
  \/ Fault /\ lost' = lost \cup {<<w, e>>} /\ UNCHANGED rows

\* INSERT OR IGNORE, then the prune to the newest MaxEvents rows.
SaveWatcherEvent(w, e, to) ==
  LET all == Append(rows[w], [event |-> e, to |-> to])
      first == IF Len(all) > MaxEvents THEN Len(all) - MaxEvents + 1 ELSE 1
  IN  rows' = IF Stored(w, e) THEN rows
              ELSE [rows EXCEPT ![w] = SubSeq(all, first, Len(all))]

Init ==
  /\ running = TRUE /\ eventCh = <<>> /\ writer = None
  /\ rows = [w \in Watchers |-> <<>>]
  /\ triageReqCh = <<>> /\ triageQueue = <<>> /\ recent = 0 /\ loop = Idle
  /\ birth = [e \in Events |-> None] /\ overdue = {} /\ reaper = Idle
  /\ clients \in {None, {}} /\ router = clients /\ importer = None /\ drifted = FALSE
  /\ results = [e \in Events |-> "no dir"] /\ processed = {}
  /\ sessions = [e \in Events |-> 0]
  /\ \E sc \in Scenarios : feed = sc.feed /\ faults = sc.faults /\ imports = sc.imports
  /\ inserted = [k \in Keys |-> 0] /\ spawned = [k \in Keys |-> 0] /\ lost = {}

(***************************************************************************)
(* Adapters.  The forwarder of runAdapter drops what eventCh has no room   *)
(* for; a source may deliver the same event again.                         *)
(***************************************************************************)
Deliver(w, e) ==
  /\ running /\ feed[<<w, e>>] > 0
  /\ feed' = [feed EXCEPT ![<<w, e>>] = @ - 1]
  /\ eventCh' = IF Len(eventCh) < EventChCap THEN Append(eventCh, <<w, e>>)
                ELSE eventCh
  /\ UNCHANGED <<running, store, writer, queues, births, routing, faults, ghosts>>

(***************************************************************************)
(* writerLoop: match, save, ask for a triage.                              *)
(***************************************************************************)
Match(e) == router # None /\ SenderOf[e] \in router

TakeEvent ==
  LET k == Head(eventCh)
      to == IF Match(k[2]) THEN "routed"
            ELSE IF k[2] \in Replies THEN "unrouted" ELSE "triage"
  IN  /\ running /\ writer = None /\ eventCh # <<>>
      /\ eventCh' = Tail(eventCh)
      /\ writer' = [at |-> "save", key |-> k, to |-> to]
      /\ UNCHANGED <<running, store, queues, births, routing,
                     feed, faults, ghosts>>

\* Mutant: the writer asks for a triage of a duplicate, too.
Save_OfDuplicate ==
  LET k == writer.key
  IN  /\ writer # None /\ writer.at = "save"
      /\ SaveWatcherEvent(k[1], k[2], writer.to)
      /\ writer' = IF writer.to = "triage" THEN [writer EXCEPT !.at = "push"] ELSE None
      /\ inserted' = IF Stored(k[1], k[2]) THEN inserted ELSE [inserted EXCEPT ![k] = @ + 1]
      /\ UNCHANGED <<running, eventCh, clients, results, processed, sessions, queues,
                     births, routing, feed, faults, spawned, lost>>

Save ==
  LET k == writer.key
      new == ~Stored(k[1], k[2])
  IN  /\ writer # None /\ writer.at = "save"
      /\ SaveWatcherEvent(k[1], k[2], writer.to)
      /\ writer' = IF new /\ writer.to = "triage" THEN [writer EXCEPT !.at = "push"]
                   ELSE None
      /\ inserted' = IF new THEN [inserted EXCEPT ![k] = @ + 1] ELSE inserted
      /\ UNCHANGED <<running, eventCh, clients, results, processed, sessions, queues,
                     births, routing, feed, faults, spawned, lost>>

SaveFails ==
  /\ writer # None /\ writer.at = "save" /\ Fault
  /\ writer' = None
  /\ UNCHANGED <<running, eventCh, store, queues, births, routing, feed, ghosts>>

PushRequest ==
  LET k == writer.key
  IN  /\ writer # None /\ writer.at = "push"
      /\ writer' = None
      /\ IF Len(triageReqCh) < TriageReqChCap
         THEN triageReqCh' = Append(triageReqCh, k) /\ UNCHANGED <<rows, faults, lost>>
         ELSE Mark(k[1], k[2], "triage-req-dropped") /\ UNCHANGED triageReqCh
      /\ UNCHANGED <<running, eventCh, clients, results, processed, sessions,
                     triageQueue, recent, loop, births, routing, feed, inserted,
                     spawned>>

(***************************************************************************)
(* triageLoop.  A spawn asked for by PumpTriageQueue returns to the pump,  *)
(* which goes on until the queue is empty or the limiter refuses.          *)
(***************************************************************************)
CanAcquire == recent < TriageMaxPerHour

Spawning(k, back) == [at |-> "spawn", key |-> k, back |-> back]

HandleRequest ==
  LET k == Head(triageReqCh)
  IN  /\ running /\ loop = Idle /\ triageReqCh # <<>>
      /\ triageReqCh' = Tail(triageReqCh)
      /\ \/ /\ CanAcquire
            /\ recent' = recent + 1 /\ loop' = Spawning(k, Idle)
            /\ UNCHANGED <<rows, triageQueue, faults, lost>>
         \/ /\ ~CanAcquire /\ Len(triageQueue) < TriageQueueCap
            /\ triageQueue' = Append(triageQueue, k)
            /\ UNCHANGED <<rows, recent, loop, faults, lost>>
         \/ /\ ~CanAcquire /\ Len(triageQueue) >= TriageQueueCap
            /\ Mark(k[1], k[2], "triage-dropped")
            /\ UNCHANGED <<triageQueue, recent, loop>>
      /\ UNCHANGED <<running, eventCh, clients, results, processed, sessions,
                     writer, births, routing, feed, inserted, spawned>>

\* Mutant: PumpTriageQueue drops the request the limiter refuses.
Pump_DropsRefused ==
  /\ running /\ loop \in {Idle, [at |-> "pump"]}
  /\ \/ /\ triageQueue = <<>>
        /\ loop' = Idle /\ UNCHANGED <<triageQueue, recent>>
     \/ /\ triageQueue # <<>>
        /\ triageQueue' = Tail(triageQueue)
        /\ IF CanAcquire
           THEN recent' = recent + 1
                /\ loop' = Spawning(Head(triageQueue), [at |-> "pump"])
           ELSE loop' = Idle /\ UNCHANGED recent
  /\ UNCHANGED <<running, eventCh, store, writer, triageReqCh, births, routing,
                 feed, faults, ghosts>>

\* One round of the pump; a refused request goes back to the end of the queue.
Pump ==
  /\ running /\ loop \in {Idle, [at |-> "pump"]}
  /\ \/ /\ triageQueue = <<>>
        /\ loop' = Idle /\ UNCHANGED <<triageQueue, recent>>
     \/ /\ triageQueue # <<>> /\ CanAcquire
        /\ recent' = recent + 1
        /\ loop' = Spawning(Head(triageQueue), [at |-> "pump"])
        /\ triageQueue' = Tail(triageQueue)
     \/ /\ triageQueue # <<>> /\ ~CanAcquire
        /\ triageQueue' = Append(Tail(triageQueue), Head(triageQueue))
        /\ loop' = Idle /\ UNCHANGED recent
  /\ UNCHANGED <<running, eventCh, store, writer, triageReqCh, births, routing,
                 feed, faults, ghosts>>

WindowSlides ==
  /\ recent > 0 /\ recent' = recent - 1
  /\ UNCHANGED <<running, eventCh, store, writer, triageReqCh, triageQueue, loop,
                 births, routing, feed, faults, ghosts>>

\* Spawn makes the directory, even one that is there already, and starts
\* the session; spawnTriage registers the birth afterwards.
SpawnTriage ==
  LET k == loop.key
  IN  /\ loop.at = "spawn"
      /\ results' = [results EXCEPT ![k[2]] = IF @ = "no dir" THEN "none" ELSE @]
      /\ sessions' = [sessions EXCEPT ![k[2]] = @ + 1]
      /\ spawned' = [spawned EXCEPT ![k] = @ + 1]
      /\ loop' = [loop EXCEPT !.at = "register"]
      /\ UNCHANGED <<running, eventCh, rows, clients, processed, writer, triageReqCh,
                     triageQueue, recent, births, routing, feed, faults,
                     inserted, lost>>

\* The failure is counted in the tracker's health; the row keeps "triage".
SpawnFails ==
  /\ loop.at = "spawn" /\ Fault
  /\ lost' = lost \cup {loop.key}
  /\ loop' = loop.back
  /\ UNCHANGED <<running, eventCh, store, writer, triageReqCh, triageQueue, recent,
                 births, routing, feed, inserted, spawned>>

\* Mutant: only a request that comes out of the queue gets a birth.
RegisterBirth_OnlyPumped ==
  LET k == loop.key
  IN  /\ loop.at = "register"
      /\ birth' = IF loop.back = Idle THEN birth ELSE [birth EXCEPT ![k[2]] = k[1]]
      /\ overdue' = overdue \ {k[2]}
      /\ loop' = loop.back
      /\ UNCHANGED <<running, eventCh, store, writer, triageReqCh, triageQueue, recent,
                     reaper, routing, feed, faults, ghosts>>

RegisterBirth ==
  LET k == loop.key
  IN  /\ loop.at = "register"
      /\ birth' = [birth EXCEPT ![k[2]] = k[1]]
      /\ overdue' = overdue \ {k[2]}
      /\ loop' = loop.back
      /\ UNCHANGED <<running, eventCh, store, writer, triageReqCh, triageQueue, recent,
                     reaper, routing, feed, faults, ghosts>>

(***************************************************************************)
(* A triage session, a process of its own.  It writes its result, or ends  *)
(* without one.                                                            *)
(***************************************************************************)
SessionWrites(e) ==
  /\ sessions[e] > 0
  /\ sessions' = [sessions EXCEPT ![e] = @ - 1]
  /\ \E v \in Verdicts : results' = [results EXCEPT ![e] = v]
  /\ UNCHANGED <<running, eventCh, rows, clients, processed, writer, queues, births,
                 routing, feed, faults, ghosts>>

SessionEnds(e) ==
  /\ sessions[e] > 0
  /\ sessions' = [sessions EXCEPT ![e] = @ - 1]
  /\ UNCHANGED <<running, eventCh, rows, clients, results, processed, writer, queues,
                 births, routing, feed, faults, ghosts>>

(***************************************************************************)
(* The reaper.  scanOnce looks at one directory after the other.           *)
(***************************************************************************)
BecomesOverdue(e) ==
  /\ birth[e] # None /\ e \notin overdue
  /\ overdue' = overdue \cup {e}
  /\ UNCHANGED <<running, eventCh, store, writer, queues, birth, reaper, routing,
                 feed, faults, ghosts>>

\* LookupWatcherIDByDedupKey: some row with the key, LIMIT 1 without an order; if the
\* call fails the file is renamed, and no row is marked.
OwnerOf(e) ==
  LET owners == {w \in Watchers : Stored(w, e)}
  IN  IF owners = {} THEN {None} ELSE owners

AfterRead(v, owner) ==
  IF owner = None THEN "rename" ELSE IF v = "persist" THEN "append" ELSE "settle"

\* Mutant: scanOnce does not look for the processed file.
Look_Processed(e) ==
  /\ running /\ reaper = Idle /\ results[e] # "no dir"
  /\ \/ /\ results[e] \in Verdicts
        /\ \E w \in OwnerOf(e) :
             reaper' = [at |-> AfterRead(results[e], w), event |-> e,
                        verdict |-> results[e], watcher |-> w]
     \/ /\ results[e] \notin Verdicts /\ birth[e] # None /\ e \in overdue
        /\ reaper' = [at |-> "timeout", event |-> e, watcher |-> birth[e]]
  /\ UNCHANGED <<running, eventCh, store, writer, queues, birth, overdue, routing,
                 feed, faults, ghosts>>

Look(e) ==
  /\ running /\ reaper = Idle /\ results[e] # "no dir" /\ e \notin processed
  /\ \/ /\ results[e] \in Verdicts
        /\ \E w \in OwnerOf(e) :
             reaper' = [at |-> AfterRead(results[e], w), event |-> e,
                        verdict |-> results[e], watcher |-> w]
        /\ UNCHANGED <<faults, lost>>
     \/ /\ results[e] \in Verdicts /\ Fault
        /\ lost' = lost \cup {<<w, e>> : w \in Watchers}
        /\ reaper' = [at |-> "rename", event |-> e, verdict |-> results[e], watcher |-> None]
     \/ /\ results[e] \notin Verdicts /\ birth[e] # None /\ e \in overdue
        /\ reaper' = [at |-> "timeout", event |-> e, watcher |-> birth[e]]
        /\ UNCHANGED <<faults, lost>>
  /\ UNCHANGED <<running, eventCh, store, writer, queues, birth, overdue, routing,
                 feed, inserted, spawned>>

Listed == IF clients = None THEN {} ELSE clients
GoesTo(at) ==
  reaper' = [at |-> at, event |-> reaper.event, verdict |-> reaper.verdict,
             watcher |-> reaper.watcher]

\* AppendClientEntry reads the file, unless it lists the sender already (a session
\* names the sender of its event), ...
AppendReads ==
  /\ reaper.at = "append"
  /\ IF SenderOf[reaper.event] \in Listed THEN GoesTo("reload")
     ELSE reaper' = [at |-> "write", event |-> reaper.event, verdict |-> reaper.verdict,
                     watcher |-> reaper.watcher, known |-> Listed]
  /\ UNCHANGED <<running, eventCh, store, writer, queues, birth, overdue, routing,
                 feed, faults, ghosts>>

\* Mutant: the file is written and the router left as it is.
AppendWrites_NoReload ==
  /\ reaper.at = "write"
  /\ clients' = reaper.known \cup {SenderOf[reaper.event]}
  /\ GoesTo("settle")
  /\ UNCHANGED <<running, eventCh, rows, results, processed, sessions, writer,
                 queues, birth, overdue, routing, feed, faults, ghosts>>

\* ... and writes it with the sender added.
AppendWrites ==
  /\ reaper.at = "write"
  /\ clients' = reaper.known \cup {SenderOf[reaper.event]}
  /\ GoesTo("reload")
  /\ UNCHANGED <<running, eventCh, rows, results, processed, sessions, writer,
                 queues, birth, overdue, routing, feed, faults, ghosts>>

AppendFails ==
  /\ reaper.at \in {"append", "write"} /\ Fault
  /\ GoesTo("settle")
  /\ UNCHANGED <<running, eventCh, store, writer, queues, birth, overdue, routing,
                 feed, ghosts>>

\* Only an engine that started with a clients.json has a router; a file that cannot
\* be loaded leaves it as it was.
Reload ==
  /\ reaper.at = "reload"
  /\ \/ /\ router' = IF router = None THEN router ELSE clients
        /\ drifted' = FALSE /\ UNCHANGED faults
     \/ Fault /\ drifted' = TRUE /\ UNCHANGED router
  /\ GoesTo("settle")
  /\ UNCHANGED <<running, eventCh, store, writer, queues, birth, overdue, importer,
                 imports, feed, ghosts>>

Settle ==
  /\ reaper.at = "settle"
  /\ Mark(reaper.watcher, reaper.event, MarkOf[reaper.verdict])
  /\ GoesTo("rename")
  /\ UNCHANGED <<running, eventCh, clients, results, processed, sessions, writer, queues,
                 birth, overdue, routing, feed, inserted, spawned>>

RemoveBirth(e) ==
  birth' = [birth EXCEPT ![e] = None] /\ overdue' = overdue \ {e}

\* The rename takes whatever result.json holds by now.
Rename ==
  /\ reaper.at = "rename"
  /\ results' = [results EXCEPT ![reaper.event] = "none"]
  /\ processed' = processed \cup {reaper.event}
  /\ RemoveBirth(reaper.event) /\ reaper' = Idle
  /\ UNCHANGED <<running, eventCh, rows, clients, sessions, writer, queues, routing,
                 feed, faults, ghosts>>

RenameFails ==
  /\ reaper.at = "rename" /\ Fault
  /\ RemoveBirth(reaper.event) /\ reaper' = Idle
  /\ UNCHANGED <<running, eventCh, store, writer, queues, routing, feed, ghosts>>

HandleTimeout ==
  /\ reaper.at = "timeout"
  /\ Mark(reaper.watcher, reaper.event, "triage-timeout")
  /\ RemoveBirth(reaper.event) /\ reaper' = Idle
  /\ UNCHANGED <<running, eventCh, clients, results, processed, sessions, writer, queues,
                 routing, feed, inserted, spawned>>

(***************************************************************************)
(* `watcher import`, a process of its own: mergeClientsJSON reads          *)
(* clients.json, adds what is imported and writes the file.                *)
(***************************************************************************)
ImportReads ==
  /\ importer = None /\ imports > 0
  /\ importer' = Listed /\ imports' = imports - 1
  /\ UNCHANGED <<running, eventCh, store, writer, queues, births, router, drifted,
                 feed, faults, ghosts>>

ImportWrites ==
  /\ importer # None
  /\ \E s \in Senders : clients' = importer \cup {s}
  /\ importer' = None /\ drifted' = TRUE
  /\ UNCHANGED <<running, eventCh, rows, results, processed, sessions, writer, queues,
                 births, router, imports, feed, faults, ghosts>>

(***************************************************************************)
(* The engine ends: Stop, or the death of the deck's process.  Nothing is  *)
(* left of what it had in memory, and the next engine recovers nothing.    *)
(***************************************************************************)
InMemory ==
  {k \in Keys : \/ writer # None /\ writer.at = "push" /\ writer.key = k
                \/ \E i \in DOMAIN triageReqCh : triageReqCh[i] = k
                \/ \E i \in DOMAIN triageQueue : triageQueue[i] = k
                \/ loop.at \in {"spawn", "register"} /\ loop.key = k
                \/ birth[k[2]] = k[1]}

EngineEnds ==
  /\ running /\ Fault
  /\ running' = FALSE
  /\ lost' = lost \cup InMemory
  /\ eventCh' = <<>> /\ writer' = None
  /\ triageReqCh' = <<>> /\ triageQueue' = <<>> /\ recent' = 0 /\ loop' = Idle
  /\ birth' = [e \in Events |-> None] /\ overdue' = {} /\ reaper' = Idle
  /\ router' = None
  /\ UNCHANGED <<store, importer, imports, drifted, feed, inserted, spawned>>

Start ==
  /\ ~running /\ running' = TRUE
  /\ router' = clients /\ drifted' = FALSE
  /\ UNCHANGED <<eventCh, store, writer, queues, births, importer, imports, feed,
                 faults, ghosts>>

Writer == TakeEvent \/ Save \/ SaveFails \/ PushRequest
TriageLoop == HandleRequest \/ Pump \/ SpawnTriage \/ SpawnFails \/ RegisterBirth
ReaperStep == AppendReads \/ AppendWrites \/ AppendFails \/ Reload \/ Settle
              \/ Rename \/ RenameFails \/ HandleTimeout

Next ==
  \/ \E w \in Watchers, e \in Events : Deliver(w, e)
  \/ Writer \/ TriageLoop \/ ReaperStep
  \/ WindowSlides \/ EngineEnds \/ Start \/ ImportReads \/ ImportWrites
  \/ \E e \in Events : Look(e) \/ BecomesOverdue(e) \/ SessionWrites(e) \/ SessionEnds(e)

Spec == Init /\ [][Next]_vars

(***************************************************************************)
(* The goroutines run and time passes.  Sources, sessions, imports, faults *)
(* and restarts owe nothing.                                               *)
(***************************************************************************)
FairSpec ==
  /\ Spec
  /\ WF_vars(Writer) /\ WF_vars(TriageLoop) /\ WF_vars(WindowSlides)
  /\ WF_vars(ReaperStep \/ \E e \in Events : Look(e))
  /\ WF_vars(\E e \in Events : BecomesOverdue(e))

(***************************************************************************)
(* Properties.                                                             *)
(***************************************************************************)
Among(s, cap) == s \in Seq(Keys) /\ Len(s) <= cap

Writing == [at : {"save", "push"}, key : Keys, to : {"routed", "unrouted", "triage"}]
Looping == {Idle, [at |-> "pump"]}
Reading == [at : {"append", "reload", "settle", "rename"}, event : Events,
            verdict : Verdicts, watcher : Watchers \cup {None}]
Drafting == [at : {"write"}, event : Events, verdict : Verdicts,
             watcher : Watchers \cup {None}, known : SUBSET Senders]
GivingUp == [at : {"timeout"}, event : Events, watcher : Watchers]

\* Types, the capacities of the channels and the number of spawns the
\* rolling window allows.
TypeOK ==
  /\ running \in BOOLEAN /\ faults \in Nat
  /\ Among(eventCh, EventChCap) /\ Among(triageReqCh, TriageReqChCap)
  /\ Among(triageQueue, TriageQueueCap)
  /\ recent \in 0..TriageMaxPerHour
  /\ rows \in [Watchers -> Seq([event : Events, to : Marks])]
  /\ \A w \in Watchers : Len(rows[w]) <= MaxEvents
  /\ writer \in {None} \cup Writing
  /\ loop \in Looping \cup [at : {"spawn", "register"}, key : Keys, back : Looping]
  /\ birth \in [Events -> Watchers \cup {None}] /\ overdue \subseteq Events
  /\ reaper \in {Idle} \cup Reading \cup Drafting \cup GivingUp
  /\ {clients, router, importer} \subseteq {None} \cup SUBSET Senders
  /\ imports \in Nat /\ drifted \in BOOLEAN
  /\ results \in [Events -> Verdicts \cup {"no dir", "none"}]
  /\ processed \subseteq Events /\ sessions \in [Events -> Nat]
  /\ feed \in [Keys -> Nat] /\ inserted \in [Keys -> Nat]
  /\ spawned \in [Keys -> Nat] /\ lost \subseteq Keys

\* The event was stored once, and no other watcher stored its dedup key.
\* Triage directories, births and verdicts are filed by the key alone.
Alone(k) ==
  /\ inserted[k] = 1
  /\ \A w \in Watchers \ {k[1]} : inserted[<<w, k[2]>>] = 0

HasResult(e) == results[e] \in Verdicts /\ e \notin processed

\* engine.go 344-444, 486-558: a row that says "triage" has something that will
\* change it: a request, a session with a birth, or a result to read.  Otherwise
\* a fault cut its triage short, or a mark could not be written, an error that is only
\* logged.  (Drops mark the row; dedup would keep the event from coming back.)
TriageIsPending ==
  \A k \in Keys :
    RoutedTo(k) = "triage" /\ Alone(k) =>
      k \in InMemory \cup lost \/ HasResult(k[2])

\* engine.go 352-374, 464-535: however often a source delivers an event, it gets
\* one triage session for each time it was stored: none for a duplicate, none
\* twice out of the queue.
SpawnedOnce == \A k \in Keys : spawned[k] <= inserted[k]

\* triage_reaper.go 213-230: what the reaper learns reaches the router, and nothing
\* else does: its tables are those of clients.json, but for the moment between the
\* reaper's append and its reload, and from an import or a reload that failed until the
\* next reload or start; an engine that started without the file has no router.
RouterTracksFile ==
  running /\ router # None /\ reaper.at # "reload" => router = clients \/ drifted

\* triage_reaper.go 76-85, 126-147, 303-313: a verdict that reached the row is
\* not replaced by a timeout, although a session may answer before its birth is
\* registered.  (A second row of the same key has no such luck: the timeout of
\* the first one's session falls on it.)
VerdictStands ==
  [][\A k \in Keys :
       RoutedTo(k) \in Judged /\ Alone(k) => RoutedTo(k)' # "triage-timeout"]_vars

\* engine.go 464-558, triage_reaper.go 88-313: every event stored for triage gets
\* a verdict, a timeout or a drop mark, unless a fault hit its triage or the write of
\* its mark, or its key was stored a second time: again and again there is a moment when nothing else
\* is left (sources are bounded).
EveryTriageSettles ==
  []<>(\A k \in Keys : RoutedTo(k) = "triage" => k \in lost \/ ~Alone(k))
=============================================================================
