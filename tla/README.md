# Groundskeeper in TLA+

Specifications of Groundskeeper (`src/`), the TLC configurations that check
them on small instances, and proofs of the most important facts for every
instance. File and line references are to `src/`.

## 1. Inventory

Groundskeeper is two programs in one repository: the *gk* backend (a durable
job ledger in SQLite, a worker pool that runs coding agents, loops, approvals,
a watcher that turns outside events into jobs), about 6,000 lines of Go, and
the session manager it was forked from (tmux sessions, terminal and web
interfaces), which is far larger and mostly drives external programs. The core
logic that is neither rendering nor wrapping a tool sits in these parts.

| part | code | state it keeps | operations | hard behaviour |
|---|---|---|---|---|
| job store | `internal/gkdb/{jobs,schema,approvals}.go` | rows of `jobs`, `dead_letters`, `approvals` | CreateJob, ClaimNextJob, CompleteJob, FailJob, DeadLetter, ResetStuckRunning, RequestApproval, ResolveApproval | several processes; claim order; retries with backoff; one operation per transaction, several per decision |
| worker pool | `internal/worker/pool.go` | semaphore, `inflight` map, one goroutine per job | Start, Stop, dispatchLoop, tryClaimAndRun, runJob, waitForReady, waitForCompletion, requeue | cancel against everything, early returns, crash and recovery, ignored errors |
| loop runner | `internal/worker/loop.go`, `internal/gkdb/loop_{runs,spec}.go` | `loop_specs`, `loop_runs` | loop set/start/stop, runLoop | check-then-act on counters, crash between statements, two runs of a thread |
| OMP adapter | `internal/runtime/omp.go` | one process, pipes, bounded event channel, `done`, `sendMu` per thread | StartThread, ResumeThread, SendTurn, Shutdown, readLoop, reapLoop | close against send, back pressure under a mutex, exit against last frames |
| watcher engine | `internal/watcher/{engine,router,triage,triage_reaper,clients_writer}.go`, `watcher_events` in `internal/statedb` | event channel, event table, rate limiter, triage channel and queue, births, router and `clients.json` | runAdapter, writerLoop, triageLoop, PumpTriageQueue, spawnTriage, scanOnce, AppendClientEntry | full channels, deduplication and pruning, files written by other processes, crash between the row and the spawn |
| parent inbox | `internal/session/inbox*.go`, `taskworker.go`, `rm_sweep.go`, `transition_{daemon,notifier}.go` | inbox file, in-flight file, consumed ledger, completion records, dead letters, block counter | CommitToInbox, ReplayUnackedCompletions, DrainInboxForParent, DrainForStopHook, sweeps | several processes over files, process-local mutexes, a death between any two file accesses |
| credential refresh | `internal/credrefresh` | lock directory, token file | acquire, steal, refresh, write | stale steal, single-use token, crash |
| MCP socket pool | `internal/mcppool/{socket_proxy,pool_simple}.go`, `cmd/groundskeeper/mcp_proxy_cmd.go` | clients, `idMap`, listener and server of each proxy; the pool's map; the socket path | acceptConnections, handleClient, broadcastResponses, Stop, Start; Pool.Start, IsRunning, RestartProxy, the health monitor, Shutdown | same ids from every session, disconnect against response, old goroutines beside a new proxy, several decks over one path |

How they interact. `gk-job`, the fleet view, the gk webhook and loops insert
rows into `jobs`. One `gk-daemon` runs the pool: its dispatcher claims a row
every half second, hands it to a goroutine in one of `MaxSlots` slots; the
goroutine starts an agent through the adapter, waits for `ready`, sends the
turn, follows the event stream and writes the outcome to the row; failures go
back to the queue or to `dead_letters`. After a completed turn the loop runner
may insert the next job of the thread. Approvals are rows that the goroutine
inserts and the command line resolves. After a crash the next start resets
rows that are `running`. The watcher, the inbox and the credential refresh
belong to the session manager's processes and share no state with the pool. The
deck runs the watcher engine, whose adapters push events; it stores them, routes
the known senders and starts a triage session for the others, which answers in a
file that the reaper reads. A child session's completion reaches its parent
through the parent's inbox file: the run-task wrapper or the transition daemon
commits a line, the parent's stop hook or heartbeat drains it. The refresh daemon
and the agents' own refreshes meet at one lock directory per profile. Sessions
reach a pooled MCP server through `mcp-proxy` and a Unix socket of the deck that
started the server; other decks find that socket by its path.

What makes each part correct:

* job store and pool: a job has one owner at a time; it is finished or
  dead-lettered once, never moved again after that, never attempted beyond its
  budget unless interrupted; only a crash strands it; a shutdown ends; a queued
  job is settled.
* loop runner: a run never enqueues more than its cap, an enabled loop has
  exactly one turn queued or running, a stopped loop stays stopped.
* adapter: no send on a closed channel, no gap in the stream, no wait for ever,
  no turn completed by another process.
* watcher: an event that is stored for triage gets one session and then a
  verdict, a timeout or a drop mark.
* inbox: a completion is somewhere on disk until its parent was handed it, and
  it is handed over once.
* credentials: one refresher at a time, the newest token survives.
* MCP pool: an answer reaches the session that asked, a session whose server died
  is told, one server per pool, a dead one restarted until it is given up.

`PROJECT.json` lists every component and, under `hazards`, each place where
these can go wrong.

## 2. Plan

In order; (done) is in this directory.

1. (done) `JobStore`, `WorkerPool`, `JobLedger`: the ledger and its pool.
2. (done) `WorkerPool_proofs`: every safety property of the pool and its
   refinement of the ledger.
3. (done) `LoopRunner`: loop commands, runLoop statement by statement, crash.
   It is composed with `JobLedger`, which is all it uses of the pool.
4. (done) `OmpThread`: reader, reaper, two users and Shutdown over the pipes of
   one agent process each. It is composed with the part of runJob that calls it.
5. (done) `ParentInbox`: producers, daemon, drains and removal of the parent over
   the files of one inbox.
6. (done) `WatcherEngine`: bounded channels, single writer, triage and reaper,
   over the event table and the files.
7. (done) `CredRefresh` and `CredRefresh_proofs`.
8. (done) The proofs of the invariants of `OmpThread`, `ParentInbox` and
   `WatcherEngine`, one proof module each.
9. (done) `McpProxy`, `McpPool`: one proxy with its sessions, and the proxies of
   several decks over one path, with a proof module each.
10. (done) The failures that are only logged (row marks, records, dead letters,
    reloads), and the messages that a scanner gives up on, in the modules above.
11. Next, proofs: `ParentInbox` as a refinement of an at-least-once queue with
   named losses, and the steps of the liveness arguments that need no fairness
   (what a step may never undo: an exit that was heard, a triage that settled).

## 3. Modules

### JobStore

One action per exported operation of `gkdb` on jobs, dead letters and
approvals. Rows are functions from job ids to columns: `status`, `thread`,
`attempts`, `nextRun`, and counts of `dead_letters` and pending `approvals`
rows. SQLite lets one writer in at a time, so an operation that is one statement
or one transaction is one step. `FailJob` reads the row and then writes in a
second statement; it is one step too, since only the owner of a job calls it
and nobody else writes an owned row (that is what `SingleOwner` says).

Abstractions: a job id is its place in creation order, which is what
`ORDER BY created_at` compares (the column has seconds; among rows of one second
SQLite's sorter keeps row order). `next_run_at` is NULL, in the future or
reached; how two reached instants compare is left open, so either order of two
retries is explored. `max_attempts` is the constant `MaxAttempts` for all rows,
as in `CreateJobWithLoop`.

### WorkerPool

Extends `JobStore` with the daemon. A runJob goroutine is named by the slot it
holds, and its `pc` is the call it is about to make:

| pc | code (`internal/worker/pool.go`) | actions |
|---|---|---|
| begin | GetThread 183, registerInflight 193 | ThreadLookupFails, Register |
| start | EnsureWorktree 200, startWorker 212 | StartFails, Started |
| ready | waitForReady 228 | ReadyFails, Ready |
| prompt | SendTurn 238, setJobStatus 245 | SendFails, SendTurn, Jam |
| jammed | SendTurn, for good (`omp.go` 402-445) | - |
| turn | waitForCompletion 250 | AgentStart, RiskyToolCall, TurnFails, AgentEnd |
| park | RequestApproval 338 | RecordApproval |
| notify | notifyDeadLetter 256 | Notify |
| loop | loadLoopSpec and runLoop 269 | LoopEnds, LoopContinues |
| unwind | deferred RemoveWorktree and unregisterInflight | Unregister |
| release | deferred cancel, slot, wg.Done | Release |

`claimed` is the job the dispatcher holds while it waits for a slot (155 to
174). `GiveUp` is FailJob as runJob calls it, its error dropped. A store call
whose error is dropped or logged is `BestEffort`: with `StoreErrors` it may
leave the tables alone. `Crash` clears everything in memory; `StartDaemon` is
`Pool.Start`. `faults` is a history counter of crashes, abandoned claims and
dropped errors; it bounds them (`MaxFaults`) and lets properties say "unless a
fault".

The agent process is the environment: it starts or not, becomes ready or
exits, and sends agent_start, tool calls, agent_end or an error in any order.
SendTurn waits for `sendMu` and never looks at its context; `emit` holds that
mutex while it waits for room in the event channel, which nobody empties between
*ready* and the prompt, and reapLoop needs it to end the stream of a dead process.
So an agent that says more than the channel holds in between blocks the goroutine
for good (`Jam`), with its slot and its thread; how a stream comes to
that is in `OmpThread`, where the finding at `omp.go:402` belongs.
`select` picks any ready case, so after a cancel the dispatcher may still serve
a tick, and a worker may still take an event.

### JobLedger

What the ledger promises, without slots, threads, clock or daemon: a submitted
job is taken by one executor at a time, only that executor settles it, it is
buried only when its tries are used up, an executor may vanish and the job is
then at most put back. `WorkerPool!ImplementsLedger` states the refinement:
`running`, `waiting_runtime` and `waiting_approval` map to *taken*, the jobs
owned by the dispatcher or a goroutine to *executing*.

### LoopRunner

One thread's `loop_specs` and `loop_runs`, the commands that change them and the
runner that a finished job's goroutine calls. Jobs are those of `JobLedger`,
taken as an instance: `Take`, `PutBack`, `Bury`, `Finish`, `Crash` and `Restart`
are its steps together with what they do to runners (only `Finish`, or a
completion that could not be written, starts one; a crash ends all). A
goroutine keeps its slot while it runs `runLoop`, so `Take` needs a free one; a
claimed job that waits for a slot counts as waiting here.

| rpc | statement (`internal/worker`) | actions |
|---|---|---|
| load | GetLoopSpec (pool.go 269), mode test | LoadSpec, NoLoop |
| find | GetActiveLoopRun (loop.go 114) | FindRun, NoActiveRun |
| open | StartLoopRun 121 | OpenRun |
| first | IncrementTurnEnqueued 126 | CountFirst |
| decide | ShouldStop 147, second cap test 156, mode 166 | DecideToStop, DecideToGoOn, DecideNothing |
| stop, disable | StopLoopRun 150, SetLoopEnabled 151 | Stop, Disable |
| create | CreateJobWithLoop 168 | CreateNext |
| count | IncrementTurnEnqueued 172 | CountNext |

`spec`, `run` and `seen` are the runner's copies: `seen` is `run.TurnsEnqueued`
as it was read. `loop start` is four statements of another process (cpc);
`loop set` and `loop stop` are one each. Errors that the code ignores leave the
table alone, others end the runner or the command; both are faults, and `faults`
also counts the runners a crash cuts off.

Abstractions. Modes are three classes: *manual* (also single), *until_done*
(also interval and review_retry) and *watcher*, any mode without a next turn.
Of the stop conditions max_turns is exact; the others that can hold (wall
clock, pending approval, a text condition, which is matched against the goal)
may hold at any turn. The test at loop.go 156 repeats the one in ShouldStop on
the same copy and can never be the first to hold. turns_started,
turns_completed, attempts and loop_spec_id are written and never read back.
LIMIT 1 is the first row: both queries walk an index or the table in rowid
order.

### OmpThread

One agent process per turn, with the goroutines of `internal/runtime/omp.go`
around it. The users are goroutines of the pool that run turns of one gk thread,
so that they share one entry of `OmpAdapter.threads` (`registered`), which is
keyed by session and workspace directory. A user starts one process, which has
the user's name.

| state | code | actions |
|---|---|---|
| `proc`, `stdin`, `stdout`, `prompted`, `written` | the process and its pipes | AgentWrites, AgentReads, AgentExits, CancelKills |
| `reader`, `buf` | readLoop and its scanner (316), dispatchFrame, emit, writeCommand | Scan, ScanFails, ReaderEnds, EmitLock, EmitSend, ReplyLock, ReplyWrite |
| `reaper` | reapLoop (414) | Wait, Reap |
| `events`, `closed` | the channel, `done` and `closed` | EmitSend, CloseOnce |
| `pc`, `source`, `target` | runJob: launch, StreamEvents, waitForReady, SendTurn, waitForCompletion | Launch ... SendWrite, ReadEvent, StreamCloses, GiveUp |
| `down`, `victim` | Shutdown (289) | ShutdownLookup, ShutdownCloses, ShutdownKills, ShutdownDeletes |

`sendMu` is not a variable: it is held exactly in the program counters that
`Held` lists. A select that sends or gives up is EmitSend alone, because `done`
is closed only with the mutex that the sender holds. `cmd.Wait` closes the read
end of the stdout pipe and loses what is in it (`Wait`). Frames are of five kinds:
*ready*, *call* (answered on stdin), *end*, *error*, and *long*, a line over the
scanner's 4 MB, after which readLoop returns although the process lives: nothing is
closed and nobody is told (`ScanFails`). A turn is launched whatever other turns of
its thread run; `met` remembers which ran at the same time.

### ParentInbox

The durable inbox of one parent. A *task* is a child run by `run-task`, with a
completion record on disk; a *talker* is an interactive child, whose flips the
daemon remembers in memory. Wrappers, the daemon and the draining agent are
processes, and `inboxWriteMu` is a mutex of one of them: each access to a file is
a step of its own.

| state | code | actions |
|---|---|---|
| `runs`, `rec`, `copy` | completion records, `taskworker.go` | Claim, Finish, AckRead, AckWrite, AckFails |
| `pc`, `job`, `kept` | commitEventToInbox, CommitToInbox, rewriteInboxLocked, dead-lettering | ResolveFails, Read, Rename, Append, CommitFails, Park, WrapperDies |
| `turn`, `seen`, `tries` | the daemon's `lastStatus` and dead-letter sink | TalkerFlips, Observe, ObserveDuplicate, HookCandidate, Unresolvable, DaemonDies, DaemonStarts |
| `batch`, `late` | ReplayUnackedCompletions and the time stamps of the lines | Replay, Deliver |
| `inbox`, `wal`, `ledger`, `parked` | the four files | the drains and the commits |
| `drain`, `mode`, `staged`, `fresh` | stageInboxDrainLocked, finalizeInboxDrain | Stage, Write, RemoveInbox, Consume, Drop, DrainDies |
| `agent`, `blocks` | DrainForStopHook and its counter; `inbox drain self` | Heartbeat, Stop |
| `home` | removal of the parent | RemoveParent, SweepParent |

A line is a child and the number of its run or turn; `Signal` is what
TurnFingerprint hashes of it. An I/O error and a death end an operation at the
same place and share the bound `MaxFaults`.

Nothing keeps the runs of a task apart. A claim replaces the record of the run
before, acked or not (`Claim`). The record, the claim, the ack and a dead letter may
fail to be written, and the code goes on as if they had been. The daemon loads the
unacked records (`Replay`) and then delivers these copies one by one (`Deliver`),
whatever has become of the records meanwhile; a delivery stamps its line anew, so
that a copy of an older run is *late*: it may replace the newer run's line, or be
chosen before it in the drain. An ack reads the record and writes it back in two
steps and may mark the record of a run that nobody has delivered.

Each of these can lose a completion, as can a rewrite that takes lines it has not
read and a death between the rewrite and the append. Where it happens, the action
says which lines it may be the end of (`Loses`), and those that are nowhere else
then enter `lost`: `Claim`, `Finish`, `Rename`, `CommitFails`, the two deaths, `Park`,
`AckWrite`, `RemoveInbox` and `Drop`. No other action may lose one. The losses that
contradict the code's comments are findings.

### WatcherEngine

The engine of `internal/watcher` with its table `watcher_events`, the triage
directories and `clients.json`. The forwarder of an adapter (`Deliver`), the
writer (`TakeEvent`, `Save`, `PushRequest`), triageLoop (`HandleRequest`, `Pump`,
`SpawnTriage`, `RegisterBirth`) and the reaper (`Look`, `AppendReads`,
`AppendWrites`, `Reload`, `Settle`, `Rename`, `HandleTimeout`) interleave between any
two accesses to shared state. `EngineEnds` forgets all that is in memory; `Start`
reads `clients.json` anew. The triage session is the environment: it writes a result
of one of three kinds, or ends without one. `watcher import` is a process of its own
that reads and then rewrites `clients.json` (`ImportReads`, `ImportWrites`).

Calls may fail, within the scenario's `faults`. Whoever marks a row only logs the
error and goes on, so the row keeps its old mark for good: `Mark` is each such call,
and a mark that was not written puts the event into `lost`. A lookup by dedup key
that fails drops the result unseen. An append or a reload that fails leaves the
router behind the file; `drifted` says that a reload failed, or an import wrote,
since the router last read it.

Time is not counted: a spawn leaves the rolling window (`WindowSlides`) and a
session becomes older than TriageTimeout (`BecomesOverdue`) at any moment. A
row's `routed_to` is one of the marks of the code; which conductor it names is
left out. The table is pruned to `MaxEvents` rows at each insert, so that an
event can be stored again. The dedup key names the directory, the birth and the
lookup of the watcher, for all watchers together. `Alone(k)` picks the events
that share it with no other stored event; a finding says what becomes of the
others.

### CredRefresh

`internal/credrefresh` for one profile: `mkdir`, `stat` and remove of the lock
directory, then read, request, write and release, each a step (`pc`). Tokens are
numbered as the endpoint hands them out; `live` is the one it takes next, `token`
the one in the file. `stale` says that the directory is older than 30 s, which
happens to a lock in use only when the host sleeps (`HostSleeps`). Claude's own
code is not in the repository; by the comments of `lock.go` its sessions take the
same lock, and the model has them follow the same steps. `looked`, `broken`,
`lost` and `replayed` are history.

### McpProxy

One pooled MCP server behind `internal/mcppool/socket_proxy.go`, its sessions and
their shims. A proxy with its server is a generation, a number: the goroutines of
an old generation go on beside those of the new one.

| state | code | actions |
|---|---|---|
| `shim`, `typed`, `stale`, `got` | runMCPProxy and the session behind it | Type, Dial, Copy, StaleCopy, Receive, Drop, Leave |
| `backlog`, `accepted`, `clients` | acceptConnections | Accept, Register |
| `handler`, `idMap`, `nextID` | handleClient and its deferred cleanup | Scan, Forward, EndScan, TooLong, Unregister |
| `broadcaster`, `status` | broadcastResponses, routeToClient, closeAllClientsOnFailure | Route, MarkFailed, Unreadable, CloseAllClients, EndBroadcast |
| `stopper`, `gen` | Stop and Start, as the health monitor calls them | StopClients, StopRest, StartNext, SetRunning |
| `alive`, `stdin`, `stdout` | the MCP server (external) | Answer, AskClients, Die |

A message is the id it carries and the request it answers, or `Ask` for a request
of the server. `via` remembers which connection a request went into. Both ends of
the proxy read lines with a scanner of 10 MB. After a request that is longer,
handleClient ends although its client is connected (`TooLong`; `Cut` says so of a
connection). After such a message of the server, the proxy is marked failed and
waits for the end of a server that lives and that nobody reads (`Unreadable`). A session
takes a message for the answer to the request of that id if it waits for one, as
JSON-RPC has it.

### McpPool

The pools of several decks over the path of one socket
(`internal/mcppool/pool_simple.go`, with Start and Stop of `socket_proxy.go`).
Each start makes a proxy object, a number; `entry` is the one in a deck's map,
`op` what the holder of `Pool.mu` does, step by step: `close`, `kill` (Stop),
`check`, `remove` (NewSocketProxy), `launch`, `listen`, `run` (Start). `path` is the
proxy whose listener the socket file belongs to; closing a listener or stopping a
proxy removes the file whoever it belongs to. `seenDead` and `seenFailed` are
callers of IsRunning and the monitor between the look at a proxy and the lock. The
reader of a proxy stops at the end of its server's output, or at a line of more than
10 MB of a server that lives (`ScanFails`).
That a server ends when its deck's process does, because its stdin ends, is
assumed (`Exit`). Clients and messages are in `McpProxy`; the two modules share
the code of Start and Stop and look at it from the two sides.

## 4. Runs

| run | instance | shows |
|---|---|---|
| pool_safety | 2 jobs, 2 threads, 2 slots, 2 attempts, 1 pending approval per job, 2 faults, failing writes; symmetric slots and threads; 1.0 million states | the invariants, the action properties and the refinement hold |
| pool_liveness | 2 jobs of 1 thread, 2 slots, turn timeout, 1 fault, no symmetry; @PL states | shutdown drains, turns leave their slots, queued jobs settle, unless a worker is jammed |
| pool_serial | 2 jobs of 1 thread, 2 slots, no faults | **violated**: two goroutines of one thread at once |
| loop_safety | 4 jobs, 2 slots, 2 tries, 2 specs with cap 1, 3 runs, 1 loop start, 3 commands, 1 fault, failing writes; 1.2 million states | the loop invariants hold |
| omp_streams | 2 turns of one thread, one after the other or together, 2 frames each (*ready*, *end*), channel and stdin pipe of 1; @OS states | a turn is completed by its own process or that of a turn beside it |
| omp_closing | 1 turn with 3 frames of any kind and a Shutdown, channel and stdin pipe of 1; @OC states | no panic, no gap, nobody waits for ever unless jammed or deaf |
| inbox_safety | 1 task and 1 talker, of which one has a second run or turn, budgets 1, 1 fault; 3.5 million states | nothing is lost without a named cause, nothing is acted on twice |
| inbox_settles | 1 task with 2 runs, dead letter after 2 attempts, 2 faults; 619,000 states | every finished run settles, unless its line was lost by a named cause |
| watcher | 5 scenarios of 2 watchers, 3 events, 2 senders; all capacities 1; 730,000 states | triages settle, once each, and verdicts stand |
| cred_refresh | daemon and 2 sessions, 1 expiry, 2 faults; 381,000 states | the token is kept, and warm again |
| mcp_proxy | 8 scenarios of 2 sessions with up to 3 requests and 3 connections, 3 generations; 163,000 states | answers find their askers, sessions of a dead server are told |
| mcp_pool | 2 scenarios of 1 or 2 decks, 7 proxies, 2 failures to give up; @MP states | nothing is forgotten, dead servers are retried, disabled ones are not |

Properties of `pool_safety`:

* `SingleOwner`: nobody is handed a job that someone still holds, and the
  holder's row is in flight.
* `RetryBudget`: attempts stay within max_attempts plus faults, although the
  claim never compares the two.
* `DeadLetterOnce`: one `dead_letters` row per dead job, never early, nothing
  else announced.
* `FirstTurnsInOrder`: the first attempts of a thread's jobs come in creation
  order, although retries overtake.
* `InflightIsLive`: no stale entry in `Pool.inflight`.
* `StrandedOnlyByFault`: only a fault leaves an in-flight row without owner.
* `ImplementsLedger`: the refinement. In the ledger a finished job never moves
  again; `FinishedStaysFinished` says it of the rows and is proved.

Properties of `pool_liveness`, each until a worker is `Jammed`, which nothing but the
end of the daemon's process ends:

* `ShutdownDrains`: a full semaphore, a worker that waits for its agent and a turn
  without end do not keep `Pool.Stop` waiting.
* `TurnLeavesSlot`: with a turn timeout, a turn that was begun leaves its slot (it is
  past SendTurn and cannot jam any more).
* `QueuedJobsSettle`: a queued job is completed or dead-lettered while the daemon
  stays up, if agents answer and read their prompts (`AgentListens`).

Properties of `loop_safety`:

* `TurnsNeverMultiply`: jobs that are waiting or taken, runners that have not
  decided and commands on their way together never exceed the turns that were
  asked for. Retries, plain jobs, several runs and races of runners never turn
  one chain of turns into two.
* `TurnsCounted`: turns_enqueued against the rows of `jobs` with that
  loop_run_id, in both directions.
* `CapNearlyKept`: the cap itself does not hold (a run opened by runLoop counts
  its first turn and tests the copy that says 0; a turn may finish before its
  predecessor has counted it);
  what holds is cap plus slots, since every turn past the test holds a slot.
* `NoSilentStall`: when the last turn under way ends while the loop is still
  on, it was dead-lettered or a fault happened.

Properties of `omp_streams` and `omp_closing`:

* `CompletionIsOwn`: runJob finds its thread by directory twice, for the events
  and for the prompt. A turn is done only by an end of its own process or of one
  whose turn ran at the same time, never by a process that an earlier turn left
  behind and that still runs. (That two turns of a thread do run at the same time
  is what pool_serial shows; what the registry then mixes up is a finding.)
* `NoPanic`: reapLoop and Shutdown close a channel that readLoop sends on.
* `StreamIsPrefix`: what is lost at an exit is lost from the end.
* `ExitIsHeard`, `LockWaitEnds`, `EndIsHeard`: who waits for an event or for
  `sendMu` does not wait for ever. The exceptions are `Jammed`: the reader waits
  for room with the mutex held, or a writer for an agent that does not read; and,
  for the end of a turn, `Deaf`: readLoop gave up on a long line of a process that
  lives.

Properties of `inbox_safety` and `inbox_settles`:

* `CompletionKept`: the last completion of a child is a record to be replayed, a
  line, an in-flight line, a consumed turn or a dead letter, or is being appended,
  unless an action that may lose it has put it into `lost` (section 3).
* `LedgerIsHonest`: a consumed turn was handed to the agent, but for a drain that
  died right after it saved the ledger.
* `ActedOnce`: however often a turn is committed, staged or recovered.
* `EveryCompletionSettles`: every finished run is consumed or dead-lettered, unless
  its line was lost and no record and no copy of it is left (`Gone`), or a later run
  has finished.

Properties of `watcher`:

* `TriageIsPending`: a row that says `triage` has a request, a birth or a result
  that will change it, unless a fault cut its triage short or the write of its mark
  failed (`lost`).
* `SpawnedOnce`: no second session for a duplicate or a queued request.
* `RouterTracksFile`: the router and `clients.json` differ only while the reaper
  is between its append and its reload, and from an import or a failed reload until
  the next reload or start (`drifted`).
* `VerdictStands`: a timeout does not replace a verdict.
* `EveryTriageSettles`: again and again no triage is open.

Properties of `cred_refresh`:

* `TokenKept`: the token the endpoint takes next is in the file or about to be
  written, whoever holds the lock, unless it was lost on its way.
* `NoReplay`: a used token is sent only after one was lost or the lock was broken.
* `TokenStaysWarm`: a crashed holder does not keep the others out for ever.

Properties of `mcp_proxy`:

* `WayBackKnown`: while a request is in service and its client is served, and also
  while that is closed and the handler has not noticed, `idMap` leads back to it and
  only to it, although sessions use the same ids and come and go.
* `ForeignAnswerHasCause`: a session takes another's message for its answer only
  if the asker has left, or was cut off after an over-long request, or the server
  makes requests.
* `DeadServerIsHeard`: a connection to a dead server is closed, unless it entered the
  table of clients after that was emptied for the last time (`Escaped`): by a Stop,
  or by the reader of a server that died before Start called it running.
* `RequestsAnswered`: a request in an open connection to a living server is
  answered, unless the proxy was called running after its reader had stopped
  (`Masked`).

Properties of `mcp_pool`:

* `NothingForgotten`: every server and listener that runs is the one in some deck's
  pool, or being stopped or started by it.
* `LonePathKept`: a deck that has the path for itself can be reached on it.
* `PermanentIsFinal`: a disabled proxy is not revived by who saw it before.
* `DeadIsRetried`: a server that died, or that is no longer read, is brought back
  until it serves or is given up, but for three cases: a start that failed before
  there was a process is taken for another deck's proxy (`Overlooked`), Start called
  it running after it had died (`Masked`), or a restart on behalf of a caller failed
  and took it out of the pool's map for good (`Abandoned`). All three are findings.

Bounds of `loop_safety`. Three commands are a spec, a start and one more (a plain
turn, a stop, a second start or a second spec); two slots let one runner overtake
another between any two statements; four jobs are enough to go past a cap of
one by the two slots; the third run is there for a runner that opens one after
two starts. A runner or command waits when ids run out, as if it were
slow, which no safety property can tell from being slow.

Bounds of `pool_safety`. Two jobs are enough for every pairwise race in the code (same thread,
different threads, retry against first attempt, full semaphore against claim);
two slots with two jobs cover free and, with a third claim, the dispatcher's
wait is covered by slots still unwinding. Two attempts give one retry and one
dead letter per job. Two faults allow a crash during recovery from a crash, or a
failed write followed by a crash. `MaxApprovals` only bounds pending rows; no
guard of the code reads them here.

Bounds of the OMP runs. A channel and a pipe of one are full after one frame, so
that every wait for room happens; three frames are a ready, one to fill the
channel and one that waits. The two runs are one module: two turns with Shutdown,
every kind of frame and liveness would not finish. Whose end a turn takes is a matter
of *ready* and *end* only. Shutdown is a call that only tests make, after their turn.

Bounds of the inbox runs. A task and a talker are the two kinds of child. A second
run is what overwrites a record that is not acked and what an old copy may replace; a
second turn is the line that replaces a pending one. In `inbox_safety` a behaviour has
one of the two, and a second run meets the other child's line or a fault (`Bound`;
without it the run takes too long, and finds nothing more in 8.4 million states). One
fault there: each of the named losses needs one at most, some none. `MaxAttempts` and
`MaxBlocks` are 1 or 2 instead of 5 and 3: they are compared and counted, nothing
else. The lines of a child have different signals; equal ones are a finding.

Bounds of `watcher`. The scenarios are a redelivery after pruning, a fault with
two events of one sender, one key stored by two watchers with a fault, a reply
beside a triage, and one event with a fault and an import. The fault may be the end
of the engine or any failing call. With all capacities 1 the second event finds each queue
full. The full product of these cases would not finish.

Bounds of `cred_refresh`. Three processes are a crashed holder and two thieves.
One expiry is enough, since a refresh ends in the state it began in, with another
token; two faults are a crash and a lost answer, or two crashes.

Bounds of the MCP runs. The scenarios of `mcp_proxy` are a session that leaves while
the other goes on; requests or answers too long to be read, once beside another
session and twice in a row; a server that asks; one that dies under a session with a
request before and after; one that dies, is restarted and may die again before Start
has called it running, with two connections or with a request; and a full table of
clients. Three generations are an old proxy, the new one that dies as well and the
one after it. In `mcp_pool`, seven proxies are a first one and six restarts, for the
deaths, the long line, the failing starts and the callers of one scenario (were they
too few, a dead server would stay dead and `DeadIsRetried` fail); `MaxTotalFailures` is compared and counted only.

Deadlock checking is off in every run: an idle daemon with an empty queue, or
one that is down with no fault left, has nothing to do.

Fairness (`WorkerPool!Fairness`). The dispatcher's ticker fires and goroutines
that can run do run: weak fairness on the dispatcher and on each slot's calls
that return by themselves. Backoffs pass: weak fairness on the clock. `select`
chooses among ready cases at random, so a cancel or timeout that stays ready is
taken although events keep arriving: strong fairness on the turn failing while
the context is cancelled or a timeout is configured. Of SendTurn it is assumed only
that it fails once the context is cancelled, which kills the process and breaks the
pipe, unless it is jammed (`Jam` is never fair, and nothing leads out of it). Of the
agent, `QueuedJobsSettle` has as hypothesis that it announces itself or exits, and
then reads its prompt or exits, because the pool has no timeout on either.
Sigterm, crashes, client
calls and starts are never fair.

Fairness elsewhere. `OmpThread`: goroutines run, a mutex that is free again and
again is taken (strong fairness on the steps that lock `sendMu`; sync.Mutex hands
itself over to who waits too long), the context of a turn that is over kills its
process; the agent owes nothing, and a user need never give up. `ParentInbox`: the
daemon polls and is restarted by its supervisor, the heartbeat comes, hooks and
wrappers go on with what they have begun. `WatcherEngine`: writer, triageLoop and
reaper run and time passes; sources, sessions and restarts owe nothing.
`CredRefresh`: processes go on with what they have begun, the daemon ticks for
ever, an abandoned lock grows old; an idle session may stay so. `McpProxy`: the
goroutines of the proxy and the monitor run, a living server answers, a session
reads its socket; no line need be too long. `McpPool`: the monitor ticks, who has `Pool.mu` goes on, readers
run, and the monitor gets the lock if it is free again and again (sync.RWMutex
hands itself over to a waiting writer); in both, nobody need die, dial or leave.

## 5. Proofs

`WorkerPool_proofs` is checked by tlapm for all constants satisfying the
assumptions of `JobStore` and `WorkerPool`: any number of jobs, threads, slots, attempts and faults, with or without failing writes.

| theorem | property | inductive invariant and argument |
|---|---|---|
| TypeCorrect | TypeOK | with `Tasked`: a slot that is not idle has a job, since the tables are indexed by `task[s]` |
| OwnerUnique | SingleOwner | `Ownership` = SingleOwner, `Quiet` (no dispatcher, no claimed job; daemon down, no goroutine: recovery meets no owner) and `RowsExist` (a goroutine's row exists, so a new id is nobody's; a job being announced is dead, so it cannot be claimed from under the announcement) |
| FinishedFinal | FinishedStaysFinished | each step that writes a status writes that of an owned job, which is in flight by OwnerUnique, or of a queued or running one |
| BudgetKept | RetryBudget | `Budget`: also, a job that may be claimed again without passing FailJob (`Claimworthy`: new, queued, or running without an owner) has an attempt or a fault to spare, because the claim itself compares nothing |
| DeadLettersExact | DeadLetterOnce | the count of rows agrees with the status, the budget is used up, announced jobs are dead |
| InflightLive | InflightIsLive | `Keeps`, `ThreadStable`: a registered goroutine stays registered until it unregisters, and a job never changes threads; the deletion by thread can only remove too much |
| FirstTurnsOrdered | FirstTurnsInOrder | `InOrder` = the property and `Rows` (ids are handed out in order; a row with no attempt that is not absent is queued and due): a claim by creation order never passes over an untried job |
| StrandingIsAFault | StrandedOnlyByFault | step by step from Ownership: who lets go of a job has settled its row, or counted a fault |
| PoolImplementsLedger | ImplementsLedger | every step maps to a step of `JobLedger` or a stutter, given the invariants above; recovery, crash and dropped errors map to Recover and Vanish of sets of jobs |

`LoopRunner_proofs` does the same for `LoopRunner`: any number of
jobs, slots, specs, runs, starters, commands and faults, any caps.

| theorem | property | inductive invariant and argument |
|---|---|---|
| TypeCorrect | TypeOK | with `Held`: a spec or run that a runner or command holds exists |
| TurnsStaySingle | TurnsNeverMultiply | inductive by itself: what enters one of the three sets has left another, was asked for, or is a fault |
| LoopNeverStalls | NoSilentStall | step by step: a step that empties the three sets is a fault or a dead letter, or switched the loop off; the one spec with LIMIT 1 exists because the ids are well ordered |
| TurnsAreCounted | TurnsCounted | `Counted`: the initial count of a run is due to one runner or command (`Fresh`), the turn of a loop start is counted before it exists (`Owing`), jobs and runs that are absent are untouched; needs `Followed`, that a job is not given out again while its runner still runs |
| CapExceededBySlots | CapNearlyKept | `Room`: for every n that bounds the caps, the count, the initial count still due, and the runners that may still count after reading less than n (`Ahead`) are together at most n + MaxSlots. A new reader of less than n is within the slots (`SlotsKept`) and found the count at most n - 1; a runner past the test read less than the cap (`Past`) |

`CredRefresh_proofs` is about any number of processes, daemons, expiries and
faults.

| theorem | property | inductive invariant and argument |
|---|---|---|
| TypeCorrect | TypeOK | inductive by itself |
| TokenNeverForgotten | TokenKept | `TokenInv` says what the token in the file, the one the endpoint takes next and those that processes have read or are about to write have to do with each other. It does not mention the lock: the endpoint takes a token once, so that of two holders only one comes as far as `write` |
| ReplayHasCause | NoReplay | `LockInv`: while the lock has not been broken, who is past `mkdir` made the directory that is there, and it is not old; so there is one holder at a time, and what it read is what the endpoint takes next, unless the token was lost |

`OmpThread_proofs` is about any number of turns of a thread, any capacities of
the channel and the pipes, and any output of the agents.

| theorem | property | inductive invariant and argument |
|---|---|---|
| TypeCorrect | TypeOK | inductive by itself |
| NeverPanics | NoPanic | `OpenInv`: a reader that is about to send found its channel open, and holds `sendMu` until it has sent. Both closers take the same lock and test the same flag, so the channel is not closed under the reader, nor twice |
| TurnIsOwn | CompletionIsOwn | `OwnInv`: turns that run know of each other (`met`), and from the time a turn registers, the registry holds its thread, that of a turn it met, or nothing after a Shutdown, so that both its lookups find one of the first two or fail. A turn registers its own thread before it looks anything up, and what replaces it comes from a turn that runs beside it. Nothing is assumed of the order in which turns are launched |
| EventsAreFrames | StreamIsPrefix | `Stream`: what was sent, what the scanner handles or has buffered and what is in the pipe follow one another in what the agent wrote, as long as the channel is open and the reader reads; afterwards only the prefix counts, since the rest is dropped |

`ParentInbox_proofs` is about any children, tasks and talkers, runs and turns,
signals, limits of attempts and blocks, and faults.

| theorem | property | inductive invariant and argument |
|---|---|---|
| TypeCorrect | TypeOK | with `InboxInv`: that no child has a line beyond its turns needs where its lines come from |
| TurnsAreActedOnce | ActedOnce | `Marked`: what was handed over is in the ledger while the directory is there. `Draining`: between the ledger and the hand-over, what is fresh is in the ledger and was not handed over. A second drain of the same line therefore finds it |
| LedgerHonest | LedgerIsHonest | step by step from the same invariant; the one exception is the death of the drain between the two |
| CompletionIsKept | CompletionKept | `HeldInv`: the last completion of a child is delivered or named lost, or someone is about to append a line at least as new, or its record is there to be replayed; where someone is about to ack it, one of the first three holds. It needs `Jobs`, that nobody commits a run that is still to finish nor a talker's turn older than the last; `PastInv`, that no file holds a later turn than the last; and `Draining`, that of what is in flight a child's newest line is in the ledger before the drain drops it, or was beaten by a late one. What is left are the steps that take the last one of these away, and each of them names what it took |

`WatcherEngine_proofs` is about any watchers, events, senders, capacities, tables
of clients and faults.

| theorem | property | inductive invariant and argument |
|---|---|---|
| TypeCorrect | TypeOK | with `Tables`, `Known` and `Used`: who marks a row or asks for a triage has a key that was stored. TypeOK includes the capacities of the two channels and the limit of the rolling window |
| NoSecondSpawn | SpawnedOnce | `Owed`: for each event the sessions spawned, the request that the writer holds, those in the channel and in the queue and the one that the loop is about to spawn are together no more than the times it was stored |
| NoTriageIsForgotten | TriageIsPending | with `Tables` (an event has one row) and `Reaping`: the reaper marks the row before it renames the file, so that an event that leaves `results` has left "triage", or its mark could not be written and it is in `lost`, where it stays (`LostStays`) |
| VerdictsStand | VerdictStands | `Decided`: a row with a verdict has no triage under way, or its file is there or was processed, so the reaper's scan reads it before it looks at the births. `Reaping` carries this through the steps of one tick |
| RouterIsCurrent | RouterTracksFile | by itself: two processes write the file. After the reaper's write the reload is next, which makes the tables those of the file or says that they have drifted; an import says so itself, and only a reload or a start that read the file take it back |

`McpProxy_proofs` is about any number of sessions, requests, connections,
generations of the proxy and requests of the servers.

| theorem | property | inductive invariant and argument |
|---|---|---|
| TypeCorrect | TypeOK | with `ProxyInv` |
| AnswersFindTheirWay | WayBackKnown | `Distinct`: an id that a proxy gave is in one handler, or in its server, or in the output, once; so the entry under it is that of its request until the answer takes it away, or until handleClient ends, of its own accord after a long request or since its session left. `Queues`, `Handled` and `Lives` say what else ends a connection while the proxy reads its server: nothing |
| ForeignAnswersAreCaused | ForeignAnswerHasCause | `Delivered` and `Answered`: what goes down a connection is the answer to a request of this session under its own id, or what was broadcast because its asker left or was cut off, or the server asked. An entry goes without its answer only when its handler ends, and who was cut off stays so (`CutStays`). It needs `Sources`, where ids and entries come from, and `Written`, that a request goes into one connection of its session |

`McpPool_proofs` is about any number of decks, proxies, deaths and failing starts.

| theorem | property | inductive invariant and argument |
|---|---|---|
| TypeCorrect | TypeOK | with `Counted`: only a proxy that is not given up has failures to spare |
| NothingIsForgotten | NothingForgotten | `Apart`: a proxy belongs to one deck, in its pool or in the hands of its holder of `Pool.mu`; `Holds`: what that holder has already closed or not yet started |
| LonePathIsKept | LonePathKept | `LoneInv`: where one deck runs, what listens has the path. With NothingIsForgotten nothing else listens when a start removes the path and binds it |
| PermanentStays | PermanentIsFinal | step by step from `Holds`: whoever replaces or restarts a proxy has read under the lock that it is not disabled |

The inductive invariants were model-checked on the constants of the runs before
they were proved, and the properties are those of section 4. Every safety property
that a passing run checks is proved here: invariants, action properties and the
refinement. `TypeOK` and `FinishedStaysFinished` are proved and no longer run.

The assumptions on constants that only the proofs use say that a marker of the
model (`None`, `Ask`) is none of the values it stands beside: threads, lines,
requests, keys, the states of the writer. They restrict nothing the code does.

Model-checked only:

* what is under fairness: `ShutdownDrains`, `TurnLeavesSlot`, `QueuedJobsSettle`,
  `ExitIsHeard`, `LockWaitEnds`, `EndIsHeard`, `EveryCompletionSettles`,
  `EveryTriageSettles`, `TokenStaysWarm`, `DeadServerIsHeard`, `RequestsAnswered`
  and `DeadIsRetried`. The prover has no rules for ENABLED, which WF and SF stand
  on;
* `ThreadsSerialized`, which is violated.

## 6. What is not modelled

The part of each component that `PROJECT.json` marks `partly` or
`not_modelled`, with the reason. In particular:

* everywhere: the SQL engine (statements are atomic and durable), the contents of
  prompts, goals, messages and audit rows, counted time;
* pool: a second gk-daemon on the same database, worktrees on disk, the delivery
  of notifications after they are attempted;
* OMP adapter: Interrupt, the launch over SSH, FakeAdapter;
* inbox: the TTL sweep, the sweep for a removed child, the older WriteInboxEvent
  and ReadAndTruncateInbox, two drains of one parent at once, two wrappers of one task
  at once, an error that is reported although the write succeeded, the wake nudge, done
  signals found in transcripts;
* watcher: the health loop, the event log and state files, the sources, events
  forwarded to the user interface, the subcommands that manage watchers (of `watcher
  import` only the merge into `clients.json` is modelled, one sender at a time, and not
  the watchers that it creates);
* credentials: several profiles in one tick, refreshes of Claude that do not follow
  the steps of `lock.go`;
* MCP: the HTTP pool, systemd scopes, the sizes of socket buffers and a client that
  does not read, replies to requests of the server, the rate limit of restarts;
* self-heal, the terminal and web interfaces, and the drivers of tmux, git, jujutsu
  and docker: they draw, or wrap programs outside the repository.

Most disagreements between the code and what it says of itself are stated as
findings without a run of their own; where one touches a property, the property
names it as its exception.
