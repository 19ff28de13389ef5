----------------------------- MODULE LoopRunner -----------------------------
(***************************************************************************)
(* Loops over one thread: the tables loop_specs and loop_runs (gkdb), the  *)
(* commands loop set, start and stop (gk_cmd.go), and runLoop (worker/     *)
(* loop.go), which the goroutine of every finished job of the thread calls *)
(* before it lets go of its slot.                                          *)
(*                                                                         *)
(* Jobs follow JobLedger, which WorkerPool implements; nothing more is     *)
(* used of the pool.  Every statement on the tables is a step of its own,  *)
(* so commands, the runners of other jobs and crashes come between any two *)
(* of them.  A row id is its position in insertion order, and LIMIT 1      *)
(* without ORDER BY is the first such row, which is what SQLite returns    *)
(* for these two queries, whose indexes are in rowid order.                *)
(*                                                                         *)
(* A runner is named by the job that finished; rpc is its next statement:  *)
(*   load, find, open, first, decide, stop, disable, create, count.        *)
(* A loop start command is at enable, open, count or create.               *)
(*                                                                         *)
(* Left out: turns_started, turns_completed and attempts of loop_runs and  *)
(* its loop_spec_id, which no code reads back.                             *)
(***************************************************************************)
EXTENDS Naturals, FiniteSets

CONSTANTS MaxJobs,     \* jobs of the thread (bound)
          MaxTries,    \* the max_attempts column
          MaxSlots,    \* goroutines of the pool at one time
          MaxSpecs,    \* loop_specs rows (bound)
          MaxRuns,     \* loop_runs rows (bound)
          Modes,       \* modes that loop set is given
          Caps,        \* --max-turns that loop set is given; 0 is no cap
          Starters,    \* processes that run loop start
          MaxCommands, \* commands of any kind (bound)
          MaxFaults,   \* crashes, lost executors and store errors (bound)
          StoreErrors  \* whether a store call may return an error

ASSUME BoundsAssumption == {MaxJobs, MaxTries, MaxSlots, MaxSpecs, MaxRuns} \subseteq Nat \ {0}
ASSUME ModesAssumption == Modes \subseteq {"manual", "until_done", "watcher"}
ASSUME CapsAssumption == Caps \subseteq Nat /\ IsFiniteSet(Caps)
ASSUME StartersAssumption == IsFiniteSet(Starters)
ASSUME LimitsAssumption == MaxCommands \in Nat /\ MaxFaults \in Nat /\ StoreErrors \in BOOLEAN

JobIds == 1..MaxJobs
SpecIds == 1..MaxSpecs
RunIds == 1..MaxRuns
Nil == 0

VARIABLES state, tries, executing,          \* the ledger of jobs
          loopRun,                          \* jobs.loop_run_id
          mode, cap, enabled,               \* columns of loop_specs
          runStatus, enqueued,              \* columns of loop_runs
          rpc, spec, run, seen,             \* runners: pc, spec, run, turns_enqueued read
          cpc, crun,                        \* loop start: pc, run
          requests, commands, faults        \* history: turns asked for, commands,
                                            \* faults and the runners they cut off

ledger == <<state, tries, executing>>
specTable == <<mode, cap, enabled>>
runTable == <<runStatus, enqueued>>
runners == <<rpc, spec, run, seen>>
starters == <<cpc, crun>>
history == <<requests, commands, faults>>

vars == <<ledger, loopRun, specTable, runTable, runners, starters, history>>

Queue == INSTANCE JobLedger WITH Jobs <- JobIds

RunnerPCs == {"idle", "load", "find", "open", "first", "decide",
              "stop", "disable", "create", "count"}

TypeOK ==
    /\ state \in [JobIds -> {"none", "waiting", "taken", "done", "dead"}]
    /\ tries \in [JobIds -> Nat]
    /\ executing \in SUBSET JobIds
    /\ loopRun \in [JobIds -> RunIds \union {Nil}]
    /\ mode \in [SpecIds -> Modes \union {"absent"}]
    /\ cap \in [SpecIds -> Caps \union {0}]
    /\ enabled \in [SpecIds -> BOOLEAN]
    /\ runStatus \in [RunIds -> {"absent", "active", "stopped"}]
    /\ enqueued \in [RunIds -> Nat]
    /\ rpc \in [JobIds -> RunnerPCs]
    /\ spec \in [JobIds -> SpecIds \union {Nil}]
    /\ run \in [JobIds -> RunIds \union {Nil}]
    /\ seen \in [JobIds -> Nat]
    /\ cpc \in [Starters -> {"idle", "enable", "open", "count", "create"}]
    /\ crun \in [Starters -> RunIds \union {Nil}]
    /\ requests \in Nat /\ commands \in Nat /\ faults \in Nat

Init ==
    /\ Queue!Init
    /\ loopRun = [j \in JobIds |-> Nil]
    /\ mode = [i \in SpecIds |-> "absent"]
    /\ cap = [i \in SpecIds |-> 0]
    /\ enabled = [i \in SpecIds |-> FALSE]
    /\ runStatus = [r \in RunIds |-> "absent"]
    /\ enqueued = [r \in RunIds |-> 0]
    /\ rpc = [j \in JobIds |-> "idle"]
    /\ spec = [j \in JobIds |-> Nil]
    /\ run = [j \in JobIds |-> Nil]
    /\ seen = [j \in JobIds |-> 0]
    /\ cpc = [c \in Starters |-> "idle"]
    /\ crun = [c \in Starters |-> Nil]
    /\ requests = 0 /\ commands = 0 /\ faults = 0

-----------------------------------------------------------------------------
(* The tables.                                                             *)

First(S, i) == i \in S /\ \A k \in S : i <= k

\* CreateJobWithLoop: a waiting job that belongs to run r, or to none.
CreateJob(r) ==
    \E j \in JobIds :
        /\ First({i \in JobIds : state[i] = "none"}, j)
        /\ Queue!Submit(j)
        /\ loopRun' = [loopRun EXCEPT ![j] = r]

\* CreateLoopSpec: a new row is enabled at once.
CreateLoopSpec(m, n) ==
    \E i \in SpecIds :
        /\ First({k \in SpecIds : mode[k] = "absent"}, i)
        /\ mode' = [mode EXCEPT ![i] = m]
        /\ cap' = [cap EXCEPT ![i] = n]
        /\ enabled' = [enabled EXCEPT ![i] = TRUE]

EnabledSpecs == {i \in SpecIds : enabled[i]}

\* SetLoopEnabled switches every spec of the thread.
SetLoopEnabled(b) ==
    /\ enabled' = [i \in SpecIds |-> mode[i] # "absent" /\ b]
    /\ UNCHANGED <<mode, cap>>

ActiveRuns == {r \in RunIds : runStatus[r] = "active"}

\* StartLoopRun: a new active row with no turns, whatever rows there are.
StartLoopRun(r) ==
    /\ First({k \in RunIds : runStatus[k] = "absent"}, r)
    /\ runStatus' = [runStatus EXCEPT ![r] = "active"]
    /\ UNCHANGED enqueued

IncrementTurnEnqueued(r) ==
    /\ enqueued' = [enqueued EXCEPT ![r] = @ + 1]
    /\ UNCHANGED runStatus

StopLoopRun(r) ==
    /\ runStatus' = [runStatus EXCEPT ![r] = "stopped"]
    /\ UNCHANGED enqueued

-----------------------------------------------------------------------------
(* Commands.                                                               *)

Command == commands < MaxCommands /\ commands' = commands + 1

LoopSet(m, n) ==
    /\ Command
    /\ CreateLoopSpec(m, n)
    /\ UNCHANGED <<ledger, loopRun, runTable, runners, starters, requests, faults>>

LoopStop ==
    /\ Command
    /\ SetLoopEnabled(FALSE)
    /\ UNCHANGED <<ledger, loopRun, runTable, runners, starters, requests, faults>>

\* A turn of the thread from elsewhere: gk-job, the webhook, the fleet view.
PlainTurn ==
    /\ Command
    /\ CreateJob(Nil)
    /\ requests' = requests + 1
    /\ UNCHANGED <<specTable, runTable, runners, starters, faults>>

LoopStart(c) ==
    /\ cpc[c] = "idle"
    /\ Command
    /\ requests' = requests + 1
    /\ cpc' = [cpc EXCEPT ![c] = "enable"]
    /\ UNCHANGED <<ledger, loopRun, specTable, runTable, runners, crun, faults>>

Step(c, from, to) == cpc[c] = from /\ cpc' = [cpc EXCEPT ![c] = to]

StartEnables(c) ==
    /\ Step(c, "enable", "open")
    /\ SetLoopEnabled(TRUE)
    /\ UNCHANGED <<ledger, loopRun, runTable, runners, crun, history>>

StartOpens(c) ==
    /\ Step(c, "open", "count")
    /\ \E r \in RunIds : StartLoopRun(r) /\ crun' = [crun EXCEPT ![c] = r]
    /\ UNCHANGED <<ledger, loopRun, specTable, runners, history>>

StartCounts(c) ==
    /\ Step(c, "count", "create")
    /\ IncrementTurnEnqueued(crun[c])
    /\ UNCHANGED <<ledger, loopRun, specTable, runners, crun, history>>

StartCreates(c) ==
    /\ Step(c, "create", "idle")
    /\ CreateJob(crun[c])
    /\ crun' = [crun EXCEPT ![c] = Nil]
    /\ UNCHANGED <<specTable, runTable, runners, history>>

FaultAllowed == faults < MaxFaults /\ faults' = faults + 1

\* The command is killed, or a statement of it returns an error.
StartFails(c) ==
    /\ cpc[c] # "idle"
    /\ FaultAllowed
    /\ cpc' = [cpc EXCEPT ![c] = "idle"]
    /\ crun' = [crun EXCEPT ![c] = Nil]
    /\ UNCHANGED <<ledger, loopRun, specTable, runTable, runners, requests, commands>>

\* The one error that loop start ignores.
StartMiscounts(c) ==
    /\ StoreErrors
    /\ FaultAllowed
    /\ Step(c, "count", "create")
    /\ UNCHANGED <<ledger, loopRun, specTable, runTable, runners, crun, requests, commands>>

-----------------------------------------------------------------------------
(* The pool.  Only the goroutine that executed a job runs its runner.      *)

poolRest == <<loopRun, specTable, runTable, spec, run, seen, starters, requests, commands>>

\* Jobs that hold a slot: a goroutine keeps its slot while it runs runLoop.
Busy == executing \union {j \in JobIds : rpc[j] # "idle"}

\* Claimed and given a slot.
Take(j) ==
    /\ Cardinality(Busy) < MaxSlots
    /\ Queue!Take(j)
    /\ UNCHANGED <<poolRest, rpc, faults>>

\* Mutant: a retry is counted as a turn.
PutBack_Counts(j) ==
    /\ tries[j] < MaxTries
    /\ loopRun[j] # Nil
    /\ Queue!PutBack(j)
    /\ IncrementTurnEnqueued(loopRun[j])
    /\ UNCHANGED <<loopRun, specTable, runners, starters, history>>

\* Mutant: runLoop follows a turn however it ended.
PutBack_RunsLoop(j) ==
    /\ \/ tries[j] < MaxTries /\ UNCHANGED faults
       \/ FaultAllowed
    /\ Queue!PutBack(j)
    /\ rpc' = [rpc EXCEPT ![j] = "load"]
    /\ UNCHANGED poolRest

\* A failed turn is retried, or the dispatcher gives a claimed job back.
PutBack(j) ==
    /\ \/ tries[j] < MaxTries /\ UNCHANGED faults
       \/ FaultAllowed
    /\ Queue!PutBack(j)
    /\ UNCHANGED <<poolRest, rpc>>

\* A dead-lettered job has no runner.
Bury(j) == Queue!Bury(j) /\ UNCHANGED <<poolRest, rpc, faults>>

\* The outcome could not be written; a finished job still gets its runner.
Lose(j) ==
    /\ StoreErrors
    /\ FaultAllowed
    /\ j \in executing
    /\ Queue!Vanish({j})
    /\ rpc' \in {rpc, [rpc EXCEPT ![j] = "load"]}
    /\ UNCHANGED poolRest

Finish(j) ==
    /\ Queue!Finish(j)
    /\ rpc' = [rpc EXCEPT ![j] = "load"]
    /\ UNCHANGED <<poolRest, faults>>

\* The daemon dies, with every executor and every runner.
Crash ==
    /\ faults < MaxFaults
    /\ faults' = faults + 1 + Cardinality({j \in JobIds : rpc[j] # "idle"})
    /\ Queue!Vanish(executing)
    /\ rpc' = [j \in JobIds |-> "idle"]
    /\ spec' = [j \in JobIds |-> Nil]
    /\ run' = [j \in JobIds |-> Nil]
    /\ seen' = [j \in JobIds |-> 0]
    /\ UNCHANGED <<loopRun, specTable, runTable, starters, requests, commands>>

\* The next daemon recovers jobs before any goroutine of it exists.
Restart(S) ==
    /\ executing = {}
    /\ \A j \in JobIds : rpc[j] = "idle"
    /\ S # {}
    /\ Queue!Recover(S)
    /\ UNCHANGED <<poolRest, rpc, faults>>

-----------------------------------------------------------------------------
(* runLoop, as called by the runner of job j.                              *)

Goto(j, from, to) == rpc[j] = from /\ rpc' = [rpc EXCEPT ![j] = to]

\* The runner returns.
Return(j, from) ==
    /\ Goto(j, from, "idle")
    /\ spec' = [spec EXCEPT ![j] = Nil]
    /\ run' = [run EXCEPT ![j] = Nil]
    /\ seen' = [seen EXCEPT ![j] = 0]

\* A write whose error is ignored: it happens, or the tables stay as they are.
BestEffort(write, table) ==
    \/ write /\ UNCHANGED faults
    \/ StoreErrors /\ FaultAllowed /\ UNCHANGED table

clients == <<starters, requests, commands>>

\* A query or an insert whose error makes the runner return.
RunnerFails(j, at) ==
    /\ StoreErrors
    /\ FaultAllowed
    /\ Return(j, at)
    /\ UNCHANGED <<ledger, loopRun, specTable, runTable, clients>>

LoadSpec(j) ==
    /\ Goto(j, "load", "find")
    /\ \E i \in SpecIds :
          /\ First(EnabledSpecs, i)
          /\ mode[i] # "manual"
          /\ spec' = [spec EXCEPT ![j] = i]
    /\ UNCHANGED <<ledger, loopRun, specTable, runTable, run, seen, clients, faults>>

\* No spec of the thread is enabled, or a turn is single by its mode.
NoLoop(j) ==
    /\ Return(j, "load")
    /\ \A i \in SpecIds : First(EnabledSpecs, i) => mode[i] = "manual"
    /\ UNCHANGED <<ledger, loopRun, specTable, runTable, clients, faults>>

\* GetActiveLoopRun: the first active run of the thread, and a copy of its
\* turns_enqueued.  It need not be the run that job j belongs to.
FindRun(j) ==
    /\ Goto(j, "find", "decide")
    /\ \E r \in RunIds :
          /\ First(ActiveRuns, r)
          /\ run' = [run EXCEPT ![j] = r]
          /\ seen' = [seen EXCEPT ![j] = enqueued[r]]
    /\ UNCHANGED <<ledger, loopRun, specTable, runTable, spec, clients, faults>>

NoActiveRun(j) ==
    /\ Goto(j, "find", "open")
    /\ ActiveRuns = {}
    /\ UNCHANGED <<ledger, loopRun, specTable, runTable, spec, run, seen, clients, faults>>

\* The copy is the row as inserted, with turns_enqueued 0.
OpenRun(j) ==
    /\ Goto(j, "open", "first")
    /\ \E r \in RunIds : StartLoopRun(r) /\ run' = [run EXCEPT ![j] = r]
    /\ UNCHANGED <<ledger, loopRun, specTable, spec, seen, clients, faults>>

\* "The first job already ran": counted in the row, not in the copy.
CountFirst(j) ==
    /\ Goto(j, "first", "decide")
    /\ BestEffort(IncrementTurnEnqueued(run[j]), runTable)
    /\ UNCHANGED <<ledger, loopRun, specTable, spec, run, seen, clients>>

\* Mutant: > for >=.
CapReached_OffByOne(j) == cap[spec[j]] > 0 /\ seen[j] > cap[spec[j]]

\* The max_turns test of ShouldStop, on the copy.
CapReached(j) == cap[spec[j]] > 0 /\ seen[j] >= cap[spec[j]]

\* ShouldStop.  Of its other conditions only the wall clock, a pending
\* approval and a match in the thread's goal can hold; they may at any turn.
DecideToStop(j) ==
    /\ Goto(j, "decide", "stop")
    /\ UNCHANGED <<ledger, loopRun, specTable, runTable, spec, run, seen, clients, faults>>

DecideToGoOn(j) ==
    /\ Goto(j, "decide", "create")
    /\ ~CapReached(j)
    /\ mode[spec[j]] = "until_done"
    /\ UNCHANGED <<ledger, loopRun, specTable, runTable, spec, run, seen, clients, faults>>

\* A mode that loop set accepts and the runner has no next turn for.
DecideNothing(j) ==
    /\ Return(j, "decide")
    /\ ~CapReached(j)
    /\ mode[spec[j]] = "watcher"
    /\ UNCHANGED <<ledger, loopRun, specTable, runTable, clients, faults>>

Stop(j) ==
    /\ Goto(j, "stop", "disable")
    /\ BestEffort(StopLoopRun(run[j]), runTable)
    /\ UNCHANGED <<ledger, loopRun, specTable, spec, run, seen, clients>>

\* Mutant: only the run is stopped, as a loop over manual turns would do.
Disable_Forgotten(j) ==
    /\ Return(j, "disable")
    /\ UNCHANGED <<ledger, loopRun, specTable, runTable, clients, faults>>

Disable(j) ==
    /\ Return(j, "disable")
    /\ BestEffort(SetLoopEnabled(FALSE), specTable)
    /\ UNCHANGED <<ledger, loopRun, runTable, clients>>

CreateNext(j) ==
    /\ Goto(j, "create", "count")
    /\ CreateJob(run[j])
    /\ UNCHANGED <<specTable, runTable, spec, run, seen, clients, faults>>

CountNext(j) ==
    /\ Return(j, "count")
    /\ BestEffort(IncrementTurnEnqueued(run[j]), runTable)
    /\ UNCHANGED <<ledger, loopRun, specTable, clients>>

-----------------------------------------------------------------------------

Commands ==
    \/ \E m \in Modes, n \in Caps : LoopSet(m, n)
    \/ LoopStop
    \/ PlainTurn
    \/ \E c \in Starters :
          \/ LoopStart(c) \/ StartEnables(c) \/ StartOpens(c)
          \/ StartCounts(c) \/ StartCreates(c)
          \/ StartFails(c) \/ StartMiscounts(c)

Pool ==
    \/ \E j \in JobIds : Take(j) \/ PutBack(j) \/ Bury(j) \/ Lose(j) \/ Finish(j)
    \/ Crash
    \/ \E S \in SUBSET JobIds : Restart(S)

RunLoop(j) ==
    \/ LoadSpec(j) \/ NoLoop(j)
    \/ FindRun(j) \/ NoActiveRun(j)
    \/ OpenRun(j) \/ CountFirst(j)
    \/ DecideToStop(j) \/ DecideToGoOn(j) \/ DecideNothing(j)
    \/ Stop(j) \/ Disable(j)
    \/ CreateNext(j) \/ CountNext(j)
    \/ \E at \in {"load", "find", "open", "create"} : RunnerFails(j, at)

Next == Commands \/ Pool \/ \E j \in JobIds : RunLoop(j)

Spec == Init /\ [][Next]_vars

-----------------------------------------------------------------------------
(* Safety.                                                                 *)

\* Jobs that will still be executed, runners that have yet to decide, and
\* loop starts that have yet to create their job.
Unfinished == {j \in JobIds : state[j] \in {"waiting", "taken"}}
Undecided == {j \in JobIds : rpc[j] \notin {"idle", "count"}}
Starting == {c \in Starters : cpc[c] # "idle"}

UnderWay == Cardinality(Unfinished) + Cardinality(Undecided) + Cardinality(Starting)

\* The loop runner never multiplies the turns of a thread: for every turn that
\* somebody asked for, at most one turn is under way at any time, retries,
\* several runs and plain jobs notwithstanding.  A turn whose outcome was lost
\* may be taken again, and then goes on twice.
TurnsNeverMultiply == UnderWay <= requests + faults

TurnsOf(r) == {j \in JobIds : loopRun[j] = r}

Counting(r) == {j \in JobIds : rpc[j] = "count" /\ run[j] = r}

\* turns_enqueued counts the jobs of a run, neither retries nor turns twice.
\* It lags by the turns being counted and is ahead by at most one: the turn
\* that a run was opened for, or the first one of loop start on its way.
TurnsCounted ==
    \A r \in RunIds :
        /\ Cardinality(TurnsOf(r)) <= enqueued[r] + Cardinality(Counting(r)) + faults
        /\ enqueued[r] <= Cardinality(TurnsOf(r)) + 1 + faults

Specs == {i \in SpecIds : mode[i] # "absent"}

\* The cap is tested on a copy of turns_enqueued, which the job's own
\* predecessor may not have incremented yet, in a run that other turns of the
\* thread count in too.  Every such turn holds a slot: the cap is exceeded by
\* no more than the slots.
CapNearlyKept ==
    (\A i \in Specs : cap[i] > 0) =>
        \A r \in RunIds, n \in Caps :
            (\A i \in Specs : cap[i] <= n) => enqueued[r] <= n + MaxSlots

\* The loop is on: some spec is enabled, and every spec leads to next turns.
LoopOn ==
    /\ EnabledSpecs # {}
    /\ \A i \in SpecIds : mode[i] \in {"until_done", "absent"}

\* A loop that is on does not run dry silently: the last turn under way ends
\* with a successor, with the loop switched off, in the dead-letter table, or
\* in a fault.
NoSilentStall ==
    [][LoopOn /\ UnderWay > 0 /\ LoopOn' /\ UnderWay' = 0
         => \/ faults' > faults
            \/ \E j \in JobIds : state[j] # "dead" /\ state'[j] = "dead"]_vars

=============================================================================
