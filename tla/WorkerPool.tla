----------------------------- MODULE WorkerPool -----------------------------
(***************************************************************************)
(* gk-daemon's worker pool (internal/worker/pool.go) over the job store:   *)
(* the single dispatcher, the bounded slots, the goroutine that takes one  *)
(* turn of a job, SIGTERM and crash of the daemon, and its restart.        *)
(*                                                                         *)
(* A runJob goroutine is named by the semaphore slot it holds.  Its pc is  *)
(* the call it is about to make:                                           *)
(*   begin    GetThread, registerInflight                                  *)
(*   start    EnsureWorktree, startWorker                                  *)
(*   ready    waitForReady                                                 *)
(*   prompt   SendTurn, then setJobStatus(waiting_runtime)                 *)
(*   jammed   in SendTurn for good: emit holds sendMu over a full channel  *)
(*   turn     waitForCompletion                                            *)
(*   park     RequestApproval, the row already being waiting_approval      *)
(*   notify   notifyDeadLetter                                             *)
(*   loop     loadLoopSpec, runLoop                                        *)
(*   unwind   the deferred RemoveWorktree and unregisterInflight           *)
(*   release  the deferred cancel, slot release and wg.Done                *)
(*                                                                         *)
(* The agent process behind the adapter is the environment: it starts or   *)
(* not, becomes ready or exits, reads its stdin or not, streams events in  *)
(* any order and any number.  How a stream jams is in OmpThread.           *)
(***************************************************************************)
EXTENDS JobStore

CONSTANTS Slots,        \* the semaphore's slots (cfg.MaxSlots of them)
          TurnTimeout,  \* cfg.TurnTimeout > 0; gk-daemon leaves it at zero
          StoreErrors,  \* whether a store call may return an error
          MaxFaults     \* crashes, abandoned claims and store errors (bound)

ASSUME TurnTimeoutAssumption == TurnTimeout \in BOOLEAN
ASSUME StoreErrorsAssumption == StoreErrors \in BOOLEAN
ASSUME MaxFaultsAssumption == MaxFaults \in Nat

NoJob == 0

VARIABLES daemon,       \* "down", "up", or "stopping" once ctx is cancelled
          dispatching,  \* the dispatchLoop goroutine exists
          claimed,      \* the job it has claimed and found no slot for yet
          pc,           \* what each slot's goroutine does next; "idle" if none
          task,         \* the job of each slot's goroutine
          inflight,     \* Pool.inflight: thread -> job
          notified,     \* jobs a dead-letter notification was sent for
          faults        \* history: faults so far

poolVars == <<daemon, dispatching, claimed, pc, task, inflight, notified, faults>>

vars == <<storeVars, poolVars>>

PCs == {"idle", "begin", "start", "ready", "prompt", "jammed", "turn", "park",
        "notify", "loop", "unwind", "release"}

\* From the claim until the outcome is written, the goroutine owns the job.
OwningPCs == {"begin", "start", "ready", "prompt", "jammed", "turn", "park"}

\* Between registerInflight and unregisterInflight.
RegisteredPCs == {"start", "ready", "prompt", "jammed", "turn", "park",
                  "notify", "loop", "unwind"}

TypeOK ==
    /\ StoreTypeOK
    /\ daemon \in {"down", "up", "stopping"}
    /\ dispatching \in BOOLEAN
    /\ claimed \in JobIds \union {NoJob}
    /\ pc \in [Slots -> PCs]
    /\ task \in [Slots -> JobIds \union {NoJob}]
    /\ inflight \in [Threads -> JobIds \union {NoJob}]
    /\ notified \in SUBSET JobIds
    /\ faults \in Nat

Init ==
    /\ StoreInit
    /\ daemon = "down"
    /\ dispatching = FALSE
    /\ claimed = NoJob
    /\ pc = [s \in Slots |-> "idle"]
    /\ task = [s \in Slots |-> NoJob]
    /\ inflight = [t \in Threads |-> NoJob]
    /\ notified = {}
    /\ faults = 0

Owns(s, j) == pc[s] \in OwningPCs /\ task[s] = j

\* Some goroutine will still decide what becomes of job j.
Owned(j) == claimed = j \/ \E s \in Slots : Owns(s, j)

FaultAllowed == faults < MaxFaults

\* A store write whose error is logged or dropped.
BestEffort(write) ==
    \/ write /\ UNCHANGED faults
    \/ StoreErrors /\ FaultAllowed /\ faults' = faults + 1 /\ UNCHANGED storeVars

-----------------------------------------------------------------------------
(* Clients of the store, and the clock.                                    *)

\* gk-job create, gk-threads, the webhook and the fleet view enqueue turns.
Enqueue(t) == CreateJob(t) /\ UNCHANGED poolVars

ClockTick(j) == BackoffElapses(j) /\ UNCHANGED poolVars

\* gk-approvals approve or reject: the row alone changes.
Resolve(j) == ResolveApproval(j) /\ UNCHANGED poolVars

-----------------------------------------------------------------------------
(* The daemon.                                                             *)

\* Pool.Start: recover, then start the dispatcher.
StartDaemon ==
    /\ daemon = "down"
    /\ BestEffort(ResetStuckRunning)
    /\ daemon' = "up"
    /\ dispatching' = TRUE
    /\ UNCHANGED <<claimed, pc, task, inflight, notified>>

\* SIGTERM cancels the context; Pool.Stop closes stopCh and waits.
Sigterm ==
    /\ daemon = "up"
    /\ FaultAllowed
    /\ daemon' = "stopping"
    /\ UNCHANGED <<storeVars, dispatching, claimed, pc, task, inflight, notified, faults>>

\* wg.Wait returns and the process exits.
StopReturns ==
    /\ daemon = "stopping"
    /\ ~dispatching
    /\ \A s \in Slots : pc[s] = "idle"
    /\ daemon' = "down"
    /\ UNCHANGED <<storeVars, dispatching, claimed, pc, task, inflight, notified, faults>>

\* The process dies: the rows stay as they are, everything in memory is gone.
Crash ==
    /\ daemon # "down"
    /\ FaultAllowed
    /\ daemon' = "down"
    /\ dispatching' = FALSE
    /\ claimed' = NoJob
    /\ pc' = [s \in Slots |-> "idle"]
    /\ task' = [s \in Slots |-> NoJob]
    /\ inflight' = [t \in Threads |-> NoJob]
    /\ faults' = faults + 1
    /\ UNCHANGED <<storeVars, notified>>

-----------------------------------------------------------------------------
(* The dispatcher.                                                         *)

\* A tick.  select picks any ready case, so a tick may still win against
\* ctx.Done; FaultAllowed bounds how often it does.
Claim(j) ==
    /\ dispatching
    /\ claimed = NoJob
    /\ daemon = "stopping" => FaultAllowed
    /\ ClaimNextJob(j)
    /\ claimed' = j
    /\ UNCHANGED <<daemon, dispatching, pc, task, inflight, notified, faults>>

\* A slot is free: start runJob in it.
Dispatch(s) ==
    /\ claimed # NoJob
    /\ pc[s] = "idle"
    /\ pc' = [pc EXCEPT ![s] = "begin"]
    /\ task' = [task EXCEPT ![s] = claimed]
    /\ claimed' = NoJob
    /\ UNCHANGED <<storeVars, daemon, dispatching, inflight, notified, faults>>

\* The context is cancelled first: give the claimed job back.
RequeueClaimed ==
    /\ daemon = "stopping"
    /\ claimed # NoJob
    /\ \/ Requeue(claimed)
       \/ StoreErrors /\ FaultAllowed /\ UNCHANGED storeVars
    /\ claimed' = NoJob
    /\ faults' = faults + 1
    /\ UNCHANGED <<daemon, dispatching, pc, task, inflight, notified>>

DispatcherExits ==
    /\ daemon = "stopping"
    /\ dispatching
    /\ claimed = NoJob
    /\ dispatching' = FALSE
    /\ UNCHANGED <<storeVars, daemon, claimed, pc, task, inflight, notified, faults>>

-----------------------------------------------------------------------------
(* runJob in slot s.                                                       *)

Goto(s, from, to) == pc[s] = from /\ pc' = [pc EXCEPT ![s] = to]

\* FailJob, whose error is ignored: either the row is requeued or
\* dead-lettered, or it stays what it was.  dead and done are the pcs after a
\* dead-lettering and after anything else.
GiveUp(s, from, dead, done) ==
    /\ pc[s] = from
    /\ \/ DeadLetter(task[s]) /\ Goto(s, from, dead) /\ UNCHANGED faults
       \/ RetryLater(task[s]) /\ Goto(s, from, done) /\ UNCHANGED faults
       \/ /\ StoreErrors /\ FaultAllowed
          /\ Goto(s, from, done)
          /\ faults' = faults + 1
          /\ UNCHANGED storeVars

poolRest == <<daemon, dispatching, claimed, task, notified>>

\* GetThread returns an error: nothing was deferred yet but the slot.
ThreadLookupFails(s) ==
    /\ StoreErrors
    /\ GiveUp(s, "begin", "release", "release")
    /\ UNCHANGED <<poolRest, inflight>>

Register(s) ==
    /\ Goto(s, "begin", "start")
    /\ inflight' = [inflight EXCEPT ![thread[task[s]]] = task[s]]
    /\ UNCHANGED <<storeVars, poolRest, faults>>

\* Neither resuming nor starting the agent process worked.
StartFails(s) ==
    /\ GiveUp(s, "start", "unwind", "unwind")
    /\ UNCHANGED <<poolRest, inflight>>

Started(s) ==
    /\ Goto(s, "start", "ready")
    /\ UNCHANGED <<storeVars, poolRest, inflight, faults>>

\* Mutant: an early return without FailJob.
ReadyFails_Silent(s) ==
    /\ Goto(s, "ready", "unwind")
    /\ UNCHANGED <<storeVars, poolRest, inflight, faults>>

\* Mutant: waitForReady does not watch the context.
ReadyFails_IgnoresCancel(s) ==
    /\ daemon # "stopping"
    /\ GiveUp(s, "ready", "unwind", "unwind")
    /\ UNCHANGED <<poolRest, inflight>>

\* The event channel closed, or the context is cancelled.
ReadyFails(s) ==
    /\ GiveUp(s, "ready", "unwind", "unwind")
    /\ UNCHANGED <<poolRest, inflight>>

Ready(s) ==
    /\ Goto(s, "ready", "prompt")
    /\ UNCHANGED <<storeVars, poolRest, inflight, faults>>

SendFails(s) ==
    /\ GiveUp(s, "prompt", "unwind", "unwind")
    /\ UNCHANGED <<poolRest, inflight>>

\* The agent said more than the event channel holds before its prompt: emit
\* waits for room with sendMu held, SendTurn waits for sendMu and never looks
\* at its context, and reapLoop needs sendMu to end the stream even of a dead
\* process.  Only the end of the daemon ends this.
Jam(s) ==
    /\ Goto(s, "prompt", "jammed")
    /\ UNCHANGED <<storeVars, poolRest, inflight, faults>>

\* The prompt is acknowledged, which is not completion.
SendTurn(s) ==
    /\ Goto(s, "prompt", "turn")
    /\ BestEffort(SetStatus(task[s], "waiting_runtime"))
    /\ UNCHANGED <<poolRest, inflight>>

AgentStart(s) ==
    /\ Goto(s, "turn", "turn")
    /\ BestEffort(SetStatus(task[s], "running"))
    /\ UNCHANGED <<poolRest, inflight>>

\* A host tool call of high or medium risk; one of low risk changes no row.
RiskyToolCall(s) ==
    /\ Goto(s, "turn", "park")
    /\ approvals[task[s]] < MaxApprovals
    /\ BestEffort(SetStatus(task[s], "waiting_approval"))
    /\ UNCHANGED <<poolRest, inflight>>

\* The approvals row follows in a statement of its own, and the loop of
\* waitForCompletion goes on without waiting for a verdict.
RecordApproval(s) ==
    /\ Goto(s, "park", "turn")
    /\ BestEffort(RequestApproval(task[s]))
    /\ UNCHANGED <<poolRest, inflight>>

\* An error event, a closed channel, the turn timeout or a cancelled context.
TurnFails(s) ==
    /\ GiveUp(s, "turn", "notify", "unwind")
    /\ UNCHANGED <<poolRest, inflight>>

\* agent_end arrives.
AgentEnd(s) ==
    /\ Goto(s, "turn", "loop")
    /\ BestEffort(CompleteJob(task[s]))
    /\ UNCHANGED <<poolRest, inflight>>

Notify(s) ==
    /\ Goto(s, "notify", "unwind")
    /\ notified' = notified \union {task[s]}
    /\ UNCHANGED <<storeVars, daemon, dispatching, claimed, task, inflight, faults>>

\* No enabled loop_spec, or runLoop ends the loop or returns an error.
LoopEnds(s) ==
    /\ Goto(s, "loop", "unwind")
    /\ UNCHANGED <<storeVars, poolRest, inflight, faults>>

\* runLoop enqueues the next turn of the same thread.
LoopContinues(s) ==
    /\ Goto(s, "loop", "unwind")
    /\ CreateJob(thread[task[s]])
    /\ UNCHANGED <<poolRest, inflight, faults>>

\* Mutant: the deferred unregisterInflight is missing.
Unregister_Never(s) ==
    /\ Goto(s, "unwind", "release")
    /\ UNCHANGED <<storeVars, poolRest, inflight, faults>>

\* Whoever the entry of the thread belongs to by now, it is deleted.
Unregister(s) ==
    /\ Goto(s, "unwind", "release")
    /\ inflight' = [inflight EXCEPT ![thread[task[s]]] = NoJob]
    /\ UNCHANGED <<storeVars, poolRest, faults>>

\* Mutant: the slot is never given back.
Release_Leaks(s) == pc[s] = "release" /\ UNCHANGED vars

Release(s) ==
    /\ Goto(s, "release", "idle")
    /\ task' = [task EXCEPT ![s] = NoJob]
    /\ UNCHANGED <<storeVars, daemon, dispatching, claimed, inflight, notified, faults>>

-----------------------------------------------------------------------------

Clients ==
    \/ \E t \in Threads : Enqueue(t)
    \/ \E j \in JobIds : ClockTick(j) \/ Resolve(j)

Dispatcher ==
    \/ \E j \in JobIds : Claim(j)
    \/ \E s \in Slots : Dispatch(s)
    \/ RequeueClaimed
    \/ DispatcherExits

\* Calls that return whatever the agent process does.
Advance(s) ==
    \/ ThreadLookupFails(s) \/ Register(s)
    \/ StartFails(s) \/ Started(s)
    \/ RecordApproval(s) \/ Notify(s)
    \/ LoopEnds(s) \/ LoopContinues(s)
    \/ Unregister(s) \/ Release(s)

\* Steps that wait for the agent process.
Await(s) ==
    \/ ReadyFails(s) \/ Ready(s)
    \/ SendFails(s) \/ SendTurn(s) \/ Jam(s)
    \/ AgentStart(s) \/ RiskyToolCall(s)
    \/ TurnFails(s) \/ AgentEnd(s)

Next ==
    \/ Clients
    \/ StartDaemon \/ Sigterm \/ StopReturns \/ Crash
    \/ Dispatcher
    \/ \E s \in Slots : Advance(s) \/ Await(s)

Spec == Init /\ [][Next]_vars

-----------------------------------------------------------------------------
(* Safety.                                                                 *)

\* A job has at most one owner, and whoever owns it finds its row in flight:
\* no retry, recovery or second claim hands out a job that a goroutine or the
\* dispatcher still holds.
SingleOwner ==
    /\ claimed # NoJob => status[claimed] = "running"
    /\ \A s \in Slots : pc[s] \in OwningPCs =>
          /\ task[s] # NoJob
          /\ task[s] # claimed
          /\ status[task[s]] \in InFlightStatuses
    /\ \A r, s \in Slots :
          r # s /\ pc[r] \in OwningPCs /\ pc[s] \in OwningPCs => task[r] # task[s]

\* ClaimNextJob never compares attempts with max_attempts, and recovery and
\* requeueing leave attempts counted; still a job is attempted more often than
\* max_attempts only as far as faults interrupted it.
RetryBudget ==
    \A j \in JobIds : attempts[j] <= MaxAttempts + faults

\* A job is dead-lettered exactly once, never below its attempt budget, and
\* only dead-lettered jobs are announced as such.
DeadLetterOnce ==
    /\ \A j \in JobIds :
          /\ deadLetters[j] = (IF status[j] = "dead_letter" THEN 1 ELSE 0)
          /\ status[j] = "dead_letter" => Exhausted(j)
    /\ \A j \in notified : status[j] = "dead_letter"

\* The turns of one thread are first taken in the order they were enqueued,
\* even though retries overtake (ORDER BY next_run_at IS NULL).
FirstTurnsInOrder ==
    \A i, j \in JobIds :
        i < j /\ attempts[j] > 0 /\ thread[i] = thread[j] => attempts[i] > 0

\* An entry of Pool.inflight is never stale: a goroutine between registering
\* and unregistering works on that job for that thread.
InflightIsLive ==
    \A t \in Threads : inflight[t] # NoJob =>
        \E s \in Slots : /\ pc[s] \in RegisteredPCs
                         /\ task[s] = inflight[t]
                         /\ thread[task[s]] = t

\* done and dead_letter are final: no late failure, recovery or claim moves a
\* finished job again.
FinishedStaysFinished ==
    [][\A j \in JobIds : status[j] \in TerminalStatuses => status'[j] = status[j]]_vars

\* A job whose row says some worker is on it while none is.
Stranded(j) == status[j] \in InFlightStatuses /\ ~Owned(j)

\* Only a crash or an ignored store error strands a job; a graceful shutdown,
\* a failed turn or a lost race never does.
StrandedOnlyByFault ==
    [][\A j \in JobIds : ~Stranded(j) /\ Stranded(j)' => faults' > faults]_vars

-----------------------------------------------------------------------------
(* Refinement.                                                             *)

LedgerState(j) ==
    CASE status[j] = "absent" -> "none"
      [] status[j] = "queued" -> "waiting"
      [] status[j] = "done" -> "done"
      [] status[j] = "dead_letter" -> "dead"
      [] OTHER -> "taken"

Ledger == INSTANCE JobLedger WITH
              Jobs <- JobIds,
              MaxTries <- MaxAttempts,
              state <- [j \in JobIds |-> LedgerState(j)],
              tries <- attempts,
              executing <- {j \in JobIds : Owned(j)}

\* The pool with its store, slots and recovery is a ledger in which a job has
\* one executor at a time and only that executor settles it.
ImplementsLedger == Ledger!Spec

-----------------------------------------------------------------------------
(* Liveness.                                                               *)

\* The scheduler runs every goroutine that can run; store calls, git and the
\* launch of a process return; select does not ignore a ready case for ever,
\* which makes the cases of waitForReady and waitForCompletion that stay ready
\* strongly fair.  A cancelled context kills the agent process, so that a write
\* to its stdin fails; nothing else is assumed of SendTurn.
Fairness ==
    /\ WF_vars(Dispatcher)
    /\ WF_vars(StopReturns)
    /\ \A j \in JobIds : WF_vars(ClockTick(j))
    /\ \A s \in Slots :
          /\ WF_vars(Advance(s))
          /\ WF_vars(daemon = "stopping" /\ ReadyFails(s))
          /\ WF_vars(daemon = "stopping" /\ SendFails(s))
          /\ SF_vars((daemon = "stopping" \/ TurnTimeout) /\ TurnFails(s))

FairSpec == Spec /\ Fairness

\* A worker that no event, timeout or cancelled context frees.
Jammed == \E s \in Slots : pc[s] = "jammed"

\* Once asked to stop, the daemon drains its goroutines and exits: no worker
\* that waits for its agent, and no full semaphore, keeps Pool.Stop waiting,
\* except a worker jammed in SendTurn.
ShutdownDrains == daemon = "stopping" ~> daemon = "down" \/ Jammed

\* With a turn timeout, a turn that began leaves its slot whatever the agent
\* process does.
TurnLeavesSlot ==
    \A s \in Slots : pc[s] = "turn" ~> pc[s] = "idle"

\* The agent process announces itself or exits, and then reads its prompt or
\* exits; the pool has no timeout of its own on either.
AgentListens ==
    \A s \in Slots :
        /\ WF_vars(Ready(s) \/ ReadyFails(s))
        /\ WF_vars(SendTurn(s) \/ SendFails(s))

\* While the daemon stays up and writes succeed, every queued job is finished
\* or dead-lettered, retries and the per-thread anti-join notwithstanding,
\* unless a jammed worker keeps its slot and its thread.
QueuedJobsSettle ==
    AgentListens =>
        \A j \in JobIds :
            (daemon = "up" /\ status[j] = "queued")
                ~> (status[j] \in TerminalStatuses \/ daemon # "up" \/ Jammed)

-----------------------------------------------------------------------------
(* What the sources say and the code does not do.                          *)

\* ClaimNextJob (schema.go): a second job of a thread must not run while
\* another one does.
ThreadsSerialized ==
    \A r, s \in Slots :
        r # s /\ pc[r] \in OwningPCs /\ pc[s] \in OwningPCs
            => thread[task[r]] # thread[task[s]]

=============================================================================
