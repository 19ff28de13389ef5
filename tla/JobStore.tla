------------------------------ MODULE JobStore ------------------------------
(***************************************************************************)
(* The durable job tables of internal/gkdb: jobs, dead_letters and the     *)
(* pending rows of approvals.  SQLite serialises writers, so one exported  *)
(* operation that is a single statement or a single transaction is one     *)
(* action here.  FailJob reads and then writes, but only the owner of a    *)
(* job calls it, so nothing can come between the two.                      *)
(*                                                                         *)
(* Abstractions.  A job id is its position in creation order, which is     *)
(* what ORDER BY created_at compares.  next_run_at is the only clock: it   *)
(* is NULL, still ahead of now ("backoff"), or reached ("due").  How two   *)
(* reached instants compare is left open, so that either order of retries  *)
(* is explored.  These are the operations when they succeed; where a       *)
(* caller ignores an error, the caller's module says what it does then.    *)
(***************************************************************************)
EXTENDS Naturals

CONSTANTS MaxJobs,       \* jobs that may ever be created (bound)
          Threads,       \* rows of agent_threads a job can belong to
          NoThread,      \* thread_id of a row that does not exist yet
          MaxAttempts,   \* the max_attempts column (3 in CreateJobWithLoop)
          MaxApprovals   \* approvals pending per job at one time (bound)

ASSUME MaxJobsAssumption == MaxJobs \in Nat \ {0}
ASSUME NoThreadAssumption == NoThread \notin Threads
ASSUME MaxAttemptsAssumption == MaxAttempts \in Nat \ {0}
ASSUME MaxApprovalsAssumption == MaxApprovals \in Nat

JobIds == 1..MaxJobs

\* "absent" is a row not inserted yet; "retry" and "failed" of the Go enum
\* are never written by any caller.
JobStatuses == {"absent", "queued", "running", "waiting_runtime",
                "waiting_approval", "done", "dead_letter"}

\* The statuses of a job that some worker is, or was, taking a turn for.
InFlightStatuses == {"running", "waiting_runtime", "waiting_approval"}

TerminalStatuses == {"done", "dead_letter"}

VARIABLES status,       \* jobs.status
          thread,       \* jobs.thread_id
          attempts,     \* jobs.attempts
          nextRun,      \* jobs.next_run_at: "null", "backoff" or "due"
          deadLetters,  \* number of dead_letters rows of each job
          approvals     \* number of pending approvals rows of each job

storeVars == <<status, thread, attempts, nextRun, deadLetters, approvals>>

StoreTypeOK ==
    /\ status \in [JobIds -> JobStatuses]
    /\ thread \in [JobIds -> Threads \union {NoThread}]
    /\ attempts \in [JobIds -> Nat]
    /\ nextRun \in [JobIds -> {"null", "backoff", "due"}]
    /\ deadLetters \in [JobIds -> Nat]
    /\ approvals \in [JobIds -> 0..MaxApprovals]

StoreInit ==
    /\ status = [j \in JobIds |-> "absent"]
    /\ thread = [j \in JobIds |-> NoThread]
    /\ attempts = [j \in JobIds |-> 0]
    /\ nextRun = [j \in JobIds |-> "null"]
    /\ deadLetters = [j \in JobIds |-> 0]
    /\ approvals = [j \in JobIds |-> 0]

-----------------------------------------------------------------------------
(* Inserting.                                                              *)

\* The next id to be handed out.
NextId(j) == /\ status[j] = "absent"
             /\ \A i \in JobIds : i < j => status[i] # "absent"

\* INSERT of a queued row for thread t, with no attempt made and no next_run_at.
CreateJob(t) ==
    \E j \in JobIds :
        /\ NextId(j)
        /\ status' = [status EXCEPT ![j] = "queued"]
        /\ thread' = [thread EXCEPT ![j] = t]
        /\ UNCHANGED <<attempts, nextRun, deadLetters, approvals>>

-----------------------------------------------------------------------------
(* Claiming.                                                               *)

\* Mutant: a retry whose next_run_at was reached is overlooked.
Claimable_NullOnly(j) ==
    /\ status[j] = "queued"
    /\ nextRun[j] = "null"
    /\ \A i \in JobIds : thread[i] = thread[j] => status[i] # "running"

\* The WHERE clause: queued, due, and no row of the thread is 'running'.
Claimable(j) ==
    /\ status[j] = "queued"
    /\ nextRun[j] # "backoff"
    /\ \A i \in JobIds : thread[i] = thread[j] => status[i] # "running"

\* Mutant: ORDER BY created_at DESC.
SortsBefore_Newest(i, j) ==
    \/ nextRun[i] = "due" /\ nextRun[j] = "null"
    \/ nextRun[i] = "null" /\ nextRun[j] = "null" /\ i > j

\* The ORDER BY clause: rows with a next_run_at come before rows without one,
\* and rows without one come in creation order.
SortsBefore(i, j) ==
    \/ nextRun[i] = "due" /\ nextRun[j] = "null"
    \/ nextRun[i] = "null" /\ nextRun[j] = "null" /\ i < j

\* Mutant: the claim counts the attempt and forgets the status.
ClaimNextJob_Unmarked(j) ==
    /\ Claimable(j)
    /\ \A i \in JobIds : Claimable(i) => ~SortsBefore(i, j)
    /\ attempts' = [attempts EXCEPT ![j] = @ + 1]
    /\ UNCHANGED <<status, thread, nextRun, deadLetters, approvals>>

\* One transaction: select the first claimable row, mark it running and count
\* the attempt.  next_run_at keeps its old value, and attempts is not compared
\* with max_attempts.
ClaimNextJob(j) ==
    /\ Claimable(j)
    /\ \A i \in JobIds : Claimable(i) => ~SortsBefore(i, j)
    /\ status' = [status EXCEPT ![j] = "running"]
    /\ attempts' = [attempts EXCEPT ![j] = @ + 1]
    /\ UNCHANGED <<thread, nextRun, deadLetters, approvals>>

\* The clock reaches the next_run_at of a job.
BackoffElapses(j) ==
    /\ nextRun[j] = "backoff"
    /\ nextRun' = [nextRun EXCEPT ![j] = "due"]
    /\ UNCHANGED <<status, thread, attempts, deadLetters, approvals>>

-----------------------------------------------------------------------------
(* Updating.                                                               *)

\* The unconditional UPDATE jobs SET status=... of pool.setJobStatus.
SetStatus(j, st) ==
    /\ status' = [status EXCEPT ![j] = st]
    /\ UNCHANGED <<thread, attempts, nextRun, deadLetters, approvals>>

CompleteJob(j) == SetStatus(j, "done")

\* Mutant: one attempt too many.
Exhausted_OffByOne(j) == attempts[j] > MaxAttempts

\* FailJob would dead-letter rather than requeue.
Exhausted(j) == attempts[j] >= MaxAttempts

\* Mutant: the row is inserted and the status left alone.
DeadLetter_Unmarked(j) ==
    /\ Exhausted(j)
    /\ deadLetters' = [deadLetters EXCEPT ![j] = @ + 1]
    /\ UNCHANGED <<status, thread, attempts, nextRun, approvals>>

\* Mutant: dead-lettered whatever attempts are left.
DeadLetter_Early(j) ==
    /\ status' = [status EXCEPT ![j] = "dead_letter"]
    /\ deadLetters' = [deadLetters EXCEPT ![j] = @ + 1]
    /\ UNCHANGED <<thread, attempts, nextRun, approvals>>

\* One dead_letters row and the status, in one transaction.
DeadLetter(j) ==
    /\ Exhausted(j)
    /\ status' = [status EXCEPT ![j] = "dead_letter"]
    /\ deadLetters' = [deadLetters EXCEPT ![j] = @ + 1]
    /\ UNCHANGED <<thread, attempts, nextRun, approvals>>

\* Back to the queue, to be retried after attempts seconds.
RetryLater(j) ==
    /\ ~Exhausted(j)
    /\ status' = [status EXCEPT ![j] = "queued"]
    /\ nextRun' = [nextRun EXCEPT ![j] = "backoff"]
    /\ UNCHANGED <<thread, attempts, deadLetters, approvals>>

FailJob(j) == DeadLetter(j) \/ RetryLater(j)

\* Back to the queue at once; the attempt that the claim counted stays counted.
Requeue(j) ==
    /\ status' = [status EXCEPT ![j] = "queued"]
    /\ nextRun' = [nextRun EXCEPT ![j] = "null"]
    /\ UNCHANGED <<thread, attempts, deadLetters, approvals>>

\* Every row that is exactly 'running' goes back to the queue.
ResetStuckRunning ==
    LET stuck == {j \in JobIds : status[j] = "running"}
    IN  /\ status' = [j \in JobIds |-> IF j \in stuck THEN "queued" ELSE status[j]]
        /\ nextRun' = [j \in JobIds |-> IF j \in stuck THEN "null" ELSE nextRun[j]]
        /\ UNCHANGED <<thread, attempts, deadLetters, approvals>>

-----------------------------------------------------------------------------
(* Approvals.  Nothing reads a verdict, so a resolved row just stops being *)
(* pending.                                                                *)

RequestApproval(j) ==
    /\ approvals[j] < MaxApprovals
    /\ approvals' = [approvals EXCEPT ![j] = @ + 1]
    /\ UNCHANGED <<status, thread, attempts, nextRun, deadLetters>>

ResolveApproval(j) ==
    /\ approvals[j] > 0
    /\ approvals' = [approvals EXCEPT ![j] = @ - 1]
    /\ UNCHANGED <<status, thread, attempts, nextRun, deadLetters>>

=============================================================================
