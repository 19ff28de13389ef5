-------------------------- MODULE WorkerPool_proofs --------------------------
(***************************************************************************)
(* Proofs about WorkerPool, for every number of jobs, slots and threads,   *)
(* every attempt budget and any number of faults.                          *)
(***************************************************************************)
EXTENDS WorkerPool, TLAPS

LEMMA JobIdsAreNats == /\ JobIds \subseteq Nat
                       /\ NoJob \notin JobIds
  BY MaxJobsAssumption DEF JobIds, NoJob

-----------------------------------------------------------------------------
(* Type correctness.                                                       *)

LEMMA TypeInit == Init => TypeOK
<1> SUFFICES ASSUME Init PROVE TypeOK
  OBVIOUS
<1>1. StoreTypeOK
  BY MaxApprovalsAssumption DEF Init, StoreInit, StoreTypeOK, JobStatuses
<1>2. /\ pc \in [Slots -> PCs]
      /\ task \in [Slots -> JobIds \union {NoJob}]
      /\ inflight \in [Threads -> JobIds \union {NoJob}]
  BY DEF Init, PCs
<1> QED
  BY <1>1, <1>2 DEF Init, TypeOK

\* The store operations keep the tables well typed.
StoreStep ==
    \/ \E t \in Threads \union {NoThread} : CreateJob(t)
    \/ \E j \in JobIds :
         \/ ClaimNextJob(j) \/ BackoffElapses(j) \/ CompleteJob(j)
         \/ DeadLetter(j) \/ RetryLater(j) \/ Requeue(j)
         \/ RequestApproval(j) \/ ResolveApproval(j)
         \/ \E st \in JobStatuses : SetStatus(j, st)
    \/ ResetStuckRunning
    \/ UNCHANGED storeVars

LEMMA StoreTypeStep == StoreTypeOK /\ StoreStep => StoreTypeOK'
<1> SUFFICES ASSUME StoreTypeOK, StoreStep PROVE StoreTypeOK'
  OBVIOUS
<1> USE MaxApprovalsAssumption DEF StoreTypeOK
<1>1. CASE \E t \in Threads \union {NoThread} : CreateJob(t)
  BY <1>1 DEF CreateJob, JobStatuses
<1>2. ASSUME NEW j \in JobIds, ClaimNextJob(j) PROVE StoreTypeOK'
  BY <1>2 DEF ClaimNextJob, JobStatuses
<1>3. ASSUME NEW j \in JobIds, BackoffElapses(j) PROVE StoreTypeOK'
  BY <1>3 DEF BackoffElapses
<1>4. ASSUME NEW j \in JobIds, NEW st \in JobStatuses, SetStatus(j, st)
      PROVE StoreTypeOK'
  BY <1>4 DEF SetStatus
<1>5. ASSUME NEW j \in JobIds, CompleteJob(j) PROVE StoreTypeOK'
  BY <1>5, <1>4 DEF CompleteJob, JobStatuses
<1>6. ASSUME NEW j \in JobIds, DeadLetter(j) PROVE StoreTypeOK'
  BY <1>6 DEF DeadLetter, JobStatuses
<1>7. ASSUME NEW j \in JobIds, RetryLater(j) PROVE StoreTypeOK'
  BY <1>7 DEF RetryLater, JobStatuses
<1>8. ASSUME NEW j \in JobIds, Requeue(j) PROVE StoreTypeOK'
  BY <1>8 DEF Requeue, JobStatuses
<1>9. ASSUME NEW j \in JobIds, RequestApproval(j) PROVE StoreTypeOK'
  BY <1>9 DEF RequestApproval
<1>10. ASSUME NEW j \in JobIds, ResolveApproval(j) PROVE StoreTypeOK'
  BY <1>10 DEF ResolveApproval
<1>11. CASE ResetStuckRunning
  BY <1>11 DEF ResetStuckRunning, JobStatuses
<1>12. CASE UNCHANGED storeVars
  BY <1>12 DEF storeVars
<1> QED
  BY <1>1, <1>2, <1>3, <1>4, <1>5, <1>6, <1>7, <1>8, <1>9, <1>10, <1>11, <1>12
     DEF StoreStep

\* Every goroutine has a job.
Tasked == \A s \in Slots : pc[s] # "idle" => task[s] \in JobIds

TypeInv == TypeOK /\ Tasked

\* Whatever a slot's goroutine does to the store is a store operation.
LEMMA SlotStoreStep ==
    ASSUME TypeInv, NEW s \in Slots, Advance(s) \/ Await(s)
    PROVE  StoreStep
<1> USE DEF TypeInv, TypeOK, StoreTypeOK, Goto
<1>1. pc[s] # "idle"
  BY DEF Advance, Await, ThreadLookupFails, StartFails, SendFails, ReadyFails, TurnFails,
         GiveUp, Register, Started, Jam, SendTurn, RecordApproval, Notify, LoopEnds,
         LoopContinues, Unregister, Release, Ready, AgentStart, RiskyToolCall, AgentEnd
<1>2. task[s] \in JobIds /\ thread[task[s]] \in Threads \union {NoThread}
  BY <1>1 DEF Tasked
<1>3. ASSUME NEW from, NEW dead, NEW done, GiveUp(s, from, dead, done)
      PROVE  StoreStep
  BY <1>2, <1>3 DEF GiveUp, StoreStep
<1>4. CASE ThreadLookupFails(s) \/ StartFails(s) \/ SendFails(s) \/ ReadyFails(s) \/ TurnFails(s)
  BY <1>3, <1>4 DEF ThreadLookupFails, StartFails, SendFails, ReadyFails, TurnFails
<1>5. CASE SendTurn(s) \/ AgentStart(s) \/ RiskyToolCall(s) \/ AgentEnd(s)
  BY <1>2, <1>5 DEF SendTurn, AgentStart, RiskyToolCall, AgentEnd, BestEffort, JobStatuses, StoreStep
<1>6. CASE RecordApproval(s)
  BY <1>2, <1>6 DEF RecordApproval, BestEffort, StoreStep
<1>7. CASE LoopContinues(s)
  BY <1>2, <1>7 DEF LoopContinues, StoreStep
<1>8. CASE \/ Register(s) \/ Started(s) \/ Jam(s) \/ Notify(s) \/ LoopEnds(s) \/ Unregister(s)
           \/ Release(s) \/ Ready(s)
  BY <1>8 DEF Register, Started, Jam, Notify, LoopEnds, Unregister, Release, Ready, StoreStep
<1> QED
  BY <1>4, <1>5, <1>6, <1>7, <1>8 DEF Advance, Await

LEMMA SlotTypeStep ==
    ASSUME TypeInv, NEW s \in Slots, Advance(s) \/ Await(s)
    PROVE  TypeInv'
<1>1. StoreTypeOK'
  BY SlotStoreStep, StoreTypeStep DEF TypeInv, TypeOK
<1> USE DEF TypeInv, TypeOK, Tasked, Goto, PCs, poolRest
<1>2. ASSUME NEW from \in PCs \ {"idle"}, NEW dead \in PCs, NEW done \in PCs,
             GiveUp(s, from, dead, done), UNCHANGED <<poolRest, inflight>>
      PROVE  TypeInv'
  BY <1>1, <1>2 DEF GiveUp
<1>3. CASE ThreadLookupFails(s) \/ StartFails(s) \/ SendFails(s) \/ ReadyFails(s) \/ TurnFails(s)
  BY <1>2, <1>3 DEF ThreadLookupFails, StartFails, SendFails, ReadyFails, TurnFails
<1>4. CASE \/ SendTurn(s) \/ AgentStart(s) \/ RiskyToolCall(s) \/ AgentEnd(s)
           \/ RecordApproval(s) \/ LoopContinues(s)
  <2>1. faults' \in Nat
    BY <1>4 DEF SendTurn, AgentStart, RiskyToolCall, AgentEnd, RecordApproval, LoopContinues,
                BestEffort
  <2> QED
    BY <1>1, <1>4, <2>1
       DEF SendTurn, AgentStart, RiskyToolCall, AgentEnd, RecordApproval, LoopContinues
<1>5. CASE Started(s) \/ Jam(s) \/ Notify(s) \/ LoopEnds(s) \/ Ready(s) \/ Release(s)
  BY <1>1, <1>5 DEF Started, Jam, Notify, LoopEnds, Release, Ready
<1>6. CASE Register(s) \/ Unregister(s)
  BY <1>1, <1>6 DEF Register, Unregister
<1> QED
  BY <1>3, <1>4, <1>5, <1>6 DEF Advance, Await

LEMMA TypeStep == TypeInv /\ [Next]_vars => TypeInv'
<1> SUFFICES ASSUME TypeInv, [Next]_vars PROVE TypeInv'
  OBVIOUS
<1> USE DEF TypeInv, TypeOK, Tasked
<1>1. ASSUME StoreStep, UNCHANGED poolVars PROVE TypeInv'
  BY <1>1, StoreTypeStep DEF poolVars
<1>2. CASE Clients
  BY <1>1, <1>2 DEF Clients, Enqueue, ClockTick, Resolve, StoreStep
<1>3. CASE StartDaemon
  <2>1. StoreStep /\ faults' \in Nat
    BY <1>3 DEF StartDaemon, BestEffort, StoreStep
  <2> QED
    BY <1>3, <2>1, StoreTypeStep DEF StartDaemon
<1>4. CASE Sigterm \/ StopReturns \/ Crash
  <2>1. StoreTypeOK'
    BY <1>4, StoreTypeStep DEF Sigterm, StopReturns, Crash, StoreStep
  <2>2. CASE Sigterm \/ StopReturns
    BY <2>1, <2>2 DEF Sigterm, StopReturns
  <2>3. CASE Crash
    <3>1. faults' \in Nat
      BY <2>3 DEF Crash
    <3>2. pc' \in [Slots -> PCs] /\ task' \in [Slots -> JobIds \union {NoJob}]
      BY <2>3 DEF Crash, PCs
    <3> QED
      BY <2>1, <2>3, <3>1, <3>2 DEF Crash
  <2> QED
    BY <1>4, <2>2, <2>3
<1>5. ASSUME NEW j \in JobIds, Claim(j) PROVE TypeInv'
  BY <1>5, StoreTypeStep DEF Claim, StoreStep
<1>6. ASSUME NEW s \in Slots, Dispatch(s) PROVE TypeInv'
  BY <1>6, StoreTypeStep DEF Dispatch, StoreStep, PCs
<1>7. CASE RequeueClaimed \/ DispatcherExits
  <2>1. StoreStep
    BY <1>7 DEF RequeueClaimed, DispatcherExits, StoreStep
  <2>2. faults' \in Nat
    BY <1>7 DEF RequeueClaimed, DispatcherExits
  <2> QED
    BY <1>7, <2>1, <2>2, StoreTypeStep DEF RequeueClaimed, DispatcherExits
<1>8. ASSUME NEW s \in Slots, Advance(s) \/ Await(s) PROVE TypeInv'
  BY <1>8, SlotTypeStep
<1>9. CASE UNCHANGED vars
  BY <1>1, <1>9 DEF vars, StoreStep
<1> QED
  BY <1>2, <1>3, <1>4, <1>5, <1>6, <1>7, <1>8, <1>9 DEF Next, Dispatcher

\* The job table, the daemon and its goroutines stay well typed.
THEOREM TypeCorrect == Spec => []TypeOK
<1>1. Init => TypeInv
  BY TypeInit DEF Init, TypeInv, Tasked
<1> QED
  BY <1>1, TypeStep, PTL DEF Spec, TypeInv

-----------------------------------------------------------------------------
(* Ownership.  SingleOwner is not inductive alone: that a claim, a         *)
(* recovery or a dead-letter notification finds no owner in its way rests  *)
(* on what a daemon that is down, or a goroutine past its outcome, looks   *)
(* like.                                                                   *)

\* A claimed job is in the dispatcher's hands, and a daemon that is down has
\* no goroutines.
Quiet ==
    /\ dispatching = FALSE => claimed = NoJob
    /\ daemon = "down" => dispatching = FALSE /\ \A s \in Slots : pc[s] = "idle"

\* A goroutine's job exists, and is dead-lettered while that is announced.
RowsExist ==
    \A s \in Slots :
        /\ pc[s] # "idle" => status[task[s]] # "absent"
        /\ pc[s] = "notify" => status[task[s]] = "dead_letter"

Ownership == Quiet /\ RowsExist /\ SingleOwner

LEMMA OwnershipInit == Init => Ownership
  BY DEF Init, StoreInit, Ownership, Quiet, RowsExist, SingleOwner, OwningPCs

\* The rows of a goroutine and of the dispatcher survive what others do to
\* other rows.
LEMMA OwnershipSlotStep ==
    ASSUME TypeInv, Ownership, NEW s \in Slots, Advance(s) \/ Await(s)
    PROVE  Ownership'
<1> USE DEF TypeInv, TypeOK, StoreTypeOK, Ownership, Quiet, RowsExist, SingleOwner,
            OwningPCs, InFlightStatuses, Goto, poolRest
<1>1. pc[s] # "idle"
  BY DEF Advance, Await, ThreadLookupFails, StartFails, SendFails, ReadyFails, TurnFails,
         GiveUp, Register, Started, Jam, SendTurn, RecordApproval, Notify, LoopEnds,
         LoopContinues, Unregister, Release, Ready, AgentStart, RiskyToolCall, AgentEnd
<1>2. task[s] \in JobIds
  BY <1>1 DEF Tasked
<1>3. ASSUME NEW from \in OwningPCs, NEW dead \in {"release", "unwind", "notify"},
             NEW done \in {"release", "unwind"},
             GiveUp(s, from, dead, done), UNCHANGED <<poolRest, inflight>>
      PROVE  Ownership'
  <2>1. CASE DeadLetter(task[s]) /\ Goto(s, from, dead)
    BY <1>2, <1>3, <2>1 DEF DeadLetter
  <2>2. CASE RetryLater(task[s]) /\ Goto(s, from, done)
    BY <1>2, <1>3, <2>2 DEF RetryLater
  <2>3. CASE Goto(s, from, done) /\ UNCHANGED storeVars
    BY <1>2, <1>3, <2>3 DEF storeVars
  <2> QED
    BY <1>3, <2>1, <2>2, <2>3 DEF GiveUp
<1>4. CASE ThreadLookupFails(s) \/ StartFails(s) \/ SendFails(s) \/ ReadyFails(s) \/ TurnFails(s)
  BY <1>3, <1>4 DEF ThreadLookupFails, StartFails, SendFails, ReadyFails, TurnFails
<1>5. ASSUME NEW from \in OwningPCs, NEW to \in OwningPCs, NEW st \in InFlightStatuses,
             Goto(s, from, to), SetStatus(task[s], st) \/ UNCHANGED storeVars,
             UNCHANGED <<poolRest, inflight>>
      PROVE  Ownership'
  <2>1. CASE SetStatus(task[s], st)
    BY <1>2, <1>5, <2>1 DEF SetStatus
  <2>2. CASE UNCHANGED storeVars
    BY <1>2, <1>5, <2>2 DEF storeVars
  <2> QED
    BY <1>5, <2>1, <2>2
<1>6. CASE SendTurn(s)
  BY <1>5, <1>6 DEF SendTurn, BestEffort
<1>7. CASE AgentStart(s) \/ RiskyToolCall(s)
  BY <1>5, <1>7 DEF AgentStart, RiskyToolCall, BestEffort
<1>8. CASE AgentEnd(s)
  <2>1. CASE CompleteJob(task[s])
    BY <1>2, <1>8, <2>1 DEF AgentEnd, CompleteJob, SetStatus
  <2>2. CASE UNCHANGED storeVars
    BY <1>2, <1>8, <2>2 DEF AgentEnd, storeVars
  <2> QED
    BY <1>8, <2>1, <2>2 DEF AgentEnd, BestEffort
<1>9. CASE RecordApproval(s)
  <2>1. CASE RequestApproval(task[s])
    BY <1>2, <1>9, <2>1 DEF RecordApproval, RequestApproval
  <2>2. CASE UNCHANGED storeVars
    BY <1>2, <1>9, <2>2 DEF RecordApproval, storeVars
  <2> QED
    BY <1>9, <2>1, <2>2 DEF RecordApproval, BestEffort
<1>10. CASE LoopContinues(s)
  BY <1>2, <1>10 DEF LoopContinues, CreateJob, NextId
<1>11. CASE Register(s) \/ Started(s) \/ Jam(s) \/ Ready(s)
  BY <1>2, <1>11 DEF Register, Started, Jam, Ready, storeVars
<1>12. CASE Notify(s) \/ LoopEnds(s) \/ Unregister(s) \/ Release(s)
  BY <1>2, <1>12 DEF Notify, LoopEnds, Unregister, Release, storeVars
<1> QED
  BY <1>4, <1>5, <1>6, <1>7, <1>8, <1>9, <1>10, <1>11, <1>12 DEF Advance, Await

LEMMA OwnershipStep == TypeInv /\ Ownership /\ [Next]_vars => Ownership'
<1> SUFFICES ASSUME TypeInv, Ownership, [Next]_vars PROVE Ownership'
  OBVIOUS
<1> USE DEF TypeInv, TypeOK, StoreTypeOK, Ownership, Quiet, RowsExist, SingleOwner,
            OwningPCs, InFlightStatuses
<1>1. ASSUME NEW t \in Threads, Enqueue(t) PROVE Ownership'
  BY <1>1 DEF Enqueue, CreateJob, NextId, poolVars, Tasked
<1>2. ASSUME NEW j \in JobIds, ClockTick(j) \/ Resolve(j) PROVE Ownership'
  BY <1>2 DEF ClockTick, Resolve, BackoffElapses, ResolveApproval, poolVars
<1>3. CASE StartDaemon
  <2>1. CASE ResetStuckRunning
    BY <1>3, <2>1 DEF StartDaemon, ResetStuckRunning
  <2>2. CASE UNCHANGED storeVars
    BY <1>3, <2>2 DEF StartDaemon, storeVars
  <2> QED
    BY <1>3, <2>1, <2>2 DEF StartDaemon, BestEffort
<1>4. CASE Sigterm \/ StopReturns \/ Crash
  <2>1. CASE Sigterm
    BY <1>4, <2>1 DEF Sigterm, storeVars
  <2>2. CASE StopReturns
    BY <1>4, <2>2 DEF StopReturns, storeVars
  <2>3. CASE Crash
    BY <1>4, <2>3 DEF Crash, storeVars
  <2> QED
    BY <1>4, <2>1, <2>2, <2>3
<1>5. ASSUME NEW j \in JobIds, Claim(j) PROVE Ownership'
  BY <1>5 DEF Claim, ClaimNextJob, Claimable, Tasked
<1>6. ASSUME NEW s \in Slots, Dispatch(s) PROVE Ownership'
  BY <1>6 DEF Dispatch, storeVars
<1>7. CASE RequeueClaimed
  <2>1. CASE Requeue(claimed)
    BY <1>7, <2>1 DEF RequeueClaimed, Requeue
  <2>2. CASE UNCHANGED storeVars
    BY <1>7, <2>2 DEF RequeueClaimed, storeVars
  <2> QED
    BY <1>7, <2>1, <2>2 DEF RequeueClaimed
<1>8. CASE DispatcherExits
  BY <1>8 DEF DispatcherExits, storeVars
<1>9. ASSUME NEW s \in Slots, Advance(s) \/ Await(s) PROVE Ownership'
  BY <1>9, OwnershipSlotStep
<1>10. CASE UNCHANGED vars
  BY <1>10 DEF vars, storeVars, poolVars
<1> QED
  BY <1>1, <1>2, <1>3, <1>4, <1>5, <1>6, <1>7, <1>8, <1>9, <1>10 DEF Next, Clients, Dispatcher

\* A job has at most one owner, and the owner finds its row in flight,
\* whatever retries, recoveries, crashes and late claims come between.
THEOREM OwnerUnique == Spec => []SingleOwner
<1>1. Init => TypeInv
  BY TypeInit DEF Init, TypeInv, Tasked
<1> QED
  BY <1>1, TypeStep, OwnershipInit, OwnershipStep, PTL DEF Spec, Ownership

-----------------------------------------------------------------------------
(* Finality.                                                               *)

\* A failing or finishing goroutine writes the row it owns, which is in flight.
LEMMA FinalSlotStep ==
    ASSUME TypeInv, Ownership, NEW s \in Slots, Advance(s) \/ Await(s),
           NEW j \in JobIds, status[j] \in TerminalStatuses
    PROVE  status'[j] = status[j]
<1> USE DEF TypeInv, TypeOK, StoreTypeOK, Ownership, SingleOwner, OwningPCs,
            InFlightStatuses, TerminalStatuses, Goto
<1>1. ASSUME NEW from \in OwningPCs, NEW dead, NEW done, GiveUp(s, from, dead, done)
      PROVE  status'[j] = status[j]
  BY <1>1 DEF GiveUp, DeadLetter, RetryLater, storeVars
<1>2. CASE ThreadLookupFails(s) \/ StartFails(s) \/ SendFails(s) \/ ReadyFails(s) \/ TurnFails(s)
  BY <1>1, <1>2 DEF ThreadLookupFails, StartFails, SendFails, ReadyFails, TurnFails
<1>3. CASE SendTurn(s) \/ AgentStart(s) \/ RiskyToolCall(s) \/ AgentEnd(s) \/ RecordApproval(s)
  BY <1>3 DEF SendTurn, AgentStart, RiskyToolCall, AgentEnd, RecordApproval, BestEffort,
              CompleteJob, SetStatus, RequestApproval, storeVars
<1>4. CASE LoopContinues(s)
  BY <1>4 DEF LoopContinues, CreateJob, NextId
<1>5. CASE \/ Register(s) \/ Started(s) \/ Jam(s) \/ Notify(s) \/ LoopEnds(s) \/ Unregister(s)
           \/ Release(s) \/ Ready(s)
  BY <1>5 DEF Register, Started, Jam, Notify, LoopEnds, Unregister, Release, Ready, storeVars
<1> QED
  BY <1>2, <1>3, <1>4, <1>5 DEF Advance, Await

LEMMA FinalStep ==
    ASSUME TypeInv, Ownership, [Next]_vars,
           NEW j \in JobIds, status[j] \in TerminalStatuses
    PROVE  status'[j] = status[j]
<1> USE DEF TypeInv, TypeOK, StoreTypeOK, TerminalStatuses
<1>1. CASE Clients
  BY <1>1 DEF Clients, Enqueue, ClockTick, Resolve, CreateJob, NextId, BackoffElapses,
              ResolveApproval
<1>2. CASE StartDaemon
  BY <1>2 DEF StartDaemon, BestEffort, ResetStuckRunning, storeVars
<1>3. CASE Sigterm \/ StopReturns \/ Crash \/ DispatcherExits \/ \E s \in Slots : Dispatch(s)
  BY <1>3 DEF Sigterm, StopReturns, Crash, DispatcherExits, Dispatch, storeVars
<1>4. CASE \E i \in JobIds : Claim(i)
  BY <1>4 DEF Claim, ClaimNextJob, Claimable
<1>5. CASE RequeueClaimed
  BY <1>5 DEF RequeueClaimed, Requeue, storeVars, Ownership, SingleOwner
<1>6. ASSUME NEW s \in Slots, Advance(s) \/ Await(s) PROVE status'[j] = status[j]
  BY <1>6, FinalSlotStep
<1>7. CASE UNCHANGED vars
  BY <1>7 DEF vars, storeVars
<1> QED
  BY <1>1, <1>2, <1>3, <1>4, <1>5, <1>6, <1>7 DEF Next, Dispatcher

\* done and dead_letter are final, whatever late failure, recovery, claim or
\* crash follows.
THEOREM FinishedFinal == Spec => FinishedStaysFinished
<1>1. Init => TypeInv
  BY TypeInit DEF Init, TypeInv, Tasked
<1>2. TypeInv /\ Ownership /\ [Next]_vars
        => [\A j \in JobIds : status[j] \in TerminalStatuses => status'[j] = status[j]]_vars
  BY FinalStep
<1> QED
  BY <1>1, <1>2, TypeStep, OwnershipInit, OwnershipStep, PTL DEF Spec, FinishedStaysFinished

-----------------------------------------------------------------------------
(* Retry budget.  The claim does not look at max_attempts, so the budget   *)
(* rests on a stronger fact: a job that may be claimed again without       *)
(* passing FailJob has an attempt to spare, or a fault to blame.           *)

\* Queued, yet to be created, or for the next recovery to requeue.
Claimworthy(j) ==
    \/ status[j] \in {"absent", "queued"}
    \/ status[j] = "running" /\ ~Owned(j)

Budget ==
    \A j \in JobIds :
        /\ attempts[j] <= MaxAttempts + faults
        /\ Claimworthy(j) => attempts[j] < MaxAttempts + faults

LEMMA BudgetInit == Init => Budget
  BY MaxAttemptsAssumption DEF Init, StoreInit, Budget, Claimworthy

\* Ownership of the jobs of other goroutines does not change.
LEMMA OthersOwned ==
    ASSUME TypeInv, NEW s \in Slots, NEW j \in JobIds, j # task[s],
           UNCHANGED <<claimed, task>>, NEW to \in PCs, pc' = [pc EXCEPT ![s] = to]
    PROVE  Owned(j)' <=> Owned(j)
  BY DEF TypeInv, TypeOK, Owned, Owns

\* A goroutine that stays in its turn keeps its job.
LEMMA StaysOwned ==
    ASSUME TypeInv, NEW s \in Slots, NEW from \in OwningPCs, NEW to \in OwningPCs,
           Goto(s, from, to), UNCHANGED <<claimed, task>>, NEW j \in JobIds
    PROVE  Owned(j)' <=> Owned(j)
  BY DEF TypeInv, TypeOK, Goto, Owned, Owns

LEMMA BudgetSlotStep ==
    ASSUME TypeInv, Ownership, Budget, NEW s \in Slots, Advance(s) \/ Await(s)
    PROVE  Budget'
<1> SUFFICES ASSUME NEW j \in JobIds
             PROVE  /\ attempts'[j] <= MaxAttempts + faults'
                    /\ Claimworthy(j)' => attempts'[j] < MaxAttempts + faults'
  BY DEF Budget
<1>1. pc[s] # "idle"
  BY DEF Advance, Await, ThreadLookupFails, StartFails, SendFails, ReadyFails, TurnFails,
         GiveUp, Register, Started, Jam, SendTurn, RecordApproval, Notify, LoopEnds,
         LoopContinues, Unregister, Release, Ready, AgentStart, RiskyToolCall, AgentEnd, Goto
<1>2. /\ task[s] \in JobIds
      /\ attempts[j] \in Nat /\ MaxAttempts \in Nat /\ faults \in Nat
      /\ attempts[j] <= MaxAttempts + faults
      /\ Claimworthy(j) => attempts[j] < MaxAttempts + faults
  BY <1>1, MaxAttemptsAssumption DEF TypeInv, TypeOK, StoreTypeOK, Tasked, Budget
<1>3. attempts'[j] = attempts[j]
  BY DEF Advance, Await, ThreadLookupFails, StartFails, SendFails, ReadyFails, TurnFails,
         GiveUp, Register, Started, Jam, SendTurn, RecordApproval, Notify, LoopEnds,
         LoopContinues, Unregister, Release, Ready, AgentStart, RiskyToolCall, AgentEnd,
         DeadLetter, RetryLater, BestEffort, SetStatus, CompleteJob, RequestApproval,
         CreateJob, storeVars
<1>4. faults' = faults \/ faults' = faults + 1
  BY DEF Advance, Await, ThreadLookupFails, StartFails, SendFails, ReadyFails, TurnFails,
         GiveUp, Register, Started, Jam, SendTurn, RecordApproval, Notify, LoopEnds,
         LoopContinues, Unregister, Release, Ready, AgentStart, RiskyToolCall, AgentEnd,
         BestEffort
<1>5. CASE faults' = faults + 1
  BY <1>2, <1>3, <1>5
<1>6. SUFFICES ASSUME faults' = faults, Claimworthy(j)'
               PROVE  attempts[j] < MaxAttempts + faults
  BY <1>2, <1>3, <1>4, <1>5
<1>7. SUFFICES ASSUME ~Claimworthy(j) PROVE attempts[j] < MaxAttempts + faults
  BY <1>2
<1> USE DEF TypeInv, TypeOK, StoreTypeOK, Goto
<1>8. ASSUME NEW from \in OwningPCs, NEW dead \in PCs \ OwningPCs, NEW done \in PCs \ OwningPCs,
             GiveUp(s, from, dead, done), UNCHANGED <<poolRest, inflight>>
      PROVE  attempts[j] < MaxAttempts + faults
  <2>1. CASE j # task[s]
    <3>1. Owned(j)' <=> Owned(j)
      BY <1>2, <1>8, <2>1, OthersOwned DEF GiveUp, poolRest
    <3>2. status'[j] = status[j]
      BY <1>2, <1>8, <2>1 DEF GiveUp, DeadLetter, RetryLater, storeVars
    <3> QED
      BY <1>6, <1>7, <3>1, <3>2 DEF Claimworthy
  <2>2. CASE j = task[s]
    <3>1. CASE DeadLetter(task[s])
      BY <1>2, <1>6, <2>2, <3>1 DEF DeadLetter, Claimworthy
    <3>2. CASE RetryLater(task[s])
      BY <1>2, <2>2, <3>2, MaxAttemptsAssumption DEF RetryLater, Exhausted
    <3> QED
      BY <1>2, <1>6, <1>8, <3>1, <3>2 DEF GiveUp
  <2> QED
    BY <2>1, <2>2
<1>9. CASE ThreadLookupFails(s) \/ StartFails(s) \/ SendFails(s) \/ ReadyFails(s) \/ TurnFails(s)
  BY <1>8, <1>9 DEF ThreadLookupFails, StartFails, SendFails, ReadyFails, TurnFails,
                    OwningPCs, PCs
<1>10. CASE SendTurn(s) \/ AgentStart(s) \/ RiskyToolCall(s) \/ RecordApproval(s)
  <2>1. Owned(j)' <=> Owned(j)
    BY <1>10, StaysOwned DEF SendTurn, AgentStart, RiskyToolCall, RecordApproval, OwningPCs,
                             poolRest
  <2>2. j # task[s] => status'[j] = status[j]
    BY <1>2, <1>10 DEF SendTurn, AgentStart, RiskyToolCall, RecordApproval, BestEffort,
                       SetStatus, RequestApproval, storeVars
  <2>3. j = task[s] => Owned(j) /\ status'[j] \in InFlightStatuses
    BY <1>2, <1>10 DEF SendTurn, AgentStart, RiskyToolCall, RecordApproval, BestEffort,
                       SetStatus, RequestApproval, storeVars, Owned, Owns, OwningPCs,
                       InFlightStatuses, Ownership, SingleOwner
  <2> QED
    BY <1>6, <1>7, <2>1, <2>2, <2>3 DEF Claimworthy, InFlightStatuses
<1>11. CASE AgentEnd(s)
  <2>1. CompleteJob(task[s])
    BY <1>2, <1>6, <1>11 DEF AgentEnd, BestEffort
  <2>2. j = task[s] => status'[j] = "done"
    BY <2>1 DEF CompleteJob, SetStatus
  <2>3. j # task[s] => (Owned(j)' <=> Owned(j)) /\ status'[j] = status[j]
    <3>1. j # task[s] => status'[j] = status[j]
      BY <1>2, <2>1 DEF CompleteJob, SetStatus
    <3>2. "loop" \in PCs /\ pc' = [pc EXCEPT ![s] = "loop"] /\ UNCHANGED <<claimed, task>>
      BY <1>11 DEF AgentEnd, PCs, poolRest
    <3> QED
      BY <3>1, <3>2, OthersOwned
  <2> QED
    BY <1>6, <1>7, <2>2, <2>3 DEF Claimworthy
<1>12. CASE Register(s) \/ Started(s) \/ Jam(s) \/ Ready(s)
  <2>1. Owned(j)' <=> Owned(j)
    BY <1>12, StaysOwned DEF Register, Started, Jam, Ready, OwningPCs, poolRest
  <2>2. status' = status
    BY <1>12 DEF Register, Started, Jam, Ready, storeVars
  <2> QED
    BY <1>6, <1>7, <2>1, <2>2 DEF Claimworthy
<1>13. CASE Notify(s) \/ LoopEnds(s) \/ LoopContinues(s) \/ Unregister(s) \/ Release(s)
  <2>1. Owned(j)' <=> Owned(j)
    BY <1>2, <1>13 DEF Notify, LoopEnds, LoopContinues, Unregister, Release, Owned, Owns,
                       OwningPCs, poolRest
  <2>2. status'[j] = status[j] \/ status[j] = "absent"
    BY <1>13 DEF Notify, LoopEnds, LoopContinues, Unregister, Release, CreateJob, NextId,
                 storeVars
  <2> QED
    BY <1>6, <1>7, <2>1, <2>2 DEF Claimworthy
<1> QED
  BY <1>9, <1>10, <1>11, <1>12, <1>13 DEF Advance, Await

LEMMA BudgetStep == TypeInv /\ Ownership /\ Budget /\ [Next]_vars => Budget'
<1> SUFFICES ASSUME TypeInv, Ownership, Budget, [Next]_vars PROVE Budget'
  OBVIOUS
<1> USE MaxAttemptsAssumption DEF TypeInv, TypeOK, StoreTypeOK, Budget, Claimworthy, Owned, Owns
<1>1. CASE Clients
  BY <1>1 DEF Clients, Enqueue, ClockTick, Resolve, CreateJob, NextId, BackoffElapses,
              ResolveApproval, poolVars
<1>2. CASE StartDaemon
  <2>1. \A j \in JobIds : ~Owned(j)
    BY <1>2 DEF StartDaemon, Ownership, Quiet, OwningPCs, JobIds, NoJob
  <2>2. CASE ResetStuckRunning
    BY <1>2, <2>1, <2>2 DEF StartDaemon, BestEffort, ResetStuckRunning
  <2>3. CASE UNCHANGED storeVars
    BY <1>2, <2>3 DEF StartDaemon, BestEffort, storeVars
  <2> QED
    BY <1>2, <2>2, <2>3 DEF StartDaemon, BestEffort
<1>3. CASE Sigterm \/ StopReturns \/ DispatcherExits
  BY <1>3 DEF Sigterm, StopReturns, DispatcherExits, storeVars
<1>4. CASE Crash
  BY <1>4 DEF Crash, storeVars
<1>5. ASSUME NEW i \in JobIds, Claim(i) PROVE Budget'
  <2>1. status[i] = "queued" /\ claimed' = i /\ pc' = pc /\ task' = task /\ faults' = faults
    BY <1>5 DEF Claim, ClaimNextJob, Claimable
  <2>2. /\ status' = [status EXCEPT ![i] = "running"]
        /\ attempts' = [attempts EXCEPT ![i] = @ + 1]
    BY <1>5 DEF Claim, ClaimNextJob
  <2>3. attempts'[i] <= MaxAttempts + faults' /\ ~Claimworthy(i)'
    BY <2>1, <2>2
  <2>4. ASSUME NEW j \in JobIds, j # i
        PROVE  attempts'[j] = attempts[j] /\ (Claimworthy(j)' => Claimworthy(j))
    <3>1. status'[j] = status[j] /\ attempts'[j] = attempts[j]
      BY <2>2, <2>4
    <3>2. claimed = NoJob
      BY <1>5 DEF Claim
    <3>3. Owned(j) => Owned(j)'
      BY <2>1, <3>2, JobIdsAreNats
    <3> QED
      BY <3>1, <3>3
  <2> QED
    BY <2>1, <2>3, <2>4
<1>6. ASSUME NEW s \in Slots, Dispatch(s) PROVE Budget'
  BY <1>6 DEF Dispatch, storeVars, OwningPCs
<1>7. CASE RequeueClaimed
  BY <1>7 DEF RequeueClaimed, Requeue, storeVars
<1>8. ASSUME NEW s \in Slots, Advance(s) \/ Await(s) PROVE Budget'
  BY <1>8, BudgetSlotStep
<1>9. CASE UNCHANGED vars
  BY <1>9 DEF vars, storeVars, poolVars
<1> QED
  BY <1>1, <1>2, <1>3, <1>4, <1>5, <1>6, <1>7, <1>8, <1>9 DEF Next, Dispatcher

\* A job is attempted at most max_attempts times, plus once for each fault
\* that cut an attempt short.
THEOREM BudgetKept == Spec => []RetryBudget
<1>1. Init => TypeInv
  BY TypeInit DEF Init, TypeInv, Tasked
<1>2. Budget => RetryBudget
  BY DEF Budget, RetryBudget
<1> QED
  BY <1>1, <1>2, TypeStep, OwnershipInit, OwnershipStep, BudgetInit, BudgetStep, PTL DEF Spec

-----------------------------------------------------------------------------
(* Dead letters.                                                           *)

LEMMA DeadLetterInit == Init => DeadLetterOnce
  BY DEF Init, StoreInit, DeadLetterOnce

LEMMA DeadLetterSlotStep ==
    ASSUME TypeInv, Ownership, DeadLetterOnce, NEW s \in Slots, Advance(s) \/ Await(s)
    PROVE  DeadLetterOnce'
<1>1. pc[s] # "idle"
  BY DEF Advance, Await, ThreadLookupFails, StartFails, SendFails, ReadyFails, TurnFails,
         GiveUp, Register, Started, Jam, SendTurn, RecordApproval, Notify, LoopEnds,
         LoopContinues, Unregister, Release, Ready, AgentStart, RiskyToolCall, AgentEnd, Goto
<1>2. task[s] \in JobIds
  BY <1>1 DEF TypeInv, TypeOK, Tasked
<1> USE DEF TypeInv, TypeOK, StoreTypeOK, Goto, DeadLetterOnce, Exhausted
<1>3. pc[s] \in OwningPCs => status[task[s]] \in InFlightStatuses
  BY DEF Ownership, SingleOwner
<1>4. ASSUME NEW from \in OwningPCs, NEW dead, NEW done,
             GiveUp(s, from, dead, done), UNCHANGED <<poolRest, inflight>>
      PROVE  DeadLetterOnce'
  <2>1. status[task[s]] \in InFlightStatuses /\ notified' = notified
    BY <1>3, <1>4 DEF GiveUp, poolRest
  <2>2. CASE DeadLetter(task[s])
    BY <1>2, <2>1, <2>2 DEF DeadLetter, InFlightStatuses
  <2>3. CASE RetryLater(task[s])
    BY <1>2, <2>1, <2>3 DEF RetryLater, InFlightStatuses
  <2>4. CASE UNCHANGED storeVars
    BY <2>1, <2>4 DEF storeVars
  <2> QED
    BY <1>4, <2>2, <2>3, <2>4 DEF GiveUp
<1>5. CASE ThreadLookupFails(s) \/ StartFails(s) \/ SendFails(s) \/ ReadyFails(s) \/ TurnFails(s)
  BY <1>4, <1>5 DEF ThreadLookupFails, StartFails, SendFails, ReadyFails, TurnFails, OwningPCs
<1>6. ASSUME NEW st \in InFlightStatuses \union {"done"},
             SetStatus(task[s], st) \/ UNCHANGED storeVars,
             pc[s] \in OwningPCs, notified' = notified
      PROVE  DeadLetterOnce'
  <2>1. CASE SetStatus(task[s], st)
    BY <1>2, <1>3, <1>6, <2>1 DEF SetStatus, InFlightStatuses
  <2>2. CASE UNCHANGED storeVars
    BY <1>6, <2>2 DEF storeVars
  <2> QED
    BY <1>6, <2>1, <2>2
<1>7. CASE SendTurn(s) \/ AgentStart(s) \/ RiskyToolCall(s) \/ AgentEnd(s)
  BY <1>6, <1>7 DEF SendTurn, AgentStart, RiskyToolCall, AgentEnd, BestEffort, CompleteJob,
                    OwningPCs, InFlightStatuses, poolRest
<1>8. CASE RecordApproval(s)
  BY <1>8 DEF RecordApproval, BestEffort, RequestApproval, storeVars, poolRest
<1>9. CASE LoopContinues(s)
  BY <1>9 DEF LoopContinues, CreateJob, NextId, poolRest
<1>10. CASE Notify(s)
  BY <1>2, <1>10 DEF Notify, storeVars, Ownership, RowsExist
<1>11. CASE Register(s) \/ Started(s) \/ Jam(s) \/ LoopEnds(s) \/ Unregister(s) \/ Release(s) \/ Ready(s)
  BY <1>11 DEF Register, Started, Jam, LoopEnds, Unregister, Release, Ready, storeVars, poolRest
<1> QED
  BY <1>5, <1>7, <1>8, <1>9, <1>10, <1>11 DEF Advance, Await

LEMMA DeadLetterStep == TypeInv /\ Ownership /\ DeadLetterOnce /\ [Next]_vars => DeadLetterOnce'
<1> SUFFICES ASSUME TypeInv, Ownership, DeadLetterOnce, [Next]_vars PROVE DeadLetterOnce'
  OBVIOUS
<1> USE DEF TypeInv, TypeOK, StoreTypeOK, DeadLetterOnce, Exhausted
<1>1. CASE Clients
  BY <1>1 DEF Clients, Enqueue, ClockTick, Resolve, CreateJob, NextId, BackoffElapses,
              ResolveApproval, poolVars
<1>2. CASE StartDaemon
  BY <1>2 DEF StartDaemon, BestEffort, ResetStuckRunning, storeVars
<1>3. CASE Sigterm \/ StopReturns \/ Crash \/ DispatcherExits \/ \E s \in Slots : Dispatch(s)
  BY <1>3 DEF Sigterm, StopReturns, Crash, DispatcherExits, Dispatch, storeVars
<1>4. ASSUME NEW i \in JobIds, Claim(i) PROVE DeadLetterOnce'
  <2>1. status[i] = "queued"
    BY <1>4 DEF Claim, ClaimNextJob, Claimable
  <2>2. /\ status' = [status EXCEPT ![i] = "running"]
        /\ attempts' = [attempts EXCEPT ![i] = @ + 1]
        /\ deadLetters' = deadLetters /\ notified' = notified
    BY <1>4 DEF Claim, ClaimNextJob
  <2> QED
    BY <2>1, <2>2
<1>5. CASE RequeueClaimed
  <2>1. status[claimed] = "running" /\ claimed \in JobIds /\ notified' = notified
    BY <1>5 DEF RequeueClaimed, Ownership, SingleOwner
  <2> QED
    BY <1>5, <2>1 DEF RequeueClaimed, Requeue, storeVars
<1>6. ASSUME NEW s \in Slots, Advance(s) \/ Await(s) PROVE DeadLetterOnce'
  BY <1>6, DeadLetterSlotStep
<1>7. CASE UNCHANGED vars
  BY <1>7 DEF vars, storeVars, poolVars
<1> QED
  BY <1>1, <1>2, <1>3, <1>4, <1>5, <1>6, <1>7 DEF Next, Dispatcher

\* A job has one dead_letters row if it is dead and none otherwise; it is dead
\* only with its attempts used up, and announced only when dead.
THEOREM DeadLettersExact == Spec => []DeadLetterOnce
<1>1. Init => TypeInv
  BY TypeInit DEF Init, TypeInv, Tasked
<1> QED
  BY <1>1, TypeStep, OwnershipInit, OwnershipStep, DeadLetterInit, DeadLetterStep, PTL DEF Spec

-----------------------------------------------------------------------------
(* The in-flight map.                                                      *)

LEMMA InflightInit == Init => InflightIsLive
  BY DEF Init, InflightIsLive

\* A goroutine's thread never changes: only rows that do not exist get one.
LEMMA ThreadStable ==
    ASSUME TypeInv, Ownership, [Next]_vars, NEW s \in Slots, pc[s] # "idle"
    PROVE  thread'[task[s]] = thread[task[s]]
<1>1. task[s] \in JobIds /\ status[task[s]] # "absent"
  BY DEF TypeInv, Tasked, Ownership, RowsExist
<1>2. thread' = thread \/ \E t \in Threads \union {NoThread} : CreateJob(t)
  <2>1. CASE \E t \in Threads : Enqueue(t)
    BY <2>1 DEF Enqueue
  <2>2. CASE \E r \in Slots : LoopContinues(r)
    BY <2>2 DEF LoopContinues, TypeInv, TypeOK, StoreTypeOK, Tasked, Goto
  <2> QED
    BY <2>1, <2>2
       DEF Next, Clients, ClockTick, Resolve, StartDaemon, Sigterm, StopReturns, Crash,
           Dispatcher, Claim, Dispatch, RequeueClaimed, DispatcherExits, Advance, Await,
           ThreadLookupFails, StartFails, SendFails, ReadyFails, TurnFails, GiveUp, Register,
           Started, Jam, SendTurn, RecordApproval, Notify, LoopEnds, Unregister, Release, Ready,
           AgentStart, RiskyToolCall, AgentEnd, BestEffort, ClaimNextJob, BackoffElapses,
           SetStatus, CompleteJob, DeadLetter, RetryLater, Requeue, ResetStuckRunning,
           RequestApproval, ResolveApproval, storeVars, vars
<1> QED
  BY <1>1, <1>2 DEF CreateJob, NextId, TypeInv, TypeOK, StoreTypeOK

\* Goroutine s keeps the entry of thread t alive.
Keeps(s, t) ==
    /\ pc[s] \in RegisteredPCs
    /\ task[s] = inflight[t]
    /\ thread[task[s]] = t

LEMMA InflightSlotStep ==
    ASSUME TypeInv, Ownership, InflightIsLive, NEW s \in Slots, Advance(s) \/ Await(s)
    PROVE  InflightIsLive'
<1> SUFFICES ASSUME NEW t \in Threads, inflight'[t] # NoJob
             PROVE  \E r \in Slots : Keeps(r, t)'
  BY DEF InflightIsLive, Keeps
<1>1. \A r \in Slots : pc[r] # "idle" => thread'[task[r]] = thread[task[r]]
  BY ThreadStable DEF Next
<1> USE DEF TypeInv, TypeOK, Goto, RegisteredPCs, Keeps
<1>2. ASSUME inflight' = inflight, task' = task,
             NEW to, pc' = [pc EXCEPT ![s] = to],
             pc[s] \in RegisteredPCs => to \in RegisteredPCs
      PROVE  \E r \in Slots : Keeps(r, t)'
  <2>1. PICK r \in Slots : Keeps(r, t)
    BY <1>2 DEF InflightIsLive
  <2>2. thread'[task[r]] = t
    BY <1>1, <2>1
  <2> QED
    BY <1>2, <2>1, <2>2
<1>3. CASE \/ ThreadLookupFails(s) \/ StartFails(s) \/ SendFails(s) \/ ReadyFails(s)
           \/ TurnFails(s)
  <2>1. CASE ThreadLookupFails(s)
    BY <1>2, <2>1 DEF ThreadLookupFails, GiveUp, poolRest
  <2>2. CASE StartFails(s) \/ SendFails(s) \/ ReadyFails(s)
    BY <1>2, <2>2 DEF StartFails, SendFails, ReadyFails, GiveUp, poolRest
  <2>3. CASE TurnFails(s)
    BY <1>2, <2>3 DEF TurnFails, GiveUp, poolRest
  <2> QED
    BY <1>3, <2>1, <2>2, <2>3
<1>4. CASE \/ Started(s) \/ Jam(s) \/ Ready(s) \/ SendTurn(s) \/ AgentStart(s) \/ RiskyToolCall(s)
           \/ RecordApproval(s) \/ AgentEnd(s)
  BY <1>2, <1>4 DEF Started, Jam, Ready, SendTurn, AgentStart, RiskyToolCall, RecordApproval,
                    AgentEnd, poolRest
<1>5. CASE Notify(s) \/ LoopEnds(s) \/ LoopContinues(s)
  BY <1>2, <1>5 DEF Notify, LoopEnds, LoopContinues, poolRest
<1>6. CASE Register(s)
  <2>1. CASE t = thread[task[s]]
    BY <1>1, <1>6, <2>1 DEF Register, poolRest
  <2>2. CASE t # thread[task[s]]
    <3>1. inflight'[t] = inflight[t]
      BY <1>6, <2>2 DEF Register
    <3>2. PICK r \in Slots : Keeps(r, t)
      BY <3>1 DEF InflightIsLive
    <3> QED
      BY <1>1, <1>6, <3>1, <3>2 DEF Register, poolRest
  <2> QED
    BY <2>1, <2>2
<1>7. CASE Unregister(s)
  <2>1. t # thread[task[s]] /\ inflight'[t] = inflight[t]
    BY <1>7 DEF Unregister
  <2>2. PICK r \in Slots : Keeps(r, t)
    BY <2>1 DEF InflightIsLive
  <2>3. r # s
    BY <2>1, <2>2
  <2> QED
    BY <1>1, <1>7, <2>1, <2>2, <2>3 DEF Unregister, poolRest
<1>8. CASE Release(s)
  <2>1. PICK r \in Slots : Keeps(r, t)
    BY <1>8 DEF Release, InflightIsLive
  <2>2. r # s
    BY <1>8, <2>1 DEF Release
  <2> QED
    BY <1>1, <1>8, <2>1, <2>2 DEF Release
<1> QED
  BY <1>3, <1>4, <1>5, <1>6, <1>7, <1>8 DEF Advance, Await

LEMMA InflightStep ==
    TypeInv /\ Ownership /\ InflightIsLive /\ [Next]_vars => InflightIsLive'
<1> SUFFICES ASSUME TypeInv, Ownership, InflightIsLive, [Next]_vars PROVE InflightIsLive'
  OBVIOUS
<1>1. ASSUME inflight' = inflight,
             \A s \in Slots : pc[s] \in RegisteredPCs => pc'[s] = pc[s] /\ task'[s] = task[s]
      PROVE  InflightIsLive'
  <2> SUFFICES ASSUME NEW t \in Threads, inflight[t] # NoJob
               PROVE  \E r \in Slots : Keeps(r, t)'
    BY <1>1 DEF InflightIsLive, Keeps
  <2>1. PICK r \in Slots : Keeps(r, t)
    BY DEF InflightIsLive, Keeps
  <2>2. thread'[task[r]] = t
    BY <2>1, ThreadStable DEF Keeps, RegisteredPCs
  <2> QED
    BY <1>1, <2>1, <2>2 DEF Keeps
<1>2. CASE Clients \/ StartDaemon \/ Sigterm \/ StopReturns
  BY <1>1, <1>2 DEF Clients, Enqueue, ClockTick, Resolve, StartDaemon, Sigterm, StopReturns,
                    poolVars
<1>3. CASE Crash
  BY <1>3 DEF Crash, InflightIsLive
<1>4. CASE RequeueClaimed \/ DispatcherExits \/ \E j \in JobIds : Claim(j)
  BY <1>1, <1>4 DEF RequeueClaimed, DispatcherExits, Claim
<1>5. ASSUME NEW s \in Slots, Dispatch(s) PROVE InflightIsLive'
  BY <1>1, <1>5 DEF Dispatch, RegisteredPCs, TypeInv, TypeOK
<1>6. ASSUME NEW s \in Slots, Advance(s) \/ Await(s) PROVE InflightIsLive'
  BY <1>6, InflightSlotStep
<1>7. CASE UNCHANGED vars
  BY <1>1, <1>7 DEF vars, poolVars
<1> QED
  BY <1>2, <1>3, <1>4, <1>5, <1>6, <1>7 DEF Next, Dispatcher

\* Pool.inflight never names a job no goroutine is working on.
THEOREM InflightLive == Spec => []InflightIsLive
<1>1. Init => TypeInv
  BY TypeInit DEF Init, TypeInv, Tasked
<1> QED
  BY <1>1, TypeStep, OwnershipInit, OwnershipStep, InflightInit, InflightStep, PTL DEF Spec

-----------------------------------------------------------------------------
(* Order of first turns.                                                   *)

\* Ids are handed out without gaps; a row that was never attempted is absent or
\* queued and has no next_run_at.
Rows ==
    /\ \A i, j \in JobIds : i < j /\ status[j] # "absent" => status[i] # "absent"
    /\ \A j \in JobIds : attempts[j] = 0 =>
          status[j] \in {"absent", "queued"} /\ nextRun[j] = "null"
    /\ \A j \in JobIds : attempts[j] > 0 => status[j] # "absent"

InOrder == Rows /\ FirstTurnsInOrder

LEMMA InOrderInit == Init => InOrder
  BY DEF Init, StoreInit, InOrder, Rows, FirstTurnsInOrder

\* What store steps other than inserting and claiming may do to the columns:
\* touch a row that exists and was attempted, and not its thread or attempts.
Touch ==
    /\ thread' = thread
    /\ attempts' = attempts
    /\ \A j \in JobIds :
          \/ status'[j] = status[j] /\ nextRun'[j] = nextRun[j]
          \/ attempts[j] > 0 /\ status'[j] # "absent"
          \/ status'[j] = status[j] /\ nextRun[j] # "null"

LEMMA TouchInOrder == TypeInv /\ InOrder /\ Touch => InOrder'
<1> SUFFICES ASSUME TypeInv, InOrder, Touch PROVE InOrder'
  OBVIOUS
<1> USE DEF TypeInv, TypeOK, StoreTypeOK
<1>1. \A j \in JobIds : status'[j] = "absent" <=> status[j] = "absent"
  BY DEF Touch, InOrder, Rows
<1>2. \A i, j \in JobIds : i < j /\ status'[j] # "absent" => status'[i] # "absent"
  BY <1>1 DEF InOrder, Rows
<1>3. \A j \in JobIds : attempts'[j] = 0 =>
          status'[j] \in {"absent", "queued"} /\ nextRun'[j] = "null"
  BY DEF Touch, InOrder, Rows
<1>4. \A j \in JobIds : attempts'[j] > 0 => status'[j] # "absent"
  BY <1>1 DEF Touch, InOrder, Rows
<1>5. FirstTurnsInOrder'
  BY DEF Touch, InOrder, FirstTurnsInOrder
<1> QED
  BY <1>2, <1>3, <1>4, <1>5 DEF InOrder, Rows

LEMMA CreateInOrder ==
    ASSUME TypeInv, InOrder, NEW t \in Threads \union {NoThread}, CreateJob(t)
    PROVE  InOrder'
<1>1. PICK n \in JobIds : /\ NextId(n)
                          /\ status' = [status EXCEPT ![n] = "queued"]
                          /\ thread' = [thread EXCEPT ![n] = t]
                          /\ attempts' = attempts /\ nextRun' = nextRun
  BY DEF CreateJob
<1> USE DEF TypeInv, TypeOK, StoreTypeOK
<1>2. attempts[n] = 0
  BY <1>1 DEF NextId, InOrder, Rows
<1>3. ASSUME NEW i \in JobIds, NEW j \in JobIds, i < j, status'[j] # "absent"
      PROVE  status'[i] # "absent"
  BY <1>1, <1>3 DEF NextId, InOrder, Rows
<1>4. Rows'
  BY <1>1, <1>2, <1>3 DEF InOrder, Rows
<1>5. ASSUME NEW i \in JobIds, NEW j \in JobIds,
             i < j, attempts'[j] > 0, thread'[i] = thread'[j]
      PROVE  attempts'[i] > 0
  <2>1. attempts[j] > 0 /\ j # n
    BY <1>1, <1>2, <1>5
  <2>2. status[j] # "absent"
    BY <2>1 DEF InOrder, Rows
  <2>3. i # n
    BY <1>1, <1>5, <2>2 DEF NextId, InOrder, Rows
  <2>4. thread[i] = thread[j]
    BY <1>1, <1>5, <2>1, <2>3
  <2> QED
    BY <1>1, <1>5, <2>1, <2>4 DEF InOrder, FirstTurnsInOrder
<1> QED
  BY <1>4, <1>5 DEF InOrder, FirstTurnsInOrder

\* The claim takes an earlier untried job of the thread first.
LEMMA ClaimInOrder ==
    ASSUME TypeInv, InOrder, NEW n \in JobIds, ClaimNextJob(n)
    PROVE  InOrder'
<1> USE DEF TypeInv, TypeOK, StoreTypeOK
<1>1. /\ status[n] = "queued" /\ Claimable(n)
      /\ \A i \in JobIds : Claimable(i) => ~SortsBefore(i, n)
      /\ status' = [status EXCEPT ![n] = "running"]
      /\ attempts' = [attempts EXCEPT ![n] = @ + 1]
      /\ thread' = thread /\ nextRun' = nextRun
  BY DEF ClaimNextJob, Claimable
<1>2. Rows'
  <2>1. \A i, j \in JobIds : i < j /\ status'[j] # "absent" => status'[i] # "absent"
    BY <1>1 DEF InOrder, Rows
  <2>2. attempts'[n] > 0
    BY <1>1
  <2>3. \A j \in JobIds \ {n} :
           status'[j] = status[j] /\ attempts'[j] = attempts[j] /\ nextRun'[j] = nextRun[j]
    BY <1>1
  <2>4. status'[n] # "absent"
    BY <1>1
  <2> QED
    BY <2>1, <2>2, <2>3, <2>4 DEF InOrder, Rows
<1>3. ASSUME NEW i \in JobIds, i < n, thread[i] = thread[n], attempts[i] = 0
      PROVE  FALSE
  <2>1. CASE attempts[n] > 0
    BY <1>3, <2>1 DEF InOrder, FirstTurnsInOrder
  <2>2. CASE attempts[n] = 0
    <3>1. nextRun[n] = "null" /\ nextRun[i] = "null" /\ status[i] = "queued"
      BY <1>1, <1>3, <2>2 DEF InOrder, Rows
    <3>2. Claimable(i)
      BY <1>1, <1>3, <3>1 DEF Claimable
    <3>3. SortsBefore(i, n)
      BY <1>3, <3>1 DEF SortsBefore
    <3> QED
      BY <1>1, <3>2, <3>3
  <2> QED
    BY <2>1, <2>2
<1>4. ASSUME NEW i \in JobIds, NEW j \in JobIds,
             i < j, attempts'[j] > 0, thread'[i] = thread'[j]
      PROVE  attempts'[i] > 0
  <2>1. CASE i = n
    BY <1>1, <2>1
  <2>2. CASE i # n /\ j = n
    BY <1>1, <1>3, <1>4, <2>2
  <2>3. CASE i # n /\ j # n
    BY <1>1, <1>4, <2>3 DEF InOrder, FirstTurnsInOrder
  <2> QED
    BY <2>1, <2>2, <2>3
<1> QED
  BY <1>2, <1>4 DEF InOrder, FirstTurnsInOrder

LEMMA InOrderSlotStep ==
    ASSUME TypeInv, Ownership, InOrder, NEW s \in Slots, Advance(s) \/ Await(s)
    PROVE  InOrder'
<1>1. pc[s] # "idle"
  BY DEF Advance, Await, ThreadLookupFails, StartFails, SendFails, ReadyFails, TurnFails,
         GiveUp, Register, Started, Jam, SendTurn, RecordApproval, Notify, LoopEnds,
         LoopContinues, Unregister, Release, Ready, AgentStart, RiskyToolCall, AgentEnd, Goto
<1>2. task[s] \in JobIds
  BY <1>1 DEF TypeInv, Tasked
<1> USE DEF TypeInv, TypeOK, StoreTypeOK, Goto
<1>3. pc[s] \in OwningPCs => attempts[task[s]] > 0
  BY <1>2 DEF Ownership, SingleOwner, InFlightStatuses, InOrder, Rows
<1>4. ASSUME NEW from \in OwningPCs, NEW dead, NEW done, GiveUp(s, from, dead, done)
      PROVE  Touch
  BY <1>2, <1>3, <1>4 DEF GiveUp, DeadLetter, RetryLater, storeVars, Touch
<1>5. CASE ThreadLookupFails(s) \/ StartFails(s) \/ SendFails(s) \/ ReadyFails(s) \/ TurnFails(s)
  BY <1>4, <1>5, TouchInOrder
     DEF ThreadLookupFails, StartFails, SendFails, ReadyFails, TurnFails, OwningPCs
<1>6. CASE SendTurn(s) \/ AgentStart(s) \/ RiskyToolCall(s) \/ AgentEnd(s) \/ RecordApproval(s)
  <2>1. Touch
    BY <1>2, <1>3, <1>6 DEF SendTurn, AgentStart, RiskyToolCall, AgentEnd, RecordApproval,
                            BestEffort, CompleteJob, SetStatus, RequestApproval, storeVars,
                            OwningPCs, Touch
  <2> QED
    BY <2>1, TouchInOrder
<1>7. CASE LoopContinues(s)
  BY <1>2, <1>7, CreateInOrder DEF LoopContinues
<1>8. CASE \/ Register(s) \/ Started(s) \/ Jam(s) \/ Notify(s) \/ LoopEnds(s) \/ Unregister(s)
           \/ Release(s) \/ Ready(s)
  <2>1. Touch
    BY <1>8 DEF Register, Started, Jam, Notify, LoopEnds, Unregister, Release, Ready, storeVars,
                Touch
  <2> QED
    BY <2>1, TouchInOrder
<1> QED
  BY <1>5, <1>6, <1>7, <1>8 DEF Advance, Await

LEMMA InOrderStep == TypeInv /\ Ownership /\ InOrder /\ [Next]_vars => InOrder'
<1> SUFFICES ASSUME TypeInv, Ownership, InOrder, [Next]_vars PROVE InOrder'
  OBVIOUS
<1> USE DEF TypeInv, TypeOK, StoreTypeOK
<1>1. ASSUME NEW t \in Threads, Enqueue(t) PROVE InOrder'
  BY <1>1, CreateInOrder DEF Enqueue
<1>2. ASSUME NEW j \in JobIds, ClockTick(j) \/ Resolve(j) PROVE InOrder'
  <2>1. Touch
    BY <1>2 DEF ClockTick, Resolve, BackoffElapses, ResolveApproval, Touch
  <2> QED
    BY <2>1, TouchInOrder
<1>3. CASE StartDaemon
  <2>1. \A j \in JobIds : status[j] = "running" => attempts[j] > 0
    BY DEF InOrder, Rows
  <2>2. Touch
    BY <1>3, <2>1 DEF StartDaemon, BestEffort, ResetStuckRunning, storeVars, Touch
  <2> QED
    BY <2>2, TouchInOrder
<1>4. CASE Sigterm \/ StopReturns \/ Crash \/ DispatcherExits \/ \E s \in Slots : Dispatch(s)
  <2>1. Touch
    BY <1>4 DEF Sigterm, StopReturns, Crash, DispatcherExits, Dispatch, storeVars, Touch
  <2> QED
    BY <2>1, TouchInOrder
<1>5. ASSUME NEW j \in JobIds, Claim(j) PROVE InOrder'
  BY <1>5, ClaimInOrder DEF Claim
<1>6. CASE RequeueClaimed
  <2>1. claimed \in JobIds /\ attempts[claimed] > 0
    BY <1>6 DEF RequeueClaimed, Ownership, SingleOwner, InOrder, Rows
  <2>2. Touch
    BY <1>6, <2>1 DEF RequeueClaimed, Requeue, storeVars, Touch
  <2> QED
    BY <2>2, TouchInOrder
<1>7. ASSUME NEW s \in Slots, Advance(s) \/ Await(s) PROVE InOrder'
  BY <1>7, InOrderSlotStep
<1>8. CASE UNCHANGED vars
  <2>1. Touch
    BY <1>8 DEF vars, storeVars, Touch
  <2> QED
    BY <2>1, TouchInOrder
<1> QED
  BY <1>1, <1>2, <1>3, <1>4, <1>5, <1>6, <1>7, <1>8 DEF Next, Clients, Dispatcher

\* Of two jobs of one thread the one created first is attempted first, for any
\* number of threads, slots and interrupted attempts.
THEOREM FirstTurnsOrdered == Spec => []FirstTurnsInOrder
<1>1. Init => TypeInv
  BY TypeInit DEF Init, TypeInv, Tasked
<1>2. InOrder => FirstTurnsInOrder
  BY DEF InOrder
<1> QED
  BY <1>1, <1>2, TypeStep, OwnershipInit, OwnershipStep, InOrderInit, InOrderStep, PTL DEF Spec

-----------------------------------------------------------------------------
(* Stranding.                                                              *)

LEMMA StrandedSlotStep ==
    ASSUME TypeInv, Ownership, NEW s \in Slots, Advance(s) \/ Await(s),
           NEW j \in JobIds, ~Stranded(j), Stranded(j)'
    PROVE  faults' > faults
<1> USE DEF TypeInv, TypeOK, StoreTypeOK, Goto
<1>1. pc[s] # "idle"
  BY DEF Advance, Await, ThreadLookupFails, StartFails, SendFails, ReadyFails, TurnFails,
         GiveUp, Register, Started, Jam, SendTurn, RecordApproval, Notify, LoopEnds,
         LoopContinues, Unregister, Release, Ready, AgentStart, RiskyToolCall, AgentEnd
<1>2. task[s] \in JobIds
  BY <1>1 DEF Tasked
<1>3. ASSUME NEW from \in OwningPCs, NEW dead \in PCs, NEW done \in PCs,
             GiveUp(s, from, dead, done), UNCHANGED <<poolRest, inflight>>
      PROVE  faults' > faults
  <2>1. CASE DeadLetter(task[s]) \/ RetryLater(task[s])
    <3>1. j # task[s]
      BY <1>2, <2>1 DEF DeadLetter, RetryLater, Stranded, InFlightStatuses
    <3>2. status'[j] = status[j]
      BY <1>2, <2>1, <3>1 DEF DeadLetter, RetryLater
    <3>3. Owned(j)' <=> Owned(j)
      BY <1>2, <1>3, <3>1, OthersOwned DEF GiveUp, poolRest
    <3> QED
      BY <3>2, <3>3 DEF Stranded
  <2>2. CASE faults' = faults + 1
    BY <2>2
  <2> QED
    BY <1>3, <2>1, <2>2 DEF GiveUp
<1>4. CASE ThreadLookupFails(s) \/ StartFails(s) \/ SendFails(s) \/ ReadyFails(s) \/ TurnFails(s)
  BY <1>3, <1>4 DEF ThreadLookupFails, StartFails, SendFails, ReadyFails, TurnFails,
                    OwningPCs, PCs
<1>5. CASE \/ SendTurn(s) \/ AgentStart(s) \/ RiskyToolCall(s) \/ RecordApproval(s)
           \/ Register(s) \/ Started(s) \/ Jam(s) \/ Ready(s)
  <2>1. Owned(j)' <=> Owned(j)
    BY <1>5, StaysOwned DEF SendTurn, AgentStart, RiskyToolCall, RecordApproval, Register,
                            Started, Jam, Ready, OwningPCs, poolRest
  <2>2. ~Owned(j)
    BY <2>1 DEF Stranded
  <2>3. j # task[s]
    BY <1>5, <2>2 DEF SendTurn, AgentStart, RiskyToolCall, RecordApproval, Register,
                      Started, Jam, Ready, Owned, Owns, OwningPCs
  <2>4. status'[j] = status[j]
    BY <1>2, <1>5, <2>3 DEF SendTurn, AgentStart, RiskyToolCall, RecordApproval, Register,
                            Started, Jam, Ready, BestEffort, SetStatus, RequestApproval, storeVars
  <2> QED
    BY <2>1, <2>4 DEF Stranded
<1>6. CASE AgentEnd(s)
  <2>1. CASE CompleteJob(task[s])
    <3>1. j # task[s]
      BY <1>2, <2>1 DEF CompleteJob, SetStatus, Stranded, InFlightStatuses
    <3>2. status'[j] = status[j]
      BY <1>2, <2>1, <3>1 DEF CompleteJob, SetStatus
    <3>3. "loop" \in PCs /\ pc' = [pc EXCEPT ![s] = "loop"] /\ UNCHANGED <<claimed, task>>
      BY <1>6 DEF AgentEnd, PCs, poolRest
    <3>4. Owned(j)' <=> Owned(j)
      BY <3>1, <3>3, OthersOwned
    <3> QED
      BY <3>2, <3>4 DEF Stranded
  <2>2. CASE faults' = faults + 1
    BY <2>2
  <2> QED
    BY <1>6, <2>1, <2>2 DEF AgentEnd, BestEffort
<1>7. CASE Notify(s) \/ LoopEnds(s) \/ LoopContinues(s) \/ Unregister(s) \/ Release(s)
  <2>1. Owned(j)' <=> Owned(j)
    BY <1>2, <1>7 DEF Notify, LoopEnds, LoopContinues, Unregister, Release, Owned, Owns,
                      OwningPCs, poolRest
  <2>2. status'[j] = status[j] \/ status'[j] = "queued"
    BY <1>7 DEF Notify, LoopEnds, LoopContinues, Unregister, Release, CreateJob, NextId,
                storeVars
  <2> QED
    BY <2>1, <2>2 DEF Stranded, InFlightStatuses
<1> QED
  BY <1>4, <1>5, <1>6, <1>7 DEF Advance, Await

LEMMA StrandedStep ==
    ASSUME TypeInv, Ownership, [Next]_vars,
           NEW j \in JobIds, ~Stranded(j), Stranded(j)'
    PROVE  faults' > faults
<1> USE DEF TypeInv, TypeOK, StoreTypeOK, Stranded, InFlightStatuses, Owned, Owns
<1>1. CASE Clients
  BY <1>1 DEF Clients, Enqueue, ClockTick, Resolve, CreateJob, NextId, BackoffElapses,
              ResolveApproval, poolVars
<1>2. CASE StartDaemon
  <2>1. status'[j] = status[j] \/ status'[j] = "queued"
    BY <1>2 DEF StartDaemon, BestEffort, ResetStuckRunning, storeVars
  <2> QED
    BY <1>2, <2>1 DEF StartDaemon
<1>3. CASE Sigterm \/ StopReturns \/ DispatcherExits
  BY <1>3 DEF Sigterm, StopReturns, DispatcherExits, storeVars
<1>4. CASE Crash
  BY <1>4 DEF Crash
<1>5. ASSUME NEW i \in JobIds, Claim(i) PROVE faults' > faults
  <2>1. claimed = NoJob /\ claimed' = i /\ UNCHANGED <<pc, task>>
    BY <1>5 DEF Claim
  <2>2. j # i
    BY <2>1
  <2>3. status'[j] = status[j]
    BY <1>5, <2>2 DEF Claim, ClaimNextJob
  <2> QED
    BY <2>1, <2>3, JobIdsAreNats
<1>6. ASSUME NEW s \in Slots, Dispatch(s) PROVE faults' > faults
  BY <1>6 DEF Dispatch, storeVars, OwningPCs
<1>7. CASE RequeueClaimed
  BY <1>7 DEF RequeueClaimed
<1>8. ASSUME NEW s \in Slots, Advance(s) \/ Await(s) PROVE faults' > faults
  BY <1>8, StrandedSlotStep
<1>9. CASE UNCHANGED vars
  BY <1>9 DEF vars, storeVars, poolVars
<1> QED
  BY <1>1, <1>2, <1>3, <1>4, <1>5, <1>6, <1>7, <1>8, <1>9 DEF Next, Dispatcher

\* A row is left in flight without an owner only by a crash or a dropped store
\* error.
THEOREM StrandingIsAFault == Spec => StrandedOnlyByFault
<1>1. Init => TypeInv
  BY TypeInit DEF Init, TypeInv, Tasked
<1>2. TypeInv /\ Ownership /\ [Next]_vars
        => [\A j \in JobIds : ~Stranded(j) /\ Stranded(j)' => faults' > faults]_vars
  BY StrandedStep
<1> QED
  BY <1>1, <1>2, TypeStep, OwnershipInit, OwnershipStep, PTL DEF Spec, StrandedOnlyByFault

-----------------------------------------------------------------------------
(* The worker pool implements the abstract job ledger: its initial state is *)
(* the ledger's, and each of its steps is a step of the ledger or leaves    *)
(* the ledger as it is.                                                     *)

\* What the ledger's variables are mapped to.
MState == [j \in JobIds |-> LedgerState(j)]
MExecuting == {j \in JobIds : Owned(j)}

-----------------------------------------------------------------------------
(* From facts about rows and owners to steps of the ledger.                *)

LEMMA LedgerStutter ==
    ASSUME \A j \in JobIds : (Owned(j)' <=> Owned(j)) /\ LedgerState(j)' = LedgerState(j),
           attempts' = attempts
    PROVE  UNCHANGED Ledger!ledgerVars
<1>1. MState' = MState /\ MExecuting' = MExecuting
  BY DEF MState, MExecuting
<1> QED
  BY <1>1 DEF Ledger!ledgerVars, MState, MExecuting

LEMMA LedgerSubmit ==
    ASSUME NEW n \in JobIds, LedgerState(n) = "none", LedgerState(n)' = "waiting",
           \A j \in JobIds : Owned(j)' <=> Owned(j),
           \A j \in JobIds \ {n} : LedgerState(j)' = LedgerState(j),
           attempts' = attempts
    PROVE  Ledger!Submit(n)
<1>1. MState' = [MState EXCEPT ![n] = "waiting"] /\ MState[n] = "none"
  BY DEF MState
<1>2. MExecuting' = MExecuting
  BY DEF MExecuting
<1> QED
  BY <1>1, <1>2 DEF Ledger!Submit, MState, MExecuting

LEMMA LedgerTake ==
    ASSUME NEW n \in JobIds, LedgerState(n) = "waiting", LedgerState(n)' = "taken",
           ~Owned(n), Owned(n)',
           \A j \in JobIds \ {n} : (Owned(j)' <=> Owned(j)) /\ LedgerState(j)' = LedgerState(j),
           attempts' = [attempts EXCEPT ![n] = @ + 1]
    PROVE  Ledger!Take(n)
<1>1. MState' = [MState EXCEPT ![n] = "taken"] /\ MState[n] = "waiting"
  BY DEF MState
<1>2. MExecuting' = MExecuting \union {n} /\ n \notin MExecuting
  BY DEF MExecuting
<1> QED
  BY <1>1, <1>2 DEF Ledger!Take, MState, MExecuting

LEMMA LedgerSettle ==
    ASSUME NEW n \in JobIds, NEW st, LedgerState(n) = "taken", LedgerState(n)' = st,
           Owned(n), ~Owned(n)',
           \A j \in JobIds \ {n} : (Owned(j)' <=> Owned(j)) /\ LedgerState(j)' = LedgerState(j),
           attempts' = attempts
    PROVE  Ledger!Settle(n, st)
<1>1. MState' = [MState EXCEPT ![n] = st] /\ MState[n] = "taken"
  BY DEF MState
<1>2. MExecuting' = MExecuting \ {n} /\ n \in MExecuting
  BY DEF MExecuting
<1> QED
  BY <1>1, <1>2 DEF Ledger!Settle, MState, MExecuting

LEMMA LedgerVanish ==
    ASSUME \A j \in JobIds : (Owned(j)' => Owned(j)) /\ LedgerState(j)' = LedgerState(j),
           attempts' = attempts
    PROVE  \E S \in SUBSET JobIds : Ledger!Vanish(S)
<1> DEFINE S == {j \in JobIds : Owned(j) /\ ~Owned(j)'}
<1>1. MState' = MState /\ MExecuting' = MExecuting \ S
  BY DEF MState, MExecuting
<1>2. Ledger!Vanish(S)
  BY <1>1 DEF Ledger!Vanish, MState, MExecuting
<1> QED
  BY <1>2

LEMMA LedgerRecover ==
    ASSUME \A j \in JobIds : ~Owned(j) /\ ~Owned(j)',
           \A j \in JobIds : \/ LedgerState(j)' = LedgerState(j)
                             \/ LedgerState(j) = "taken" /\ LedgerState(j)' = "waiting",
           attempts' = attempts
    PROVE  \E S \in SUBSET JobIds : Ledger!Recover(S)
<1> DEFINE S == {j \in JobIds : LedgerState(j)' # LedgerState(j)}
<1>1. /\ \A j \in S : MState[j] = "taken" /\ j \notin MExecuting
      /\ MState' = [j \in JobIds |-> IF j \in S THEN "waiting" ELSE MState[j]]
      /\ MExecuting' = MExecuting
  BY DEF MState, MExecuting
<1>2. Ledger!Recover(S)
  BY <1>1 DEF Ledger!Recover, MState, MExecuting
<1> QED
  BY <1>2

-----------------------------------------------------------------------------
(* The steps of the pool.                                                  *)

LEMMA RefinesInit == Init => Ledger!Init
  BY JobIdsAreNats DEF Init, StoreInit, Ledger!Init, LedgerState, Owned, Owns, OwningPCs

\* The row of an owned job is in flight.
LEMMA OwnedTaken ==
    ASSUME TypeInv, Ownership, NEW j \in JobIds, Owned(j)
    PROVE  status[j] \in InFlightStatuses /\ LedgerState(j) = "taken"
<1>1. status[j] \in InFlightStatuses
  BY JobIdsAreNats DEF Owned, Owns, Ownership, SingleOwner, InFlightStatuses
<1> QED
  BY <1>1 DEF InFlightStatuses, LedgerState

LEMMA InsertRefines ==
    ASSUME TypeInv, Ownership, NEW t, CreateJob(t),
           \A j \in JobIds : Owned(j)' <=> Owned(j)
    PROVE  Ledger!Next
<1>1. PICK n \in JobIds : NextId(n) /\ status' = [status EXCEPT ![n] = "queued"]
                          /\ attempts' = attempts
  BY DEF CreateJob
<1>2. /\ LedgerState(n) = "none" /\ LedgerState(n)' = "waiting"
      /\ \A j \in JobIds \ {n} : LedgerState(j)' = LedgerState(j)
  BY <1>1 DEF NextId, LedgerState, TypeInv, TypeOK, StoreTypeOK
<1>3. Ledger!Submit(n)
  BY <1>1, <1>2, LedgerSubmit
<1> QED
  BY <1>3 DEF Ledger!Next

\* A goroutine that gives its job up has no part in it afterwards.
LEMMA LetsGo ==
    ASSUME TypeInv, Ownership, NEW s \in Slots, pc[s] \in OwningPCs,
           NEW to \in PCs \ OwningPCs, pc' = [pc EXCEPT ![s] = to], UNCHANGED <<claimed, task>>
    PROVE  \E n \in JobIds :
              /\ n = task[s] /\ Owned(n) /\ ~Owned(n)' /\ LedgerState(n) = "taken"
              /\ \A j \in JobIds \ {n} : Owned(j)' <=> Owned(j)
<1>1. PICK n \in JobIds : n = task[s]
  BY DEF TypeInv, Tasked, OwningPCs
<1>2. Owned(n)
  BY <1>1 DEF Owned, Owns
<1>3. ~Owned(n)'
  BY <1>1 DEF TypeInv, TypeOK, Ownership, SingleOwner, Owned, Owns
<1>4. \A j \in JobIds \ {n} : Owned(j)' <=> Owned(j)
  BY <1>1, OthersOwned
<1>5. LedgerState(n) = "taken"
  BY <1>2, OwnedTaken
<1> QED
  BY <1>1, <1>2, <1>3, <1>4, <1>5

\* Losing a job and leaving its row alone lets its executor vanish.
LEMMA DropRefines ==
    ASSUME UNCHANGED storeVars, \A j \in JobIds : Owned(j)' => Owned(j)
    PROVE  Ledger!Next
<1>1. /\ \A j \in JobIds : LedgerState(j)' = LedgerState(j)
      /\ attempts' = attempts
  BY DEF storeVars, LedgerState
<1>2. \E S \in SUBSET JobIds : Ledger!Vanish(S)
  BY <1>1, LedgerVanish
<1> QED
  BY <1>2 DEF Ledger!Next

LEMMA GiveUpRefines ==
    ASSUME TypeInv, Ownership, NEW s \in Slots,
           NEW from \in OwningPCs, NEW dead \in PCs \ OwningPCs, NEW done \in PCs \ OwningPCs,
           GiveUp(s, from, dead, done), UNCHANGED poolRest
    PROVE  Ledger!Next
<1>1. PICK n \in JobIds :
          /\ n = task[s] /\ Owned(n) /\ ~Owned(n)' /\ LedgerState(n) = "taken"
          /\ \A j \in JobIds \ {n} : Owned(j)' <=> Owned(j)
  BY LetsGo DEF GiveUp, Goto, poolRest
<1> USE DEF TypeInv, TypeOK, StoreTypeOK
<1>2. CASE DeadLetter(n)
  <2>1. /\ LedgerState(n)' = "dead" /\ attempts' = attempts
        /\ \A j \in JobIds \ {n} : LedgerState(j)' = LedgerState(j)
        /\ attempts[n] >= MaxAttempts
    BY <1>2 DEF DeadLetter, Exhausted, LedgerState
  <2>2. Ledger!Settle(n, "dead")
    BY <1>1, <2>1, LedgerSettle
  <2> QED
    BY <2>1, <2>2 DEF Ledger!Next, Ledger!Bury
<1>3. CASE RetryLater(n)
  <2>1. /\ LedgerState(n)' = "waiting" /\ attempts' = attempts
        /\ \A j \in JobIds \ {n} : LedgerState(j)' = LedgerState(j)
    BY <1>3 DEF RetryLater, LedgerState
  <2>2. Ledger!Settle(n, "waiting")
    BY <1>1, <2>1, LedgerSettle
  <2> QED
    BY <2>2 DEF Ledger!Next, Ledger!PutBack
<1>4. CASE UNCHANGED storeVars
  BY <1>1, <1>4, DropRefines
<1> QED
  BY <1>1, <1>2, <1>3, <1>4 DEF GiveUp

LEMMA FinishRefines ==
    ASSUME TypeInv, Ownership, NEW s \in Slots, AgentEnd(s)
    PROVE  Ledger!Next
<1>1. PICK n \in JobIds :
          /\ n = task[s] /\ Owned(n) /\ ~Owned(n)' /\ LedgerState(n) = "taken"
          /\ \A j \in JobIds \ {n} : Owned(j)' <=> Owned(j)
  BY LetsGo DEF AgentEnd, Goto, poolRest, OwningPCs, PCs
<1>2. CASE CompleteJob(n)
  <2>1. /\ LedgerState(n)' = "done" /\ attempts' = attempts
        /\ \A j \in JobIds \ {n} : LedgerState(j)' = LedgerState(j)
    BY <1>2 DEF CompleteJob, SetStatus, LedgerState, TypeInv, TypeOK, StoreTypeOK
  <2>2. Ledger!Settle(n, "done")
    BY <1>1, <2>1, LedgerSettle
  <2> QED
    BY <2>2 DEF Ledger!Next, Ledger!Finish
<1>3. CASE UNCHANGED storeVars
  BY <1>1, <1>3, DropRefines
<1> QED
  BY <1>1, <1>2, <1>3 DEF AgentEnd, BestEffort

LEMMA SlotRefines ==
    ASSUME TypeInv, Ownership, NEW s \in Slots, Advance(s) \/ Await(s)
    PROVE  [Ledger!Next]_(Ledger!ledgerVars)
<1>1. CASE ThreadLookupFails(s) \/ StartFails(s) \/ SendFails(s) \/ ReadyFails(s) \/ TurnFails(s)
  BY <1>1, GiveUpRefines DEF ThreadLookupFails, StartFails, SendFails, ReadyFails, TurnFails,
                             OwningPCs, PCs
<1>2. CASE AgentEnd(s)
  BY <1>2, FinishRefines
<1>3. CASE SendTurn(s) \/ AgentStart(s) \/ RiskyToolCall(s) \/ RecordApproval(s)
  <2>1. /\ task[s] \in JobIds /\ status[task[s]] \in InFlightStatuses
        /\ LedgerState(task[s]) = "taken"
    <3>1. task[s] \in JobIds /\ Owned(task[s])
      BY <1>3 DEF SendTurn, AgentStart, RiskyToolCall, RecordApproval, Goto, TypeInv, Tasked,
                  Owned, Owns, OwningPCs
    <3> QED
      BY <3>1, OwnedTaken
  <2>2. /\ \A j \in JobIds \ {task[s]} : status'[j] = status[j]
        /\ status'[task[s]] \in InFlightStatuses
        /\ attempts' = attempts
    BY <1>3, <2>1 DEF SendTurn, AgentStart, RiskyToolCall, RecordApproval, BestEffort,
                      SetStatus, RequestApproval, storeVars, InFlightStatuses,
                      TypeInv, TypeOK, StoreTypeOK
  <2>3. \A j \in JobIds : LedgerState(j)' = LedgerState(j)
    BY <2>1, <2>2 DEF LedgerState, InFlightStatuses
  <2>4. \A j \in JobIds : Owned(j)' <=> Owned(j)
    BY <1>3, StaysOwned DEF SendTurn, AgentStart, RiskyToolCall, RecordApproval, OwningPCs,
                            poolRest
  <2> QED
    BY <2>2, <2>3, <2>4, LedgerStutter
<1>4. CASE Register(s) \/ Started(s) \/ Jam(s) \/ Ready(s)
  <2>1. \A j \in JobIds : Owned(j)' <=> Owned(j)
    BY <1>4, StaysOwned DEF Register, Started, Jam, Ready, OwningPCs, poolRest
  <2>2. attempts' = attempts /\ \A j \in JobIds : LedgerState(j)' = LedgerState(j)
    BY <1>4 DEF Register, Started, Jam, Ready, storeVars, LedgerState
  <2> QED
    BY <2>1, <2>2, LedgerStutter
<1>5. CASE Notify(s) \/ LoopEnds(s) \/ LoopContinues(s) \/ Unregister(s) \/ Release(s)
  <2>1. \A j \in JobIds : Owned(j)' <=> Owned(j)
    BY <1>5 DEF Notify, LoopEnds, LoopContinues, Unregister, Release, Owned, Owns, Goto,
                OwningPCs, poolRest, TypeInv, TypeOK, Tasked
  <2>2. CASE LoopContinues(s)
    BY <2>1, <2>2, InsertRefines DEF LoopContinues
  <2>3. CASE UNCHANGED storeVars
    <3>1. attempts' = attempts /\ \A j \in JobIds : LedgerState(j)' = LedgerState(j)
      BY <2>3 DEF storeVars, LedgerState
    <3> QED
      BY <2>1, <3>1, LedgerStutter
  <2> QED
    BY <1>5, <2>2, <2>3 DEF Notify, LoopEnds, Unregister, Release
<1> QED
  BY <1>1, <1>2, <1>3, <1>4, <1>5 DEF Advance, Await

LEMMA RefinesStep ==
    TypeInv /\ Ownership /\ [Next]_vars => [Ledger!Next]_(Ledger!ledgerVars)
<1> SUFFICES ASSUME TypeInv, Ownership, [Next]_vars
             PROVE  [Ledger!Next]_(Ledger!ledgerVars)
  OBVIOUS
<1>1. ASSUME NEW t \in Threads, Enqueue(t) PROVE Ledger!Next
  BY <1>1, InsertRefines DEF Enqueue, poolVars, Owned, Owns
<1>2. ASSUME attempts' = attempts, status' = status, \A j \in JobIds : Owned(j)' <=> Owned(j)
      PROVE  UNCHANGED Ledger!ledgerVars
  BY <1>2, LedgerStutter DEF LedgerState
<1>3. ASSUME NEW j \in JobIds, ClockTick(j) \/ Resolve(j) PROVE UNCHANGED Ledger!ledgerVars
  BY <1>2, <1>3 DEF ClockTick, Resolve, BackoffElapses, ResolveApproval, poolVars, Owned, Owns
<1>4. CASE StartDaemon
  <2>1. \A j \in JobIds : ~Owned(j) /\ ~Owned(j)'
    BY <1>4, JobIdsAreNats DEF StartDaemon, Ownership, Quiet, Owned, Owns, OwningPCs
  <2>2. \A j \in JobIds : \/ LedgerState(j)' = LedgerState(j)
                          \/ LedgerState(j) = "taken" /\ LedgerState(j)' = "waiting"
    BY <1>4 DEF StartDaemon, BestEffort, ResetStuckRunning, storeVars, LedgerState
  <2>3. attempts' = attempts
    BY <1>4 DEF StartDaemon, BestEffort, ResetStuckRunning, storeVars
  <2>4. \E S \in SUBSET JobIds : Ledger!Recover(S)
    BY <2>1, <2>2, <2>3, LedgerRecover
  <2> QED
    BY <2>4 DEF Ledger!Next
<1>5. CASE Sigterm \/ StopReturns \/ DispatcherExits
  BY <1>2, <1>5 DEF Sigterm, StopReturns, DispatcherExits, storeVars, Owned, Owns
<1>6. CASE Crash
  <2>1. \A j \in JobIds : ~Owned(j)'
    BY <1>6, JobIdsAreNats DEF Crash, Owned, Owns, OwningPCs
  <2> QED
    BY <1>6, <2>1, DropRefines DEF Crash
<1>7. ASSUME NEW n \in JobIds, Claim(n) PROVE Ledger!Next
  <2>1. /\ status[n] = "queued" /\ status' = [status EXCEPT ![n] = "running"]
        /\ attempts' = [attempts EXCEPT ![n] = @ + 1]
        /\ claimed = NoJob /\ claimed' = n /\ UNCHANGED <<pc, task>>
    BY <1>7 DEF Claim, ClaimNextJob, Claimable
  <2>2. /\ LedgerState(n) = "waiting" /\ LedgerState(n)' = "taken"
        /\ \A j \in JobIds \ {n} : LedgerState(j)' = LedgerState(j)
    BY <2>1 DEF LedgerState, TypeInv, TypeOK, StoreTypeOK
  <2>3. ~Owned(n)
    BY <2>1, OwnedTaken DEF InFlightStatuses
  <2>4. Owned(n)' /\ \A j \in JobIds \ {n} : Owned(j)' <=> Owned(j)
    BY <2>1, JobIdsAreNats DEF Owned, Owns
  <2>5. Ledger!Take(n)
    BY <2>1, <2>2, <2>3, <2>4, LedgerTake
  <2> QED
    BY <2>5 DEF Ledger!Next
<1>8. ASSUME NEW s \in Slots, Dispatch(s) PROVE UNCHANGED Ledger!ledgerVars
  <2>1. \A j \in JobIds : Owned(j)' <=> Owned(j)
    BY <1>8, JobIdsAreNats DEF Dispatch, Owned, Owns, OwningPCs, TypeInv, TypeOK
  <2> QED
    BY <1>2, <1>8, <2>1 DEF Dispatch, storeVars
<1>9. CASE RequeueClaimed
  <2>1. PICK n \in JobIds : n = claimed
    BY <1>9 DEF RequeueClaimed, TypeInv, TypeOK
  <2>2. Owned(n) /\ claimed' = NoJob /\ UNCHANGED <<pc, task>>
    BY <1>9, <2>1 DEF RequeueClaimed, Owned
  <2>3. ~Owned(n)' /\ \A j \in JobIds \ {n} : Owned(j)' <=> Owned(j)
    BY <2>1, <2>2, JobIdsAreNats DEF Owned, Owns, Ownership, SingleOwner
  <2>4. CASE UNCHANGED storeVars
    BY <2>2, <2>3, <2>4, DropRefines
  <2>5. CASE Requeue(n)
    <3>1. /\ LedgerState(n)' = "waiting" /\ attempts' = attempts
          /\ \A j \in JobIds \ {n} : LedgerState(j)' = LedgerState(j)
      BY <2>5 DEF Requeue, LedgerState, TypeInv, TypeOK, StoreTypeOK
    <3>2. LedgerState(n) = "taken"
      BY <2>2, OwnedTaken
    <3>3. Ledger!Settle(n, "waiting")
      BY <2>2, <2>3, <3>1, <3>2, LedgerSettle
    <3> QED
      BY <3>3 DEF Ledger!Next, Ledger!PutBack
  <2> QED
    BY <1>9, <2>1, <2>4, <2>5 DEF RequeueClaimed
<1>10. ASSUME NEW s \in Slots, Advance(s) \/ Await(s)
       PROVE  [Ledger!Next]_(Ledger!ledgerVars)
  BY <1>10, SlotRefines
<1>11. CASE UNCHANGED vars
  BY <1>2, <1>11 DEF vars, storeVars, poolVars, Owned, Owns
<1> QED
  BY <1>1, <1>3, <1>4, <1>5, <1>6, <1>7, <1>8, <1>9, <1>10, <1>11
     DEF Next, Clients, Dispatcher

\* The pool over its store, with slots, retries, recovery, crashes and dropped
\* writes, implements the job ledger.
THEOREM PoolImplementsLedger == Spec => ImplementsLedger
<1>1. Init => TypeInv
  BY TypeInit DEF Init, TypeInv, Tasked
<1> QED
  BY <1>1, TypeStep, OwnershipInit, OwnershipStep, RefinesInit, RefinesStep, PTL
     DEF Spec, ImplementsLedger, Ledger!Spec

=============================================================================
