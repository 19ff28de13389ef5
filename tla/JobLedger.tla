----------------------------- MODULE JobLedger ------------------------------
(***************************************************************************)
(* What the durable job ledger promises, without slots, threads, events or *)
(* a clock: a submitted job is taken by one executor at a time, only that  *)
(* executor settles it, it is buried only when its tries are used up, and  *)
(* a job whose executor vanished can at most be put back.  WorkerPool      *)
(* implements this specification.                                          *)
(***************************************************************************)
EXTENDS Naturals

CONSTANTS Jobs, MaxTries

VARIABLES state,      \* where each job stands
          tries,      \* how often it was taken
          executing   \* the jobs that have an executor

ledgerVars == <<state, tries, executing>>

Init ==
    /\ state = [j \in Jobs |-> "none"]
    /\ tries = [j \in Jobs |-> 0]
    /\ executing = {}

Submit(j) ==
    /\ state[j] = "none"
    /\ state' = [state EXCEPT ![j] = "waiting"]
    /\ UNCHANGED <<tries, executing>>

Take(j) ==
    /\ state[j] = "waiting"
    /\ j \notin executing
    /\ state' = [state EXCEPT ![j] = "taken"]
    /\ tries' = [tries EXCEPT ![j] = @ + 1]
    /\ executing' = executing \union {j}

\* The executor of j settles it as st.
Settle(j, st) ==
    /\ j \in executing
    /\ state[j] = "taken"
    /\ state' = [state EXCEPT ![j] = st]
    /\ executing' = executing \ {j}
    /\ UNCHANGED tries

Finish(j) == Settle(j, "done")

Bury(j) == tries[j] >= MaxTries /\ Settle(j, "dead")

\* Another try, or a try that never began.
PutBack(j) == Settle(j, "waiting")

\* Executors vanish and leave their jobs as they are.
Vanish(S) ==
    /\ executing' = executing \ S
    /\ UNCHANGED <<state, tries>>

\* Jobs left without an executor become available again.
Recover(S) ==
    /\ \A j \in S : state[j] = "taken" /\ j \notin executing
    /\ state' = [j \in Jobs |-> IF j \in S THEN "waiting" ELSE state[j]]
    /\ UNCHANGED <<tries, executing>>

Next ==
    \/ \E j \in Jobs : Submit(j) \/ Take(j) \/ Finish(j) \/ Bury(j) \/ PutBack(j)
    \/ \E S \in SUBSET Jobs : Vanish(S) \/ Recover(S)

Spec == Init /\ [][Next]_ledgerVars

=============================================================================
