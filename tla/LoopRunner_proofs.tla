-------------------------- MODULE LoopRunner_proofs --------------------------
(***************************************************************************)
(* Proofs about LoopRunner, for every number of jobs, specs, runs, slots   *)
(* and commands, every cap and any number of faults: the types, that a     *)
(* loop does not stall in silence (NoSilentStall), that turns_enqueued     *)
(* counts the turns (TurnsCounted) and exceeds its cap by no more than the *)
(* slots (CapNearlyKept).                                                  *)
(***************************************************************************)
EXTENDS LoopRunner, FiniteSetTheorems, WellFoundedInduction, TLAPS

LEMMA Ids == /\ JobIds \subseteq Nat /\ SpecIds \subseteq Nat /\ RunIds \subseteq Nat
             /\ Nil \notin JobIds /\ Nil \notin SpecIds /\ Nil \notin RunIds
             /\ IsFiniteSet(JobIds)
             /\ MaxSlots \in Nat \ {0}
<1>1. MaxJobs \in Nat /\ MaxSpecs \in Nat /\ MaxRuns \in Nat /\ MaxSlots \in Nat \ {0}
  BY BoundsAssumption
<1>2. IsFiniteSet(JobIds)
  BY <1>1, FS_Interval DEF JobIds
<1> QED
  BY <1>1, <1>2 DEF JobIds, SpecIds, RunIds, Nil

LEMMA JobSets == \A S : S \subseteq JobIds => IsFiniteSet(S) /\ Cardinality(S) \in Nat
  BY Ids, FS_Subset, FS_CardinalityType

-----------------------------------------------------------------------------
(* Type correctness.  The tables are indexed by what runners and commands  *)
(* hold, so it needs that these exist.                                     *)

Runs == {r \in RunIds : runStatus[r] # "absent"}

Held ==
    /\ \A j \in JobIds :
          /\ rpc[j] \notin {"idle", "load"} => spec[j] \in Specs
          /\ rpc[j] \in {"first", "decide", "stop", "disable", "create", "count"}
                => run[j] \in Runs
    /\ \A c \in Starters : cpc[c] \in {"count", "create"} => crun[c] \in Runs
    /\ EnabledSpecs \subseteq Specs

TypeInv == TypeOK /\ Held

LEMMA TypeInit == Init => TypeInv
  BY CapsAssumption
     DEF Init, Queue!Init, TypeInv, TypeOK, Held, RunnerPCs, EnabledSpecs, Specs

LEMMA SwitchType ==
    ASSUME TypeInv, NEW b \in BOOLEAN, SetLoopEnabled(b)
    PROVE  enabled' \in [SpecIds -> BOOLEAN] /\ EnabledSpecs' \subseteq Specs'
<1>1. enabled' = [i \in SpecIds |-> mode[i] # "absent" /\ b] /\ mode' = mode
  BY DEF SetLoopEnabled
<1>2. \A i \in SpecIds : (mode[i] # "absent" /\ b) \in BOOLEAN
  OBVIOUS
<1>3. enabled' \in [SpecIds -> BOOLEAN]
  BY <1>1, <1>2, Zenon
<1>4. \A i \in SpecIds : enabled'[i] => mode'[i] # "absent"
  BY <1>1, Zenon
<1> QED
  BY <1>3, <1>4 DEF EnabledSpecs, Specs

LEMMA CommandsType == TypeInv /\ Commands => TypeInv'
<1> SUFFICES ASSUME TypeInv, Commands PROVE TypeInv'
  OBVIOUS
<1> USE Ids DEF TypeInv, TypeOK, Held, Runs, Specs, EnabledSpecs,
               ledger, specTable, runTable, runners, starters, history,
               Command, Step, FaultAllowed
<1>1. ASSUME NEW m \in Modes, NEW n \in Caps, LoopSet(m, n) PROVE TypeInv'
  BY <1>1, ModesAssumption, CapsAssumption DEF LoopSet, CreateLoopSpec, First
<1>2. CASE LoopStop
  <2>1. enabled' \in [SpecIds -> BOOLEAN] /\ EnabledSpecs' \subseteq Specs'
    BY <1>2, SwitchType DEF LoopStop
  <2> QED
    BY <1>2, <2>1 DEF LoopStop, SetLoopEnabled
<1>3. CASE PlainTurn
  BY <1>3 DEF PlainTurn, CreateJob, Queue!Submit, First
<1>4. ASSUME NEW c \in Starters,
             LoopStart(c) \/ StartCounts(c) \/ StartFails(c) \/ StartMiscounts(c)
      PROVE  TypeInv'
  <2>1. CASE LoopStart(c)
    BY <2>1 DEF LoopStart
  <2>2. CASE StartCounts(c)
    <3>1. PICK r \in RunIds : r = crun[c]
      BY <2>2 DEF StartCounts
    <3>2. enqueued' = [enqueued EXCEPT ![r] = @ + 1] /\ runStatus' = runStatus
      BY <2>2, <3>1 DEF StartCounts, IncrementTurnEnqueued
    <3>3. enqueued' \in [RunIds -> Nat]
      BY <3>2
    <3> QED
      BY <2>2, <3>2, <3>3 DEF StartCounts
  <2>3. CASE StartFails(c)
    BY <2>3 DEF StartFails
  <2>4. CASE StartMiscounts(c)
    BY <2>4 DEF StartMiscounts
  <2> QED
    BY <1>4, <2>1, <2>2, <2>3, <2>4
<1>5. ASSUME NEW c \in Starters, StartOpens(c) PROVE TypeInv'
  BY <1>5 DEF StartOpens, StartLoopRun, First
<1>6. ASSUME NEW c \in Starters, StartCreates(c) PROVE TypeInv'
  BY <1>6 DEF StartCreates, CreateJob, Queue!Submit, First
<1>7. ASSUME NEW c \in Starters, StartEnables(c) PROVE TypeInv'
  <2>1. enabled' \in [SpecIds -> BOOLEAN] /\ EnabledSpecs' \subseteq Specs'
    BY <1>7, SwitchType DEF StartEnables
  <2> QED
    BY <1>7, <2>1 DEF StartEnables, SetLoopEnabled
<1> QED
  BY <1>1, <1>2, <1>3, <1>4, <1>5, <1>6, <1>7 DEF Commands

LEMMA PoolType == TypeInv /\ Pool => TypeInv'
<1> SUFFICES ASSUME TypeInv, Pool PROVE TypeInv'
  OBVIOUS
<1> USE Ids DEF TypeInv, TypeOK, Held, Runs, Specs, EnabledSpecs, RunnerPCs,
               ledger, specTable, runTable, runners, starters, poolRest, FaultAllowed
<1>1. ASSUME NEW j \in JobIds, Take(j) \/ PutBack(j) \/ Bury(j) \/ Finish(j) PROVE TypeInv'
  <2>1. CASE Take(j)
    BY <2>1 DEF Take, Queue!Take
  <2>2. CASE PutBack(j)
    BY <2>2 DEF PutBack, Queue!PutBack, Queue!Settle
  <2>3. CASE Bury(j)
    BY <2>3 DEF Bury, Queue!Bury, Queue!Settle
  <2>4. CASE Finish(j)
    BY <2>4 DEF Finish, Queue!Finish, Queue!Settle
  <2> QED
    BY <1>1, <2>1, <2>2, <2>3, <2>4
<1>2. ASSUME NEW j \in JobIds, Lose(j) PROVE TypeInv'
  BY <1>2 DEF Lose, Queue!Vanish
<1>3. CASE Crash
  <2>1. faults' \in Nat
    BY <1>3, JobSets DEF Crash
  <2> QED
    BY <1>3, <2>1 DEF Crash, Queue!Vanish
<1>4. ASSUME NEW S \in SUBSET JobIds, Restart(S) PROVE TypeInv'
  BY <1>4 DEF Restart, Queue!Recover
<1> QED
  BY <1>1, <1>2, <1>3, <1>4 DEF Pool

LEMMA RunnerType == ASSUME TypeInv, NEW j \in JobIds, RunLoop(j) PROVE TypeInv'
<1> USE Ids DEF TypeInv, TypeOK, Held, Runs, Specs, EnabledSpecs, RunnerPCs,
               ledger, specTable, runTable, starters, clients, FaultAllowed,
               Goto, Return, First, BestEffort
<1>1. CASE LoadSpec(j)
  BY <1>1 DEF LoadSpec
<1>2. CASE NoLoop(j)
  BY <1>2 DEF NoLoop
<1>3. CASE FindRun(j)
  BY <1>3 DEF FindRun, ActiveRuns
<1>4. CASE NoActiveRun(j)
  BY <1>4 DEF NoActiveRun
<1>5. CASE OpenRun(j)
  BY <1>5 DEF OpenRun, StartLoopRun
<1>6. CASE CountFirst(j)
  BY <1>6 DEF CountFirst, IncrementTurnEnqueued
<1>7. CASE DecideToStop(j)
  BY <1>7 DEF DecideToStop
<1>8. CASE DecideToGoOn(j)
  BY <1>8 DEF DecideToGoOn
<1>9. CASE DecideNothing(j)
  BY <1>9 DEF DecideNothing
<1>10. CASE Stop(j)
  <2>1. run[j] \in Runs
    BY <1>10 DEF Stop
  <2>2. /\ runStatus' \in [RunIds -> {"absent", "active", "stopped"}]
        /\ Runs \subseteq Runs'
        /\ enqueued' = enqueued
    BY ZenonT(60), <1>10, <2>1 DEF Stop, StopLoopRun
  <2> QED
    BY <1>10, <2>2 DEF Stop
<1>11. CASE CreateNext(j)
  BY <1>11 DEF CreateNext, CreateJob, Queue!Submit
<1>12. CASE CountNext(j)
  BY <1>12 DEF CountNext, IncrementTurnEnqueued
<1>13. CASE Disable(j)
  <2>1. enabled' \in [SpecIds -> BOOLEAN] /\ EnabledSpecs' \subseteq Specs'
    <3>1. CASE SetLoopEnabled(FALSE)
      BY <3>1, SwitchType
    <3>2. CASE UNCHANGED specTable
      BY <3>2
    <3> QED
      BY <1>13, <3>1, <3>2 DEF Disable
  <2> QED
    BY <1>13, <2>1 DEF Disable, SetLoopEnabled
<1>14. ASSUME NEW at \in {"load", "find", "open", "create"}, RunnerFails(j, at) PROVE TypeInv'
  BY <1>14 DEF RunnerFails
<1> QED
  BY <1>1, <1>2, <1>3, <1>4, <1>5, <1>6, <1>7, <1>8, <1>9, <1>10, <1>11, <1>12, <1>13, <1>14
     DEF RunLoop

LEMMA TypeStep == TypeInv /\ [Next]_vars => TypeInv'
<1> SUFFICES ASSUME TypeInv, [Next]_vars PROVE TypeInv'
  OBVIOUS
<1>1. CASE UNCHANGED vars
  BY <1>1 DEF vars, ledger, specTable, runTable, runners, starters, history,
              TypeInv, TypeOK, Held, Runs, Specs, EnabledSpecs
<1> QED
  BY <1>1, CommandsType, PoolType, RunnerType DEF Next

LEMMA TypeAlways == Spec => []TypeInv
  BY TypeInit, TypeStep, PTL DEF Spec

\* The tables, the runners and the commands stay well typed.
THEOREM TypeCorrect == Spec => []TypeOK
<1>1. TypeInv => TypeOK
  BY DEF TypeInv
<1> QED
  BY <1>1, TypeAlways, PTL

-----------------------------------------------------------------------------
(* Counting.                                                               *)

LEMMA Fewer ==
    ASSUME NEW S, IsFiniteSet(S), NEW T, T \subseteq S
    PROVE  /\ IsFiniteSet(T)
           /\ Cardinality(T) \in Nat /\ Cardinality(S) \in Nat
           /\ Cardinality(T) <= Cardinality(S)
  BY FS_Subset, FS_CardinalityType

LEMMA OneMore ==
    ASSUME NEW S, IsFiniteSet(S), NEW T, NEW x, T \subseteq S \union {x}
    PROVE  /\ Cardinality(T) \in Nat /\ Cardinality(S) \in Nat
           /\ Cardinality(T) <= Cardinality(S) + 1
<1>1. Cardinality(S) \in Nat
  BY FS_CardinalityType
<1>2. IsFiniteSet(S \union {x}) /\ Cardinality(S \union {x}) <= Cardinality(S) + 1
  BY <1>1, FS_AddElement
<1> QED
  BY <1>1, <1>2, Fewer

\* A set without one of its elements.
LEMMA WithoutOne ==
    ASSUME NEW S, NEW x \in S, IsFiniteSet(S)
    PROVE  IsFiniteSet(S \ {x}) /\ Cardinality(S \ {x}) = Cardinality(S) - 1
BY FS_RemoveElement

LEMMA OneLess ==
    ASSUME NEW S, IsFiniteSet(S), NEW T, NEW x \in S, T \subseteq S \ {x}
    PROVE  /\ Cardinality(T) \in Nat /\ Cardinality(S) \in Nat
           /\ Cardinality(T) <= Cardinality(S) - 1
<1>1. IsFiniteSet(S \ {x}) /\ Cardinality(S \ {x}) = Cardinality(S) - 1
  BY WithoutOne
<1> QED
  BY <1>1, Fewer, FS_CardinalityType

-----------------------------------------------------------------------------
(* Turns never multiply.  The count is inductive by itself: what leaves    *)
(* one of the three sets is what enters another.                           *)

LEMMA UnderWayFinite ==
    /\ IsFiniteSet(Unfinished) /\ IsFiniteSet(Undecided) /\ IsFiniteSet(Starting)
    /\ Cardinality(Unfinished) \in Nat
    /\ Cardinality(Undecided) \in Nat
    /\ Cardinality(Starting) \in Nat
<1>1. /\ Unfinished \subseteq JobIds /\ Undecided \subseteq JobIds
      /\ Starting \subseteq Starters
  BY DEF Unfinished, Undecided, Starting
<1> QED
  BY <1>1, Ids, StartersAssumption, Fewer

LEMMA MultiplyInit == Init => TurnsNeverMultiply
<1> SUFFICES ASSUME Init PROVE TurnsNeverMultiply
  OBVIOUS
<1>1. Unfinished = {} /\ Undecided = {} /\ Starting = {}
  BY DEF Init, Queue!Init, Unfinished, Undecided, Starting
<1> QED
  BY <1>1, FS_EmptySet DEF Init, TurnsNeverMultiply, UnderWay

\* Nothing new is under way.
Quieter ==
    /\ Unfinished' \subseteq Unfinished
    /\ Undecided' \subseteq Undecided
    /\ Starting' \subseteq Starting
    /\ requests' \in Nat /\ faults' \in Nat
    /\ requests' >= requests /\ faults' >= faults

LEMMA QuieterKeeps == TypeInv /\ TurnsNeverMultiply /\ Quieter => TurnsNeverMultiply'
<1> SUFFICES ASSUME TypeInv, TurnsNeverMultiply, Quieter PROVE TurnsNeverMultiply'
  OBVIOUS
<1>1. /\ Cardinality(Unfinished') \in Nat
      /\ Cardinality(Unfinished') <= Cardinality(Unfinished)
  BY UnderWayFinite, Fewer DEF Quieter
<1>2. /\ Cardinality(Undecided') \in Nat
      /\ Cardinality(Undecided') <= Cardinality(Undecided)
  BY UnderWayFinite, Fewer DEF Quieter
<1>3. /\ Cardinality(Starting') \in Nat
      /\ Cardinality(Starting') <= Cardinality(Starting)
  BY UnderWayFinite, Fewer DEF Quieter
<1> QED
  BY <1>1, <1>2, <1>3, UnderWayFinite
     DEF TurnsNeverMultiply, UnderWay, Quieter, TypeInv, TypeOK

LEMMA CreateAddsOne ==
    ASSUME TypeInv, NEW r, CreateJob(r)
    PROVE  \E n \in JobIds : Unfinished' \subseteq Unfinished \union {n}
<1>1. PICK n \in JobIds : state' = [state EXCEPT ![n] = "waiting"]
  BY DEF CreateJob, Queue!Submit
<1> QED
  BY <1>1 DEF Unfinished, TypeInv, TypeOK

LEMMA MultiplyCommands == TypeInv /\ TurnsNeverMultiply /\ Commands => TurnsNeverMultiply'
<1> SUFFICES ASSUME TypeInv, TurnsNeverMultiply, Commands PROVE TurnsNeverMultiply'
  OBVIOUS
<1> USE DEF TypeInv, TypeOK, ledger, specTable, runTable, runners, starters, history
<1>1. CASE \/ \E m \in Modes, n \in Caps : LoopSet(m, n)
           \/ LoopStop
           \/ \E c \in Starters : \/ StartEnables(c) \/ StartOpens(c) \/ StartCounts(c)
                                  \/ StartFails(c) \/ StartMiscounts(c)
  <2>1. /\ Unfinished' = Unfinished /\ Undecided' = Undecided
        /\ Starting' \subseteq Starting
    BY ZenonT(60), <1>1 DEF LoopSet, LoopStop, StartEnables, StartOpens, StartCounts, StartFails,
                StartMiscounts, Step, Unfinished, Undecided, Starting
  <2>2. requests' = requests /\ faults' \in {faults, faults + 1}
    BY <1>1 DEF LoopSet, LoopStop, StartEnables, StartOpens, StartCounts, StartFails,
                StartMiscounts, FaultAllowed
  <2> QED
    BY <2>1, <2>2, QuieterKeeps DEF Quieter
<1>2. CASE PlainTurn
  <2>1. PICK n \in JobIds : Unfinished' \subseteq Unfinished \union {n}
    BY <1>2, CreateAddsOne DEF PlainTurn
  <2>2. Cardinality(Unfinished') \in Nat /\ Cardinality(Unfinished') <= Cardinality(Unfinished) + 1
    BY <2>1, OneMore, UnderWayFinite
  <2>3. /\ Undecided' = Undecided /\ Starting' = Starting
        /\ requests' = requests + 1 /\ faults' = faults
    BY <1>2 DEF PlainTurn, Undecided, Starting
  <2> QED
    BY <2>2, <2>3, UnderWayFinite DEF TurnsNeverMultiply, UnderWay
<1>3. ASSUME NEW c \in Starters, LoopStart(c) PROVE TurnsNeverMultiply'
  <2>1. /\ Unfinished' = Unfinished /\ Undecided' = Undecided
        /\ Starting' \subseteq Starting \union {c}
        /\ requests' = requests + 1 /\ faults' = faults
    BY <1>3 DEF LoopStart, Unfinished, Undecided, Starting
  <2>2. Cardinality(Starting') \in Nat /\ Cardinality(Starting') <= Cardinality(Starting) + 1
    BY <2>1, OneMore, UnderWayFinite
  <2> QED
    BY <2>1, <2>2, UnderWayFinite DEF TurnsNeverMultiply, UnderWay
<1>4. ASSUME NEW c \in Starters, StartCreates(c) PROVE TurnsNeverMultiply'
  <2>1. PICK n \in JobIds : Unfinished' \subseteq Unfinished \union {n}
    BY <1>4, CreateAddsOne DEF StartCreates
  <2>2. Cardinality(Unfinished') \in Nat /\ Cardinality(Unfinished') <= Cardinality(Unfinished) + 1
    BY <2>1, OneMore, UnderWayFinite
  <2>3. /\ c \in Starting /\ Starting' \subseteq Starting \ {c}
        /\ Undecided' = Undecided /\ requests' = requests /\ faults' = faults
    BY <1>4 DEF StartCreates, Step, Undecided, Starting
  <2>4. Cardinality(Starting') \in Nat /\ Cardinality(Starting') <= Cardinality(Starting) - 1
    BY <2>3, OneLess, UnderWayFinite
  <2> QED
    BY <2>2, <2>3, <2>4, UnderWayFinite DEF TurnsNeverMultiply, UnderWay
<1> QED
  BY <1>1, <1>2, <1>3, <1>4 DEF Commands

LEMMA MultiplyPool == TypeInv /\ TurnsNeverMultiply /\ Pool => TurnsNeverMultiply'
<1> SUFFICES ASSUME TypeInv, TurnsNeverMultiply, Pool PROVE TurnsNeverMultiply'
  OBVIOUS
<1> USE DEF TypeInv, TypeOK, poolRest, starters
<1>1. ASSUME NEW j \in JobIds, Take(j) \/ PutBack(j) \/ Bury(j) PROVE TurnsNeverMultiply'
  <2>1. Unfinished' \subseteq Unfinished
    BY <1>1 DEF Take, PutBack, Bury, Queue!Take, Queue!PutBack, Queue!Bury, Queue!Settle,
                Unfinished
  <2>2. /\ Undecided' = Undecided /\ Starting' = Starting
        /\ requests' = requests /\ faults' \in {faults, faults + 1}
    BY <1>1 DEF Take, PutBack, Bury, FaultAllowed, Undecided, Starting
  <2> QED
    BY <2>1, <2>2, QuieterKeeps DEF Quieter
<1>2. ASSUME NEW j \in JobIds, Lose(j) PROVE TurnsNeverMultiply'
  <2>1. Undecided' \subseteq Undecided \union {j}
    BY <1>2 DEF Lose, Undecided
  <2>2. Cardinality(Undecided') \in Nat /\ Cardinality(Undecided') <= Cardinality(Undecided) + 1
    BY <2>1, OneMore, UnderWayFinite
  <2>3. /\ Unfinished' = Unfinished /\ Starting' = Starting
        /\ requests' = requests /\ faults' = faults + 1
    BY <1>2 DEF Lose, Queue!Vanish, FaultAllowed, Unfinished, Starting
  <2> QED
    BY <2>2, <2>3, UnderWayFinite DEF TurnsNeverMultiply, UnderWay
<1>3. ASSUME NEW j \in JobIds, Finish(j) PROVE TurnsNeverMultiply'
  <2>1. /\ j \in Unfinished /\ Unfinished' \subseteq Unfinished \ {j}
        /\ Undecided' \subseteq Undecided \union {j}
    BY <1>3 DEF Finish, Queue!Finish, Queue!Settle, Unfinished, Undecided
  <2>2. Cardinality(Unfinished') \in Nat /\ Cardinality(Unfinished') <= Cardinality(Unfinished) - 1
    BY <2>1, OneLess, UnderWayFinite
  <2>3. Cardinality(Undecided') \in Nat /\ Cardinality(Undecided') <= Cardinality(Undecided) + 1
    BY <2>1, OneMore, UnderWayFinite
  <2>4. Starting' = Starting /\ requests' = requests /\ faults' = faults
    BY <1>3 DEF Finish, Starting
  <2> QED
    BY <2>2, <2>3, <2>4, UnderWayFinite DEF TurnsNeverMultiply, UnderWay
<1>4. CASE Crash
  <2>1. /\ Unfinished' = Unfinished /\ Undecided' = {} /\ Starting' = Starting
        /\ requests' = requests
    BY <1>4 DEF Crash, Queue!Vanish, Unfinished, Undecided, Starting
  <2>2. faults' \in Nat /\ faults' >= faults
    BY <1>4, JobSets DEF Crash
  <2> QED
    BY <2>1, <2>2, QuieterKeeps DEF Quieter
<1>5. ASSUME NEW S \in SUBSET JobIds, Restart(S) PROVE TurnsNeverMultiply'
  <2>1. Unfinished' \subseteq Unfinished
    BY <1>5 DEF Restart, Queue!Recover, Unfinished
  <2>2. /\ Undecided' = Undecided /\ Starting' = Starting
        /\ requests' = requests /\ faults' = faults
    BY <1>5 DEF Restart, Undecided, Starting
  <2> QED
    BY <2>1, <2>2, QuieterKeeps DEF Quieter
<1> QED
  BY <1>1, <1>2, <1>3, <1>4, <1>5 DEF Pool

LEMMA MultiplyRunner ==
    ASSUME TypeInv, TurnsNeverMultiply, NEW j \in JobIds, RunLoop(j)
    PROVE  TurnsNeverMultiply'
<1> USE DEF TypeInv, TypeOK, Goto, Return, clients, starters, ledger
<1>1. CASE CreateNext(j)
  <2>1. PICK n \in JobIds : Unfinished' \subseteq Unfinished \union {n}
    BY <1>1, CreateAddsOne DEF CreateNext
  <2>2. Cardinality(Unfinished') \in Nat /\ Cardinality(Unfinished') <= Cardinality(Unfinished) + 1
    BY <2>1, OneMore, UnderWayFinite
  <2>3. /\ j \in Undecided /\ Undecided' \subseteq Undecided \ {j}
        /\ Starting' = Starting /\ requests' = requests /\ faults' = faults
    BY <1>1 DEF CreateNext, Undecided, Starting
  <2>4. Cardinality(Undecided') \in Nat /\ Cardinality(Undecided') <= Cardinality(Undecided) - 1
    BY <2>3, OneLess, UnderWayFinite
  <2> QED
    BY <2>2, <2>3, <2>4, UnderWayFinite DEF TurnsNeverMultiply, UnderWay
<1>2. CASE ~CreateNext(j)
  <2>1. /\ state' = state /\ cpc' = cpc /\ requests' = requests
        /\ faults' \in {faults, faults + 1}
    BY <1>2 DEF RunLoop, LoadSpec, NoLoop, FindRun, NoActiveRun, OpenRun, CountFirst,
                DecideToStop, DecideToGoOn, DecideNothing, Stop, Disable, CountNext,
                RunnerFails, BestEffort, FaultAllowed
  <2>2. \E from \in RunnerPCs \ {"idle"}, to \in RunnerPCs :
            /\ rpc[j] = from /\ rpc' = [rpc EXCEPT ![j] = to]
            /\ from = "count" => to = "idle"
    BY <1>2 DEF RunLoop, LoadSpec, NoLoop, FindRun, NoActiveRun, OpenRun, CountFirst,
                DecideToStop, DecideToGoOn, DecideNothing, Stop, Disable, CountNext,
                RunnerFails, RunnerPCs
  <2>3. Undecided' \subseteq Undecided
    BY <2>2 DEF Undecided
  <2> QED
    BY <2>1, <2>3, QuieterKeeps DEF Quieter, Unfinished, Starting
<1> QED
  BY <1>1, <1>2

\* For every turn that was asked for there is at most one under way, unless a
\* fault had an outcome forgotten.
THEOREM TurnsStaySingle == Spec => []TurnsNeverMultiply
<1>1. TypeInv /\ TurnsNeverMultiply /\ [Next]_vars => TurnsNeverMultiply'
  <2>1. UNCHANGED vars /\ TurnsNeverMultiply => TurnsNeverMultiply'
    BY DEF vars, ledger, runners, starters, history, TurnsNeverMultiply, UnderWay,
           Unfinished, Undecided, Starting
  <2> QED
    BY <2>1, MultiplyCommands, MultiplyPool, MultiplyRunner DEF Next
<1> QED
  BY <1>1, MultiplyInit, TypeAlways, PTL DEF Spec

-----------------------------------------------------------------------------
(* A loop that is on does not run dry silently: a step that empties the    *)
(* three sets is one that ends the loop, buries a job or is a fault.       *)

Smallest == OpToRel(<, Nat)

LEMMA FirstExists == ASSUME NEW S, S \subseteq Nat, S # {} PROVE \E i \in S : First(S, i)
<1>1. \E x \in S : \A y \in S : ~ (<<y, x>> \in Smallest)
  BY NatLessThanWellFounded, WFMin DEF Smallest
<1>2. PICK x \in S : \A y \in S : ~ (<<y, x>> \in Smallest)
  BY <1>1
<1>3. \A y \in S : ~(y < x)
  BY <1>2 DEF Smallest, OpToRel
<1> QED
  BY <1>2, <1>3 DEF First

LEMMA DryMeansEmpty == UnderWay = 0 <=> Unfinished = {} /\ Undecided = {} /\ Starting = {}
<1>1. /\ Cardinality(Unfinished) = 0 <=> Unfinished = {}
      /\ Cardinality(Undecided) = 0 <=> Undecided = {}
      /\ Cardinality(Starting) = 0 <=> Starting = {}
  BY UnderWayFinite, FS_EmptySet
<1> QED
  BY <1>1, UnderWayFinite DEF UnderWay

\* The same of the next state.
LEMMA DryNext == UnderWay' = 0 => Unfinished' = {} /\ Undecided' = {} /\ Starting' = {}
<1>1. /\ Unfinished' \subseteq JobIds /\ Undecided' \subseteq JobIds
      /\ Starting' \subseteq Starters
  BY DEF Unfinished, Undecided, Starting
<1>2. /\ IsFiniteSet(Unfinished') /\ IsFiniteSet(Undecided') /\ IsFiniteSet(Starting')
      /\ Cardinality(Unfinished') \in Nat
      /\ Cardinality(Undecided') \in Nat
      /\ Cardinality(Starting') \in Nat
  BY <1>1, Ids, StartersAssumption, Fewer
<1>3. /\ Cardinality(Unfinished') = 0 => Unfinished' = {}
      /\ Cardinality(Undecided') = 0 => Undecided' = {}
      /\ Cardinality(Starting') = 0 => Starting' = {}
  BY <1>2, FS_EmptySet
<1> QED
  <2> SUFFICES ASSUME UnderWay' = 0
               PROVE  Unfinished' = {} /\ Undecided' = {} /\ Starting' = {}
    OBVIOUS
  <2>1. Cardinality(Unfinished') + Cardinality(Undecided') + Cardinality(Starting') = 0
    BY DEF UnderWay
  <2>2. /\ Cardinality(Unfinished') = 0 /\ Cardinality(Undecided') = 0
        /\ Cardinality(Starting') = 0
    BY <1>2, <2>1
  <2> QED
    BY <1>3, <2>2

\* The step in question: the loop is on before and after, the last turn ends.
RunsDry == /\ LoopOn /\ LoopOn'
           /\ Unfinished \union Undecided # {} \/ Starting # {}
           /\ Unfinished' = {} /\ Undecided' = {} /\ Starting' = {}

Buries == \E j \in JobIds : state[j] # "dead" /\ state'[j] = "dead"

LEMMA CreateIsUnfinished == ASSUME TypeInv, NEW r, CreateJob(r) PROVE Unfinished' # {}
  BY DEF CreateJob, Queue!Submit, Unfinished, TypeInv, TypeOK

LEMMA CommandsNeverDry == TypeInv /\ RunsDry /\ Commands => faults' > faults
<1> SUFFICES ASSUME TypeInv, RunsDry, Commands PROVE faults' > faults
  OBVIOUS
<1> USE DEF TypeInv, TypeOK, RunsDry, ledger, specTable, runTable, runners, starters, history
<1>1. CASE \/ \E m \in Modes, n \in Caps : LoopSet(m, n)
           \/ LoopStop
           \/ \E c \in Starters : LoopStart(c) \/ StartEnables(c) \/ StartOpens(c) \/ StartCounts(c)
  <2>1. /\ Unfinished' = Unfinished /\ Undecided' = Undecided
        /\ \/ UNCHANGED cpc
           \/ \E c \in Starters, to \in {"enable", "open", "count", "create"} :
                 cpc' = [cpc EXCEPT ![c] = to]
    BY <1>1 DEF LoopSet, LoopStop, LoopStart, StartEnables, StartOpens, StartCounts, Step,
                Unfinished, Undecided
  <2>2. Starting \subseteq Starting'
    BY <2>1 DEF Starting
  <2> QED
    BY <2>1, <2>2
<1>2. CASE PlainTurn \/ \E c \in Starters : StartCreates(c)
  BY <1>2, CreateIsUnfinished DEF PlainTurn, StartCreates
<1>3. CASE \E c \in Starters : StartFails(c) \/ StartMiscounts(c)
  BY <1>3 DEF StartFails, StartMiscounts, FaultAllowed
<1> QED
  BY <1>1, <1>2, <1>3 DEF Commands

LEMMA PoolNeverDry == TypeInv /\ RunsDry /\ Pool => faults' > faults \/ Buries
<1> SUFFICES ASSUME TypeInv, RunsDry, Pool PROVE faults' > faults \/ Buries
  OBVIOUS
<1> USE DEF TypeInv, TypeOK, RunsDry, poolRest, starters
<1>1. ASSUME NEW j \in JobIds, Take(j) PROVE FALSE
  BY <1>1 DEF Take, Queue!Take, Unfinished
<1>2. ASSUME NEW j \in JobIds, PutBack(j) PROVE FALSE
  BY <1>2 DEF PutBack, Queue!PutBack, Queue!Settle, Unfinished
<1>3. ASSUME NEW j \in JobIds, Bury(j) PROVE Buries
  BY <1>3 DEF Bury, Queue!Bury, Queue!Settle, Buries
<1>4. ASSUME NEW j \in JobIds, Lose(j) PROVE faults' > faults
  BY <1>4 DEF Lose, FaultAllowed
<1>5. ASSUME NEW j \in JobIds, Finish(j) PROVE FALSE
  BY <1>5 DEF Finish, Undecided
<1>6. ASSUME Crash PROVE faults' > faults
  <2>1. Cardinality({j \in JobIds : rpc[j] # "idle"}) \in Nat
    BY JobSets
  <2> QED
    BY <1>6, <2>1 DEF Crash
<1>7. ASSUME NEW S \in SUBSET JobIds, Restart(S) PROVE FALSE
  <2>1. S # {} /\ \A j \in S : state'[j] = "waiting"
    BY <1>7 DEF Restart, Queue!Recover
  <2> QED
    BY <2>1 DEF Unfinished
<1> QED
  BY <1>1, <1>2, <1>3, <1>4, <1>5, <1>6, <1>7 DEF Pool

LEMMA RunnerNeverDry ==
    ASSUME TypeInv, RunsDry, NEW j \in JobIds, RunLoop(j)
    PROVE  faults' > faults
<1> USE DEF TypeInv, TypeOK, RunsDry, Goto, Return, clients, starters, ledger
<1>1. ASSUME CreateNext(j) PROVE FALSE
  BY <1>1, CreateIsUnfinished DEF CreateNext
<1>2. ASSUME NoLoop(j) PROVE FALSE
  <2>1. EnabledSpecs # {} /\ EnabledSpecs \subseteq SpecIds
    BY DEF LoopOn, EnabledSpecs
  <2>2. PICK i \in SpecIds : First(EnabledSpecs, i)
    BY <2>1, FirstExists, Ids
  <2>3. mode[i] = "manual"
    BY <1>2, <2>2 DEF NoLoop
  <2> QED
    BY <2>2, <2>3 DEF LoopOn
<1>3. ASSUME DecideNothing(j) PROVE FALSE
  <2>1. spec[j] \in SpecIds /\ mode[spec[j]] = "watcher"
    BY <1>3 DEF DecideNothing, Held, Specs
  <2> QED
    BY <2>1 DEF LoopOn
<1>4. ASSUME Disable(j) PROVE faults' > faults
  <2>1. ASSUME SetLoopEnabled(FALSE) PROVE FALSE
    <3>1. EnabledSpecs' = {}
      BY <2>1 DEF SetLoopEnabled, EnabledSpecs
    <3> QED
      BY <3>1 DEF LoopOn
  <2> QED
    <3>1. FaultAllowed
      BY <1>4, <2>1 DEF Disable, BestEffort
    <3> QED
      BY <3>1 DEF FaultAllowed
<1>5. ASSUME CountNext(j) PROVE FALSE
  <2>1. Unfinished' = Unfinished /\ Undecided' = Undecided /\ Starting' = Starting
    BY <1>5 DEF CountNext, Unfinished, Undecided, Starting
  <2> QED
    BY <2>1
<1>6. ASSUME NEW at \in {"load", "find", "open", "create"}, RunnerFails(j, at)
      PROVE  faults' > faults
  BY <1>6 DEF RunnerFails, FaultAllowed
<1>7. ASSUME \/ LoadSpec(j) \/ FindRun(j) \/ NoActiveRun(j) \/ OpenRun(j) \/ CountFirst(j)
             \/ DecideToStop(j) \/ DecideToGoOn(j) \/ Stop(j)
      PROVE  FALSE
  <2>1. \E to \in RunnerPCs \ {"idle", "count"} : rpc' = [rpc EXCEPT ![j] = to]
    BY <1>7 DEF LoadSpec, FindRun, NoActiveRun, OpenRun, CountFirst, DecideToStop,
                DecideToGoOn, Stop, RunnerPCs
  <2>2. j \in Undecided'
    BY <2>1 DEF Undecided
  <2> QED
    BY <2>2
<1> QED
  BY <1>1, <1>2, <1>3, <1>4, <1>5, <1>6, <1>7 DEF RunLoop

\* While the loop stays on, its last turn ends only in the dead-letter table or
\* in a fault.
THEOREM LoopNeverStalls == Spec => NoSilentStall
<1>1. ASSUME TypeInv, [Next]_vars, LoopOn, UnderWay > 0, LoopOn', UnderWay' = 0
      PROVE  faults' > faults \/ Buries
  <2>1. RunsDry
    <3>1. Unfinished' = {} /\ Undecided' = {} /\ Starting' = {}
      BY <1>1, DryNext
    <3>2. UnderWay # 0
      BY <1>1, UnderWayFinite DEF UnderWay
    <3> QED
      BY <1>1, <3>1, <3>2, DryMeansEmpty DEF RunsDry
  <2>2. CASE UNCHANGED vars
    BY <2>1, <2>2 DEF vars, ledger, runners, starters, RunsDry, Unfinished, Undecided, Starting
  <2> QED
    BY <1>1, <2>1, <2>2, CommandsNeverDry, PoolNeverDry, RunnerNeverDry DEF Next
<1>2. TypeInv /\ [Next]_vars => [LoopOn /\ UnderWay > 0 /\ LoopOn' /\ UnderWay' = 0
         => \/ faults' > faults
            \/ \E j \in JobIds : state[j] # "dead" /\ state'[j] = "dead"]_vars
  BY <1>1 DEF Buries
<1> QED
  BY <1>2, TypeAlways, PTL DEF Spec, NoSilentStall

-----------------------------------------------------------------------------
(* A runner follows a job that is over, or one whose outcome was lost; the *)
(* same job has not been given out again.                                  *)

Followed ==
    \A j \in JobIds :
        /\ j \in executing => state[j] = "taken"
        /\ rpc[j] # "idle" => j \notin executing /\ state[j] \in {"taken", "done"}

LEMMA FollowedCommands == TypeInv /\ Followed /\ Commands => Followed'
<1> SUFFICES ASSUME TypeInv, Followed, Commands PROVE Followed'
  OBVIOUS
<1>1. UNCHANGED <<rpc, executing>>
  BY DEF Commands, LoopSet, LoopStop, PlainTurn, LoopStart, StartEnables, StartOpens,
         StartCounts, StartCreates, StartFails, StartMiscounts, ledger, runners,
         CreateJob, Queue!Submit
<1>2. \/ UNCHANGED state
      \/ \E n \in JobIds : state[n] = "none" /\ state' = [state EXCEPT ![n] = "waiting"]
  BY DEF Commands, LoopSet, LoopStop, PlainTurn, LoopStart, StartEnables, StartOpens,
         StartCounts, StartCreates, StartFails, StartMiscounts, ledger, runners,
         CreateJob, Queue!Submit
<1> QED
  BY <1>1, <1>2 DEF Followed, TypeInv, TypeOK

LEMMA FollowedPool == TypeInv /\ Followed /\ Pool => Followed'
<1> SUFFICES ASSUME TypeInv, Followed, Pool PROVE Followed'
  OBVIOUS
<1> USE DEF Followed, TypeInv, TypeOK
<1>1. ASSUME NEW j \in JobIds, Take(j) PROVE Followed'
  BY <1>1 DEF Take, Queue!Take
<1>2. ASSUME NEW j \in JobIds, PutBack(j) PROVE Followed'
  BY <1>2 DEF PutBack, Queue!PutBack, Queue!Settle
<1>3. ASSUME NEW j \in JobIds, Bury(j) PROVE Followed'
  BY <1>3 DEF Bury, Queue!Bury, Queue!Settle
<1>4. ASSUME NEW j \in JobIds, Lose(j) PROVE Followed'
  BY <1>4 DEF Lose, Queue!Vanish
<1>5. ASSUME NEW j \in JobIds, Finish(j) PROVE Followed'
  BY <1>5 DEF Finish, Queue!Finish, Queue!Settle
<1>6. CASE Crash
  BY <1>6 DEF Crash, Queue!Vanish
<1>7. ASSUME NEW S \in SUBSET JobIds, Restart(S) PROVE Followed'
  BY <1>7 DEF Restart, Queue!Recover
<1> QED
  BY <1>1, <1>2, <1>3, <1>4, <1>5, <1>6, <1>7 DEF Pool

LEMMA FollowedRunner ==
    ASSUME TypeInv, Followed, NEW j \in JobIds, RunLoop(j)
    PROVE  Followed'
<1>1. rpc[j] # "idle" /\ \E to \in RunnerPCs : rpc' = [rpc EXCEPT ![j] = to]
  BY DEF RunLoop, LoadSpec, NoLoop, FindRun, NoActiveRun, OpenRun, CountFirst,
         DecideToStop, DecideToGoOn, DecideNothing, Stop, Disable, CreateNext, CountNext,
         RunnerFails, Goto, Return, RunnerPCs
<1>2. UNCHANGED executing
  BY DEF RunLoop, LoadSpec, NoLoop, FindRun, NoActiveRun, OpenRun, CountFirst,
         DecideToStop, DecideToGoOn, DecideNothing, Stop, Disable, CreateNext, CountNext,
         RunnerFails, ledger, CreateJob, Queue!Submit
<1>3. \/ UNCHANGED state
      \/ \E n \in JobIds : state[n] = "none" /\ state' = [state EXCEPT ![n] = "waiting"]
  BY DEF RunLoop, LoadSpec, NoLoop, FindRun, NoActiveRun, OpenRun, CountFirst,
         DecideToStop, DecideToGoOn, DecideNothing, Stop, Disable, CreateNext, CountNext,
         RunnerFails, ledger, CreateJob, Queue!Submit
<1> QED
  BY <1>1, <1>2, <1>3 DEF Followed, TypeInv, TypeOK

LEMMA FollowedAlways == Spec => []Followed
<1>1. Init => Followed
  BY DEF Init, Queue!Init, Followed
<1>2. TypeInv /\ Followed /\ [Next]_vars => Followed'
  <2>1. UNCHANGED vars /\ Followed => Followed'
    BY DEF vars, ledger, runners, Followed
  <2> QED
    BY <2>1, FollowedCommands, FollowedPool, FollowedRunner DEF Next
<1> QED
  BY <1>1, <1>2, TypeAlways, PTL DEF Spec

-----------------------------------------------------------------------------
(* Who is about to increment turns_enqueued of run r.                      *)

\* A runner that opened r and has not counted the turn before it.
Opening(r) == {j \in JobIds : rpc[j] = "first" /\ run[j] = r}

\* A loop start that opened r and has not counted its first turn.
Ordering(r) == {c \in Starters : cpc[c] = "count" /\ crun[c] = r}

\* A loop start that counted the first turn of r, or failed to, and has not
\* created it.
Owing(r) == {c \in Starters : cpc[c] = "create" /\ crun[c] = r}

\* A runner that may still count in r after it read less than n.
Ahead(r, n) ==
    {j \in JobIds : /\ run[j] = r
                    /\ rpc[j] \in {"first", "decide", "create", "count"}
                    /\ seen[j] < n}

\* The initial count of r is still to come.
Fresh(r) == Cardinality(Opening(r)) + Cardinality(Ordering(r))

Turns(r) == Cardinality(TurnsOf(r))
ToCount(r) == Cardinality(Counting(r))

LEMMA RunSets ==
    \A r \in RunIds :
        /\ IsFiniteSet(Opening(r)) /\ Cardinality(Opening(r)) \in Nat
        /\ IsFiniteSet(Ordering(r)) /\ Cardinality(Ordering(r)) \in Nat
        /\ IsFiniteSet(Owing(r)) /\ Cardinality(Owing(r)) \in Nat
        /\ IsFiniteSet(TurnsOf(r)) /\ Turns(r) \in Nat
        /\ IsFiniteSet(Counting(r)) /\ ToCount(r) \in Nat
        /\ Fresh(r) \in Nat
        /\ \A n \in Nat : IsFiniteSet(Ahead(r, n)) /\ Cardinality(Ahead(r, n)) \in Nat
<1> SUFFICES ASSUME NEW r \in RunIds PROVE
        /\ IsFiniteSet(Opening(r)) /\ Cardinality(Opening(r)) \in Nat
        /\ IsFiniteSet(Ordering(r)) /\ Cardinality(Ordering(r)) \in Nat
        /\ IsFiniteSet(Owing(r)) /\ Cardinality(Owing(r)) \in Nat
        /\ IsFiniteSet(TurnsOf(r)) /\ Turns(r) \in Nat
        /\ IsFiniteSet(Counting(r)) /\ ToCount(r) \in Nat
        /\ Fresh(r) \in Nat
        /\ \A n \in Nat : IsFiniteSet(Ahead(r, n)) /\ Cardinality(Ahead(r, n)) \in Nat
  OBVIOUS
<1>1. /\ Opening(r) \subseteq JobIds /\ TurnsOf(r) \subseteq JobIds
      /\ Counting(r) \subseteq JobIds
      /\ \A n \in Nat : Ahead(r, n) \subseteq JobIds
  BY DEF Opening, TurnsOf, Counting, Ahead
<1>2. Ordering(r) \subseteq Starters /\ Owing(r) \subseteq Starters
  BY DEF Ordering, Owing
<1>3. /\ IsFiniteSet(Ordering(r)) /\ Cardinality(Ordering(r)) \in Nat
      /\ IsFiniteSet(Owing(r)) /\ Cardinality(Owing(r)) \in Nat
  BY <1>2, StartersAssumption, Fewer
<1> QED
  BY <1>1, <1>3, JobSets DEF Fresh, Turns, ToCount

-----------------------------------------------------------------------------
(* The count of turns.                                                     *)

\* A run is opened by one runner or one command, with no turns counted, and a
\* job joins a run when it is created.
Untouched ==
    /\ \A r \in RunIds : runStatus[r] = "absent" => enqueued[r] = 0
    /\ \A r \in RunIds : Fresh(r) <= 1
    /\ \A j \in JobIds : state[j] = "none" => loopRun[j] = Nil

Lags == \A r \in RunIds : Turns(r) + Cardinality(Owing(r)) <= enqueued[r] + ToCount(r) + faults

Leads == \A r \in RunIds : enqueued[r] + ToCount(r) + Fresh(r) <= Turns(r) + 1 + faults

Counted == TypeInv /\ Untouched /\ Lags /\ Leads

LEMMA CountedImplies == Counted => TurnsCounted
<1> SUFFICES ASSUME Counted, NEW r \in RunIds
             PROVE  /\ Turns(r) <= enqueued[r] + ToCount(r) + faults
                    /\ enqueued[r] <= Turns(r) + 1 + faults
  BY DEF TurnsCounted, Turns, ToCount
<1> QED
  BY RunSets DEF Counted, Lags, Leads, TypeInv, TypeOK

LEMMA CountedInit == Init => Counted
<1> SUFFICES ASSUME Init PROVE Counted
  OBVIOUS
<1>1. TypeInv
  BY TypeInit
<1>2. ASSUME NEW r \in RunIds
      PROVE  /\ Opening(r) = {} /\ Ordering(r) = {} /\ Owing(r) = {}
             /\ Counting(r) = {} /\ TurnsOf(r) = {}
  BY Ids DEF Init, Opening, Ordering, Owing, Counting, TurnsOf
<1>3. ASSUME NEW r \in RunIds
      PROVE  /\ Fresh(r) = 0 /\ Cardinality(Owing(r)) = 0
             /\ ToCount(r) = 0 /\ Turns(r) = 0
  BY <1>2, FS_EmptySet DEF Fresh, ToCount, Turns
<1> QED
  BY <1>1, <1>3 DEF Init, Counted, Untouched, Lags, Leads

\* Rows of runs and jobs that are absent stay as they are.
Intact ==
    /\ enqueued' = enqueued
    /\ \A r \in RunIds : runStatus'[r] = "absent" => runStatus[r] = "absent"
    /\ loopRun' = loopRun
    /\ \A j \in JobIds : state'[j] = "none" => state[j] = "none"
    /\ faults' \in {faults, faults + 1}

\* A step that counts and creates nothing.
Calm ==
    /\ Intact
    /\ \A r \in RunIds :
          /\ Opening(r)' \subseteq Opening(r) /\ Ordering(r)' \subseteq Ordering(r)
          /\ Owing(r)' \subseteq Owing(r) /\ Counting(r)' = Counting(r)

LEMMA CalmKeeps == Counted /\ TypeInv' /\ Calm => Counted'
<1> SUFFICES ASSUME Counted, TypeInv', Calm PROVE Counted'
  OBVIOUS
<1> USE DEF Counted, TypeInv, TypeOK
<1>1. ASSUME NEW r \in RunIds
      PROVE  /\ Fresh(r)' \in Nat /\ Fresh(r)' <= Fresh(r)
             /\ Cardinality(Owing(r)') \in Nat /\ Cardinality(Owing(r)') <= Cardinality(Owing(r))
             /\ ToCount(r)' = ToCount(r) /\ Turns(r)' = Turns(r)
  <2>1. /\ Cardinality(Opening(r)') \in Nat /\ Cardinality(Opening(r)') <= Cardinality(Opening(r))
        /\ Cardinality(Ordering(r)') \in Nat /\ Cardinality(Ordering(r)') <= Cardinality(Ordering(r))
        /\ Cardinality(Owing(r)') \in Nat /\ Cardinality(Owing(r)') <= Cardinality(Owing(r))
    BY RunSets, Fewer DEF Calm
  <2>2. Counting(r)' = Counting(r) /\ TurnsOf(r)' = TurnsOf(r)
    BY DEF Calm, Intact, TurnsOf
  <2> QED
    BY <2>1, <2>2, RunSets DEF Fresh, ToCount, Turns
<1>2. Untouched'
  BY <1>1, RunSets DEF Untouched, Calm, Intact
<1>3. Lags'
  BY <1>1, RunSets DEF Lags, Calm, Intact
<1>4. Leads'
  BY <1>1, RunSets DEF Leads, Calm, Intact
<1> QED
  BY <1>2, <1>3, <1>4

\* A created job is a turn of its run, and of no other.
LEMMA CreateAddsTurn ==
    ASSUME Counted, NEW r \in RunIds \union {Nil}, CreateJob(r)
    PROVE  /\ \A q \in RunIds : Turns(q)' = IF q = r THEN Turns(q) + 1 ELSE Turns(q)
           /\ \A j \in JobIds : state'[j] = "none" => loopRun'[j] = Nil
<1> USE DEF Counted, TypeInv, TypeOK
<1>1. PICK n \in JobIds : /\ state[n] = "none"
                          /\ state' = [state EXCEPT ![n] = "waiting"]
                          /\ loopRun' = [loopRun EXCEPT ![n] = r]
  BY DEF CreateJob, Queue!Submit
<1>2. loopRun[n] = Nil
  BY <1>1 DEF Untouched
<1>3. ASSUME NEW q \in RunIds
      PROVE  Turns(q)' = IF q = r THEN Turns(q) + 1 ELSE Turns(q)
  <2>1. n \notin TurnsOf(q)
    BY <1>2, Ids DEF TurnsOf
  <2>2. TurnsOf(q)' = IF q = r THEN TurnsOf(q) \union {n} ELSE TurnsOf(q)
    BY <1>1, <1>2, Ids DEF TurnsOf
  <2>3. Cardinality(TurnsOf(q) \union {n}) = Cardinality(TurnsOf(q)) + 1
    BY <2>1, RunSets, FS_AddElement
  <2> QED
    BY <2>2, <2>3 DEF Turns
<1> QED
  BY <1>1, <1>3 DEF Untouched

\* A run that is absent is nobody's.
LEMMA NobodyHoldsAbsent ==
    ASSUME TypeInv, NEW r \in RunIds, runStatus[r] = "absent"
    PROVE  /\ Opening(r) = {} /\ Ordering(r) = {} /\ Owing(r) = {} /\ Counting(r) = {}
           /\ \A n : Ahead(r, n) = {}
           /\ Fresh(r) = 0 /\ ToCount(r) = 0
<1>1. /\ Opening(r) = {} /\ Ordering(r) = {} /\ Owing(r) = {} /\ Counting(r) = {}
      /\ \A n : Ahead(r, n) = {}
  BY DEF TypeInv, Held, Runs, Opening, Ordering, Owing, Counting, Ahead
<1> QED
  BY <1>1, FS_EmptySet DEF Fresh, ToCount

LEMMA CommandsCount == Counted /\ TypeInv' /\ Commands => Counted'
<1> SUFFICES ASSUME Counted, TypeInv', Commands PROVE Counted'
  OBVIOUS
<1> USE Ids DEF Counted, TypeInv, TypeOK, ledger, specTable, runTable, runners, starters, history
<1>1. CASE \/ \E m \in Modes, n \in Caps : LoopSet(m, n)
           \/ LoopStop
           \/ \E c \in Starters : LoopStart(c) \/ StartEnables(c) \/ StartFails(c)
  <2>1. Intact
    BY <1>1 DEF LoopSet, LoopStop, LoopStart, StartEnables, StartFails, FaultAllowed, Intact
  <2>2. \A r \in RunIds :
          /\ Opening(r)' = Opening(r) /\ Counting(r)' = Counting(r)
          /\ Ordering(r)' \subseteq Ordering(r) /\ Owing(r)' \subseteq Owing(r)
    <3>1. UNCHANGED <<rpc, run>>
      BY <1>1 DEF LoopSet, LoopStop, LoopStart, StartEnables, StartFails
    <3>2. \/ UNCHANGED <<cpc, crun>>
          \/ \E c \in Starters :
                 /\ \E to \in {"idle", "enable", "open"} : cpc' = [cpc EXCEPT ![c] = to]
                 /\ crun' \in {crun, [crun EXCEPT ![c] = Nil]}
      BY <1>1 DEF LoopSet, LoopStop, LoopStart, StartEnables, StartFails, Step
    <3>3. \A c \in Starters : cpc'[c] \in {"count", "create"} => cpc'[c] = cpc[c] /\ crun'[c] = crun[c]
      BY <3>2
    <3> QED
      BY <3>1, <3>3 DEF Opening, Ordering, Owing, Counting
  <2> QED
    BY <2>1, <2>2, CalmKeeps DEF Calm
<1>2. CASE PlainTurn
  <2>1. \A r \in RunIds : /\ Opening(r)' = Opening(r) /\ Counting(r)' = Counting(r)
                          /\ Ordering(r)' = Ordering(r) /\ Owing(r)' = Owing(r)
    BY <1>2 DEF PlainTurn, Opening, Ordering, Owing, Counting
  <2>2. /\ \A r \in RunIds : Turns(r)' = Turns(r)
        /\ \A j \in JobIds : state'[j] = "none" => loopRun'[j] = Nil
    <3>1. CreateJob(Nil) /\ Nil \in RunIds \union {Nil}
      BY <1>2 DEF PlainTurn
    <3>2. /\ \A q \in RunIds : Turns(q)' = IF q = Nil THEN Turns(q) + 1 ELSE Turns(q)
          /\ \A j \in JobIds : state'[j] = "none" => loopRun'[j] = Nil
      BY <3>1, CreateAddsTurn
    <3> QED
      BY <3>2
  <2>3. \A r \in RunIds : Fresh(r)' = Fresh(r) /\ ToCount(r)' = ToCount(r)
    BY <2>1 DEF Fresh, ToCount
  <2>4. UNCHANGED <<runStatus, enqueued, faults>>
    BY <1>2 DEF PlainTurn
  <2> QED
    BY <2>1, <2>2, <2>3, <2>4, RunSets DEF Untouched, Lags, Leads
<1>3. ASSUME NEW c \in Starters, StartOpens(c) PROVE Counted'
  <2>1. PICK r \in RunIds : StartLoopRun(r) /\ crun' = [crun EXCEPT ![c] = r]
    BY <1>3 DEF StartOpens
  <2>2. /\ runStatus[r] = "absent" /\ runStatus' = [runStatus EXCEPT ![r] = "active"]
        /\ enqueued' = enqueued
    BY <2>1 DEF StartLoopRun, First
  <2>3. /\ UNCHANGED <<rpc, run, loopRun, state, faults>>
        /\ cpc[c] = "open" /\ cpc' = [cpc EXCEPT ![c] = "count"]
    BY <1>3 DEF StartOpens, Step
  <2>4. \A q \in RunIds : /\ Opening(q)' = Opening(q) /\ Counting(q)' = Counting(q)
                          /\ Owing(q)' \subseteq Owing(q) /\ TurnsOf(q)' = TurnsOf(q)
                          /\ q # r => Ordering(q)' \subseteq Ordering(q)
    BY <2>1, <2>3 DEF Opening, Counting, Owing, TurnsOf, Ordering
  <2>5. Fresh(r) = 0 /\ ToCount(r) = 0 /\ Ordering(r) = {} /\ Opening(r) = {} /\ enqueued[r] = 0
    BY <2>2, NobodyHoldsAbsent DEF Untouched
  <2>6. Ordering(r)' = {c}
    BY <2>1, <2>3, <2>5 DEF Ordering
  <2>7. Fresh(r)' = 1
    <3>1. Cardinality(Opening(r)') = 0
      BY <2>4, <2>5, FS_EmptySet
    <3>2. Cardinality(Ordering(r)') = 1
      BY <2>6, FS_Singleton
    <3> QED
      BY <3>1, <3>2 DEF Fresh
  <2>8. ASSUME NEW q \in RunIds
        PROVE  /\ ToCount(q)' = ToCount(q) /\ Turns(q)' = Turns(q)
               /\ Cardinality(Owing(q)') \in Nat /\ Cardinality(Owing(q)') <= Cardinality(Owing(q))
               /\ q # r => Fresh(q)' \in Nat /\ Fresh(q)' <= Fresh(q)
    <3>1. /\ Cardinality(Owing(q)') \in Nat /\ Cardinality(Owing(q)') <= Cardinality(Owing(q))
          /\ Cardinality(Opening(q)') = Cardinality(Opening(q))
      BY <2>4, RunSets, Fewer
    <3>2. q # r => /\ Cardinality(Ordering(q)') \in Nat
                   /\ Cardinality(Ordering(q)') <= Cardinality(Ordering(q))
      BY <2>4, RunSets, Fewer
    <3>3. q # r => Fresh(q)' \in Nat /\ Fresh(q)' <= Fresh(q)
      BY <3>1, <3>2, RunSets DEF Fresh
    <3> QED
      BY <3>1, <3>3, <2>4 DEF ToCount, Turns
  <2>9. Untouched'
    BY <2>2, <2>3, <2>7, <2>8, RunSets DEF Untouched
  <2>10. Lags'
    BY <2>2, <2>3, <2>8, RunSets DEF Lags
  <2>11. Leads'
    <3> SUFFICES ASSUME NEW q \in RunIds
                 PROVE  enqueued'[q] + ToCount(q)' + Fresh(q)' <= Turns(q)' + 1 + faults'
      BY DEF Leads
    <3>1. CASE q = r
      BY <3>1, <2>2, <2>3, <2>5, <2>7, <2>8, RunSets
    <3>2. CASE q # r
      BY <3>2, <2>2, <2>3, <2>8, RunSets DEF Leads
    <3> QED
      BY <3>1, <3>2
  <2> QED
    BY <2>9, <2>10, <2>11
<1>4. ASSUME NEW c \in Starters, StartCounts(c) \/ StartMiscounts(c) PROVE Counted'
  <2>1. PICK r \in RunIds : r = crun[c] /\ runStatus[r] # "absent"
    BY <1>4 DEF StartCounts, StartMiscounts, Step, Held, Runs
  <2>2. /\ UNCHANGED <<rpc, run, loopRun, state, runStatus, crun>>
        /\ cpc[c] = "count" /\ cpc' = [cpc EXCEPT ![c] = "create"]
        /\ \/ enqueued' = [enqueued EXCEPT ![r] = @ + 1] /\ faults' = faults
           \/ enqueued' = enqueued /\ faults' = faults + 1
    BY <1>4, <2>1 DEF StartCounts, StartMiscounts, Step, IncrementTurnEnqueued, FaultAllowed
  <2>3. \A q \in RunIds : /\ Opening(q)' = Opening(q) /\ Counting(q)' = Counting(q)
                          /\ TurnsOf(q)' = TurnsOf(q) /\ Ordering(q)' \subseteq Ordering(q)
                          /\ q # r => Owing(q)' = Owing(q)
    BY <2>1, <2>2 DEF Opening, Counting, Owing, TurnsOf, Ordering
  <2>4. /\ c \in Ordering(r) /\ Ordering(r)' \subseteq Ordering(r) \ {c}
        /\ Owing(r)' \subseteq Owing(r) \union {c}
    BY <2>1, <2>2 DEF Ordering, Owing
  <2>5. ASSUME NEW q \in RunIds
        PROVE  /\ ToCount(q)' = ToCount(q) /\ Turns(q)' = Turns(q)
               /\ q # r => Cardinality(Owing(q)') = Cardinality(Owing(q))
               /\ Fresh(q)' \in Nat /\ Fresh(q)' <= Fresh(q)
    <3>1. /\ Cardinality(Ordering(q)') \in Nat /\ Cardinality(Ordering(q)') <= Cardinality(Ordering(q))
          /\ Cardinality(Opening(q)') = Cardinality(Opening(q))
      BY <2>3, RunSets, Fewer
    <3>2. Fresh(q)' \in Nat /\ Fresh(q)' <= Fresh(q)
      BY <3>1, RunSets DEF Fresh
    <3> QED
      BY <3>2, <2>3 DEF ToCount, Turns
  <2>6. /\ Cardinality(Ordering(r)') \in Nat /\ Cardinality(Ordering(r)') <= Cardinality(Ordering(r)) - 1
        /\ Cardinality(Owing(r)') \in Nat /\ Cardinality(Owing(r)') <= Cardinality(Owing(r)) + 1
    <3>1. /\ Cardinality(Ordering(r)') \in Nat
          /\ Cardinality(Ordering(r)') <= Cardinality(Ordering(r)) - 1
      BY <2>4, RunSets, OneLess
    <3>2. /\ Cardinality(Owing(r)') \in Nat
          /\ Cardinality(Owing(r)') <= Cardinality(Owing(r)) + 1
      BY <2>4, RunSets, OneMore
    <3> QED
      BY <3>1, <3>2
  <2>7. Fresh(r)' <= Fresh(r) - 1
    BY <2>3, <2>6, RunSets DEF Fresh
  <2>8. Untouched'
    BY <2>1, <2>2, <2>5, RunSets DEF Untouched
  <2>9. ASSUME NEW q \in RunIds
        PROVE  /\ enqueued'[q] + ToCount(q)' + Fresh(q)' <= Turns(q)' + 1 + faults'
               /\ Turns(q)' + Cardinality(Owing(q)') <= enqueued'[q] + ToCount(q)' + faults'
    <3>1. CASE q = r
      BY <3>1, <2>2, <2>5, <2>6, <2>7, RunSets DEF Leads, Lags
    <3>2. CASE q # r
      BY <3>2, <2>2, <2>5, RunSets DEF Leads, Lags
    <3> QED
      BY <3>1, <3>2
  <2> QED
    BY <2>8, <2>9 DEF Leads, Lags
<1>5. ASSUME NEW c \in Starters, StartCreates(c) PROVE Counted'
  <2>1. PICK r \in RunIds : r = crun[c]
    BY <1>5 DEF StartCreates, Step, Held, Runs
  <2>2. /\ UNCHANGED <<rpc, run, runStatus, enqueued, faults>>
        /\ cpc[c] = "create" /\ cpc' = [cpc EXCEPT ![c] = "idle"]
    BY <1>5 DEF StartCreates, Step
  <2>3. \A q \in RunIds : /\ Opening(q)' = Opening(q) /\ Counting(q)' = Counting(q)
                          /\ Ordering(q)' \subseteq Ordering(q) /\ Owing(q)' \subseteq Owing(q)
    BY <1>5, <2>2 DEF StartCreates, Opening, Counting, Owing, Ordering
  <2>4. c \in Owing(r) /\ Owing(r)' \subseteq Owing(r) \ {c}
    BY <1>5, <2>1, <2>2 DEF StartCreates, Owing
  <2>5. /\ \A q \in RunIds : Turns(q)' = IF q = r THEN Turns(q) + 1 ELSE Turns(q)
        /\ \A j \in JobIds : state'[j] = "none" => loopRun'[j] = Nil
    BY <1>5, <2>1, CreateAddsTurn DEF StartCreates
  <2>6. ASSUME NEW q \in RunIds
        PROVE  /\ ToCount(q)' = ToCount(q) /\ Fresh(q)' \in Nat /\ Fresh(q)' <= Fresh(q)
               /\ Cardinality(Owing(q)') \in Nat /\ Cardinality(Owing(q)') <= Cardinality(Owing(q))
    <3>1. /\ Cardinality(Ordering(q)') \in Nat /\ Cardinality(Ordering(q)') <= Cardinality(Ordering(q))
          /\ Cardinality(Opening(q)') = Cardinality(Opening(q))
      BY <2>3, RunSets, Fewer
    <3>2. Cardinality(Owing(q)') \in Nat /\ Cardinality(Owing(q)') <= Cardinality(Owing(q))
      BY <2>3, RunSets, Fewer
    <3>3. Fresh(q)' \in Nat /\ Fresh(q)' <= Fresh(q)
      BY <3>1, RunSets DEF Fresh
    <3> QED
      BY <3>2, <3>3, <2>3 DEF ToCount
  <2>7. Cardinality(Owing(r)') <= Cardinality(Owing(r)) - 1
    BY <2>4, RunSets, OneLess
  <2>8. Untouched'
    BY <2>2, <2>5, <2>6, RunSets DEF Untouched
  <2>9. ASSUME NEW q \in RunIds
        PROVE  /\ enqueued'[q] + ToCount(q)' + Fresh(q)' <= Turns(q)' + 1 + faults'
               /\ Turns(q)' + Cardinality(Owing(q)') <= enqueued'[q] + ToCount(q)' + faults'
    <3>1. CASE q = r
      BY <3>1, <2>2, <2>5, <2>6, <2>7, RunSets DEF Leads, Lags
    <3>2. CASE q # r
      BY <3>2, <2>2, <2>5, <2>6, RunSets DEF Leads, Lags
    <3> QED
      BY <3>1, <3>2
  <2> QED
    BY <2>8, <2>9 DEF Leads, Lags
<1> QED
  BY <1>1, <1>2, <1>3, <1>4, <1>5 DEF Commands

LEMMA PoolCount == Counted /\ TypeInv' /\ Followed /\ Pool => Counted'
<1> SUFFICES ASSUME Counted, TypeInv', Followed, Pool PROVE Counted'
  OBVIOUS
<1> USE DEF Counted, TypeInv, TypeOK, poolRest, starters, runTable
<1>1. ASSUME NEW j \in JobIds, Take(j) \/ PutBack(j) \/ Bury(j) \/ Lose(j) \/ Finish(j)
      PROVE  Counted'
  <2>1. Intact
    BY <1>1 DEF Take, PutBack, Bury, Lose, Finish, FaultAllowed, Intact, Queue!Take,
                Queue!PutBack, Queue!Bury, Queue!Vanish, Queue!Finish, Queue!Settle
  <2>2. UNCHANGED <<run, cpc, crun>> /\ rpc' \in {rpc, [rpc EXCEPT ![j] = "load"]}
    BY <1>1 DEF Take, PutBack, Bury, Lose, Finish
  <2>3. \A i \in JobIds : rpc'[i] \in {"first", "count"} => rpc'[i] = rpc[i]
    BY <2>2
  <2>4. CASE UNCHANGED rpc
    BY <2>1, <2>2, <2>4, CalmKeeps DEF Calm, Opening, Ordering, Owing, Counting
  <2>5. CASE Lose(j) \/ Finish(j)
    <3>1. rpc[j] \notin {"first", "count"}
      BY <2>5 DEF Lose, Finish, Queue!Finish, Queue!Settle, Followed
    <3> QED
      BY <2>1, <2>2, <2>3, <3>1, CalmKeeps DEF Calm, Opening, Ordering, Owing, Counting
  <2> QED
    BY <1>1, <2>4, <2>5 DEF Take, PutBack, Bury
<1>2. CASE Crash
  <2>1. /\ UNCHANGED <<loopRun, state, runStatus, enqueued, cpc, crun>>
        /\ rpc' = [j \in JobIds |-> "idle"]
        /\ faults' = faults + 1 + Cardinality({j \in JobIds : rpc[j] # "idle"})
    BY <1>2 DEF Crash, Queue!Vanish
  <2>2. ASSUME NEW r \in RunIds
        PROVE  /\ Fresh(r)' \in Nat /\ Fresh(r)' <= Fresh(r) /\ ToCount(r)' = 0
               /\ Turns(r)' = Turns(r) /\ Owing(r)' = Owing(r)
               /\ faults' \in Nat /\ faults' >= faults + ToCount(r)
    <3>1. Opening(r)' = {} /\ Counting(r)' = {}
      BY <2>1 DEF Opening, Counting
    <3>2. Ordering(r)' = Ordering(r) /\ Owing(r)' = Owing(r) /\ TurnsOf(r)' = TurnsOf(r)
      BY <2>1 DEF Ordering, Owing, TurnsOf
    <3>3. Cardinality(Opening(r)') = 0 /\ Cardinality(Counting(r)') = 0
      BY <3>1, FS_EmptySet
    <3>4. Counting(r) \subseteq {j \in JobIds : rpc[j] # "idle"}
      BY DEF Counting
    <3>5. /\ Cardinality({j \in JobIds : rpc[j] # "idle"}) \in Nat
          /\ ToCount(r) <= Cardinality({j \in JobIds : rpc[j] # "idle"})
      BY <3>4, JobSets, Fewer DEF ToCount
    <3> QED
      BY <2>1, <3>2, <3>3, <3>5, RunSets DEF Fresh, ToCount, Turns
  <2>3. Untouched'
    BY <2>1, <2>2, RunSets DEF Untouched
  <2>4. Lags'
    BY <2>1, <2>2, RunSets DEF Lags
  <2>5. Leads'
    BY <2>1, <2>2, RunSets DEF Leads
  <2> QED
    BY <2>3, <2>4, <2>5
<1>3. ASSUME NEW S \in SUBSET JobIds, Restart(S) PROVE Counted'
  <2>1. Intact
    BY <1>3 DEF Restart, Queue!Recover, Intact
  <2>2. UNCHANGED <<rpc, run, cpc, crun>>
    BY <1>3 DEF Restart
  <2> QED
    BY <2>1, <2>2, CalmKeeps DEF Calm, Opening, Ordering, Owing, Counting
<1> QED
  BY <1>1, <1>2, <1>3 DEF Pool

\* Only runners that are about to count matter.
LEMMA SameRunners ==
    ASSUME \A i \in JobIds :
             \/ rpc'[i] = rpc[i] /\ run'[i] = run[i]
             \/ /\ rpc'[i] # "first" /\ rpc'[i] # "count"
                /\ rpc[i] # "first" /\ rpc[i] # "count"
    PROVE  \A r \in RunIds : Opening(r)' = Opening(r) /\ Counting(r)' = Counting(r)
  BY DEF Opening, Counting

LEMMA RunnerCount ==
    ASSUME Counted, TypeInv', NEW j \in JobIds, RunLoop(j)
    PROVE  Counted'
<1> USE Ids DEF Counted, TypeInv, TypeOK, Held, Runs, clients, starters, runTable, ledger,
               Goto, Return
<1>1. CASE \/ LoadSpec(j) \/ NoLoop(j) \/ FindRun(j) \/ NoActiveRun(j)
           \/ DecideToStop(j) \/ DecideToGoOn(j) \/ DecideNothing(j)
           \/ Stop(j) \/ Disable(j)
           \/ \E at \in {"load", "find", "open", "create"} : RunnerFails(j, at)
  <2>1. /\ UNCHANGED <<state, loopRun, enqueued, cpc, crun>>
        /\ faults' \in {faults, faults + 1}
    BY <1>1 DEF LoadSpec, NoLoop, FindRun, NoActiveRun, DecideToStop, DecideToGoOn,
                DecideNothing, Stop, Disable, RunnerFails, BestEffort, FaultAllowed, StopLoopRun
  <2>2. \E from, to \in RunnerPCs \ {"first", "count"} :
           rpc[j] = from /\ rpc' = [rpc EXCEPT ![j] = to]
    BY <1>1 DEF LoadSpec, NoLoop, FindRun, NoActiveRun, DecideToStop, DecideToGoOn,
                DecideNothing, Stop, Disable, RunnerFails, RunnerPCs
  <2>3. \A i \in JobIds \ {j} : run'[i] = run[i]
    <3>1. \/ run' = run
          \/ \E r \in RunIds \union {Nil} : run' = [run EXCEPT ![j] = r]
      <4>1. CASE FindRun(j)
        BY <4>1 DEF FindRun
      <4>2. CASE ~FindRun(j)
        BY <1>1, <4>2 DEF LoadSpec, NoLoop, NoActiveRun, DecideToStop, DecideToGoOn,
                          DecideNothing, Stop, Disable, RunnerFails
      <4> QED
        BY <4>1, <4>2
    <3> QED
      BY <3>1
  <2>4. \A r \in RunIds : runStatus'[r] = "absent" => runStatus[r] = "absent"
    <3>1. \/ UNCHANGED runStatus
          \/ runStatus' = [runStatus EXCEPT ![run[j]] = "stopped"]
      BY <1>1 DEF LoadSpec, NoLoop, FindRun, NoActiveRun, DecideToStop, DecideToGoOn,
                  DecideNothing, Stop, Disable, RunnerFails, BestEffort, StopLoopRun
    <3> QED
      BY <3>1
  <2>5. \A r \in RunIds : /\ Opening(r)' = Opening(r) /\ Counting(r)' = Counting(r)
                          /\ Ordering(r)' = Ordering(r) /\ Owing(r)' = Owing(r)
    <3>1. \A i \in JobIds :
             \/ rpc'[i] = rpc[i] /\ run'[i] = run[i]
             \/ /\ rpc'[i] # "first" /\ rpc'[i] # "count"
                /\ rpc[i] # "first" /\ rpc[i] # "count"
      BY <2>2, <2>3
    <3>2. \A r \in RunIds : Opening(r)' = Opening(r) /\ Counting(r)' = Counting(r)
      BY <3>1, SameRunners
    <3>3. \A r \in RunIds : Ordering(r)' = Ordering(r) /\ Owing(r)' = Owing(r)
      BY <2>1 DEF Ordering, Owing
    <3> QED
      BY <3>2, <3>3
  <2> QED
    BY <2>1, <2>4, <2>5, CalmKeeps DEF Calm, Intact
<1>2. CASE OpenRun(j)
  <2>1. PICK r \in RunIds : StartLoopRun(r) /\ run' = [run EXCEPT ![j] = r]
    BY <1>2 DEF OpenRun
  <2>2. /\ runStatus[r] = "absent" /\ runStatus' = [runStatus EXCEPT ![r] = "active"]
        /\ enqueued' = enqueued
    BY <2>1 DEF StartLoopRun, First
  <2>3. /\ UNCHANGED <<cpc, crun, loopRun, state, faults>>
        /\ rpc[j] = "open" /\ rpc' = [rpc EXCEPT ![j] = "first"]
    BY <1>2 DEF OpenRun
  <2>4. \A q \in RunIds : /\ Ordering(q)' = Ordering(q) /\ Counting(q)' = Counting(q)
                          /\ Owing(q)' = Owing(q) /\ TurnsOf(q)' = TurnsOf(q)
                          /\ q # r => Opening(q)' = Opening(q)
    BY <2>1, <2>3 DEF Opening, Counting, Owing, TurnsOf, Ordering
  <2>5. Fresh(r) = 0 /\ ToCount(r) = 0 /\ Ordering(r) = {} /\ Opening(r) = {} /\ enqueued[r] = 0
    BY <2>2, NobodyHoldsAbsent DEF Untouched
  <2>6. Opening(r)' = {j}
    BY <2>1, <2>3, <2>5 DEF Opening
  <2>7. Fresh(r)' = 1
    <3>1. Cardinality(Ordering(r)') = 0
      BY <2>4, <2>5, FS_EmptySet
    <3>2. Cardinality(Opening(r)') = 1
      BY <2>6, FS_Singleton
    <3> QED
      BY <3>1, <3>2 DEF Fresh
  <2>8. ASSUME NEW q \in RunIds
        PROVE  /\ ToCount(q)' = ToCount(q) /\ Turns(q)' = Turns(q)
               /\ Cardinality(Owing(q)') = Cardinality(Owing(q))
               /\ q # r => Fresh(q)' = Fresh(q)
    BY <2>4 DEF ToCount, Turns, Fresh
  <2>9. Untouched'
    <3>1. \A q \in RunIds : Fresh(q)' <= 1
      BY <2>7, <2>8 DEF Untouched
    <3>2. \A q \in RunIds : runStatus'[q] = "absent" => enqueued'[q] = 0
      BY <2>2 DEF Untouched
    <3>3. \A i \in JobIds : state'[i] = "none" => loopRun'[i] = Nil
      BY <2>3 DEF Untouched
    <3> QED
      BY <3>1, <3>2, <3>3 DEF Untouched
  <2>10. Lags'
    BY <2>2, <2>3, <2>8, RunSets DEF Lags
  <2>11. Leads'
    <3> SUFFICES ASSUME NEW q \in RunIds
                 PROVE  enqueued'[q] + ToCount(q)' + Fresh(q)' <= Turns(q)' + 1 + faults'
      BY DEF Leads
    <3>1. CASE q = r
      BY <3>1, <2>2, <2>3, <2>5, <2>7, <2>8, RunSets
    <3>2. CASE q # r
      BY <3>2, <2>2, <2>3, <2>8, RunSets DEF Leads
    <3> QED
      BY <3>1, <3>2
  <2> QED
    BY <2>9, <2>10, <2>11
<1>3. CASE CountFirst(j)
  <2>1. PICK r \in RunIds : r = run[j] /\ runStatus[r] # "absent"
    BY <1>3 DEF CountFirst
  <2>2. /\ UNCHANGED <<cpc, crun, loopRun, state, runStatus, run>>
        /\ rpc[j] = "first" /\ rpc' = [rpc EXCEPT ![j] = "decide"]
        /\ \/ enqueued' = [enqueued EXCEPT ![r] = @ + 1] /\ faults' = faults
           \/ enqueued' = enqueued /\ faults' = faults + 1
    BY <1>3, <2>1 DEF CountFirst, BestEffort, IncrementTurnEnqueued, FaultAllowed
  <2>3. \A q \in RunIds : /\ Ordering(q)' = Ordering(q) /\ Counting(q)' = Counting(q)
                          /\ TurnsOf(q)' = TurnsOf(q) /\ Owing(q)' = Owing(q)
                          /\ q # r => Opening(q)' = Opening(q)
    BY <2>1, <2>2 DEF Opening, Counting, Owing, TurnsOf, Ordering
  <2>4. j \in Opening(r) /\ Opening(r)' \subseteq Opening(r) \ {j}
    BY <2>1, <2>2 DEF Opening
  <2>5. ASSUME NEW q \in RunIds
        PROVE  /\ ToCount(q)' = ToCount(q) /\ Turns(q)' = Turns(q)
               /\ Cardinality(Owing(q)') = Cardinality(Owing(q))
               /\ q # r => Fresh(q)' = Fresh(q)
    BY <2>3 DEF ToCount, Turns, Fresh
  <2>6. /\ Cardinality(Opening(r)') \in Nat
        /\ Cardinality(Opening(r)') <= Cardinality(Opening(r)) - 1
    BY <2>4, RunSets, OneLess
  <2>7. Fresh(r)' \in Nat /\ Fresh(r)' <= Fresh(r) - 1
    BY <2>3, <2>6, RunSets DEF Fresh
  <2>8. Untouched'
    <3>1. \A q \in RunIds : Fresh(q)' <= 1
      <4> SUFFICES ASSUME NEW q \in RunIds PROVE Fresh(q)' <= 1
        OBVIOUS
      <4>1. Fresh(q) \in Nat /\ Fresh(q) <= 1
        BY RunSets DEF Untouched
      <4>2. CASE q = r
        BY <2>7, <4>1, <4>2
      <4>3. CASE q # r
        BY <2>5, <4>1, <4>3
      <4> QED
        BY <4>2, <4>3
    <3> QED
      BY <2>1, <2>2, <3>1 DEF Untouched
  <2>9. ASSUME NEW q \in RunIds
        PROVE  /\ enqueued'[q] + ToCount(q)' + Fresh(q)' <= Turns(q)' + 1 + faults'
               /\ Turns(q)' + Cardinality(Owing(q)') <= enqueued'[q] + ToCount(q)' + faults'
    <3>1. CASE q = r
      BY <3>1, <2>2, <2>5, <2>7, RunSets DEF Leads, Lags
    <3>2. CASE q # r
      BY <3>2, <2>2, <2>5, RunSets DEF Leads, Lags
    <3> QED
      BY <3>1, <3>2
  <2> QED
    BY <2>8, <2>9 DEF Leads, Lags
<1>4. CASE CreateNext(j)
  <2>1. PICK r \in RunIds : r = run[j]
    BY <1>4 DEF CreateNext
  <2>2. /\ UNCHANGED <<cpc, crun, runStatus, enqueued, faults, run>>
        /\ rpc[j] = "create" /\ rpc' = [rpc EXCEPT ![j] = "count"]
    BY <1>4 DEF CreateNext
  <2>3. \A q \in RunIds : /\ Opening(q)' = Opening(q) /\ Ordering(q)' = Ordering(q)
                          /\ Owing(q)' = Owing(q)
                          /\ q # r => Counting(q)' = Counting(q)
    BY <2>1, <2>2 DEF Opening, Counting, Owing, Ordering
  <2>4. j \notin Counting(r) /\ Counting(r)' = Counting(r) \union {j}
    BY <2>1, <2>2 DEF Counting
  <2>5. /\ \A q \in RunIds : Turns(q)' = IF q = r THEN Turns(q) + 1 ELSE Turns(q)
        /\ \A i \in JobIds : state'[i] = "none" => loopRun'[i] = Nil
    BY <1>4, <2>1, CreateAddsTurn DEF CreateNext
  <2>6. ASSUME NEW q \in RunIds
        PROVE  /\ Fresh(q)' = Fresh(q) /\ Cardinality(Owing(q)') = Cardinality(Owing(q))
               /\ q # r => ToCount(q)' = ToCount(q)
    BY <2>3 DEF ToCount, Fresh
  <2>7. ToCount(r)' = ToCount(r) + 1
    <3>1. Cardinality(Counting(r) \union {j}) = Cardinality(Counting(r)) + 1
      BY <2>4, RunSets, FS_AddElement
    <3> QED
      BY <2>4, <3>1 DEF ToCount
  <2>8. Untouched'
    BY <2>2, <2>5, <2>6, RunSets DEF Untouched
  <2>9. ASSUME NEW q \in RunIds
        PROVE  /\ enqueued'[q] + ToCount(q)' + Fresh(q)' <= Turns(q)' + 1 + faults'
               /\ Turns(q)' + Cardinality(Owing(q)') <= enqueued'[q] + ToCount(q)' + faults'
    <3>1. CASE q = r
      BY <3>1, <2>2, <2>5, <2>6, <2>7, RunSets DEF Leads, Lags
    <3>2. CASE q # r
      BY <3>2, <2>2, <2>5, <2>6, RunSets DEF Leads, Lags
    <3> QED
      BY <3>1, <3>2
  <2> QED
    BY <2>8, <2>9 DEF Leads, Lags
<1>5. CASE CountNext(j)
  <2>1. PICK r \in RunIds : r = run[j] /\ runStatus[r] # "absent"
    BY <1>5 DEF CountNext
  <2>2. /\ UNCHANGED <<cpc, crun, loopRun, state, runStatus>>
        /\ rpc[j] = "count" /\ rpc' = [rpc EXCEPT ![j] = "idle"]
        /\ run' = [run EXCEPT ![j] = Nil]
        /\ \/ enqueued' = [enqueued EXCEPT ![r] = @ + 1] /\ faults' = faults
           \/ enqueued' = enqueued /\ faults' = faults + 1
    BY <1>5, <2>1 DEF CountNext, BestEffort, IncrementTurnEnqueued, FaultAllowed
  <2>3. \A q \in RunIds : /\ Ordering(q)' = Ordering(q) /\ Opening(q)' = Opening(q)
                          /\ TurnsOf(q)' = TurnsOf(q) /\ Owing(q)' = Owing(q)
                          /\ q # r => Counting(q)' = Counting(q)
    BY <2>1, <2>2 DEF Opening, Counting, Owing, TurnsOf, Ordering
  <2>4. j \in Counting(r) /\ Counting(r)' = Counting(r) \ {j}
    BY <2>1, <2>2 DEF Counting
  <2>5. ASSUME NEW q \in RunIds
        PROVE  /\ Fresh(q)' = Fresh(q) /\ Turns(q)' = Turns(q)
               /\ Cardinality(Owing(q)') = Cardinality(Owing(q))
               /\ q # r => ToCount(q)' = ToCount(q)
    BY <2>3 DEF ToCount, Turns, Fresh
  <2>6. ToCount(r)' = ToCount(r) - 1 /\ ToCount(r)' \in Nat
    <3>1. /\ IsFiniteSet(Counting(r) \ {j})
          /\ Cardinality(Counting(r) \ {j}) = Cardinality(Counting(r)) - 1
      <4>1. IsFiniteSet(Counting(r)) /\ j \in Counting(r)
        BY <2>4, RunSets, Zenon
      <4> QED
        BY <4>1, WithoutOne, Zenon
    <3>2. Cardinality(Counting(r) \ {j}) \in Nat
      BY <3>1, FS_CardinalityType
    <3> QED
      BY <2>4, <3>1, <3>2 DEF ToCount
  <2>7. Untouched'
    BY <2>1, <2>2, <2>5, RunSets DEF Untouched
  <2>8. ASSUME NEW q \in RunIds
        PROVE  /\ enqueued'[q] + ToCount(q)' + Fresh(q)' <= Turns(q)' + 1 + faults'
               /\ Turns(q)' + Cardinality(Owing(q)') <= enqueued'[q] + ToCount(q)' + faults'
    <3>1. CASE q = r
      BY <3>1, <2>2, <2>5, <2>6, RunSets DEF Leads, Lags
    <3>2. CASE q # r
      BY <3>2, <2>2, <2>5, RunSets DEF Leads, Lags
    <3> QED
      BY <3>1, <3>2
  <2> QED
    BY <2>7, <2>8 DEF Leads, Lags
<1> QED
  BY <1>1, <1>2, <1>3, <1>4, <1>5 DEF RunLoop

LEMMA CountedAlways == Spec => []Counted
<1>1. Counted /\ TypeInv' /\ Followed /\ [Next]_vars => Counted'
  <2>1. UNCHANGED vars /\ Counted /\ TypeInv' => Counted'
    BY CalmKeeps DEF vars, ledger, specTable, runTable, runners, starters, history,
           Calm, Intact, Opening, Ordering, Owing, Counting
  <2> QED
    BY <2>1, CommandsCount, PoolCount, RunnerCount DEF Next
<1> QED
  BY <1>1, CountedInit, TypeAlways, FollowedAlways, PTL DEF Spec

\* turns_enqueued of a run is the number of its jobs, but for the turns that
\* are being counted, the turn it was opened for, and faults.
THEOREM TurnsAreCounted == Spec => []TurnsCounted
  BY CountedAlways, CountedImplies, PTL

-----------------------------------------------------------------------------
(* The cap.  A runner that may still count holds a slot, and the runners   *)
(* beyond the first that read a count below the cap are no more than the   *)
(* slots.                                                                  *)

SlotsKept == Cardinality(Busy) <= MaxSlots

LEMMA BusyFinite == TypeInv => IsFiniteSet(Busy) /\ Cardinality(Busy) \in Nat
<1>1. TypeInv => Busy \subseteq JobIds
  BY DEF Busy, TypeInv, TypeOK
<1> QED
  BY <1>1, JobSets

LEMMA SlotsStep == TypeInv /\ SlotsKept /\ [Next]_vars => SlotsKept'
<1> SUFFICES ASSUME TypeInv, SlotsKept, [Next]_vars PROVE SlotsKept'
  OBVIOUS
<1>1. ASSUME Busy' \subseteq Busy PROVE SlotsKept'
  BY <1>1, BusyFinite, Fewer, Ids DEF SlotsKept
<1>2. CASE Commands \/ UNCHANGED vars
  <2>1. UNCHANGED <<rpc, executing>>
    BY <1>2 DEF vars, Commands, LoopSet, LoopStop, PlainTurn, LoopStart, StartEnables,
                StartOpens, StartCounts, StartCreates, StartFails, StartMiscounts, ledger,
                runners, CreateJob, Queue!Submit
  <2> QED
    BY <1>1, <2>1 DEF Busy
<1>3. ASSUME NEW j \in JobIds, Take(j) PROVE SlotsKept'
  <2>1. Busy' \subseteq Busy \union {j}
    BY <1>3 DEF Take, Queue!Take, Busy
  <2>2. Cardinality(Busy') \in Nat /\ Cardinality(Busy') <= Cardinality(Busy) + 1
    BY <2>1, BusyFinite, OneMore
  <2> QED
    BY <1>3, <2>2, BusyFinite, Ids DEF Take, SlotsKept
<1>4. ASSUME NEW j \in JobIds, PutBack(j) \/ Bury(j) \/ Lose(j) \/ Finish(j) PROVE SlotsKept'
  <2>1. j \in executing /\ executing' = executing \ {j}
    BY <1>4 DEF PutBack, Bury, Lose, Finish, Queue!PutBack, Queue!Bury, Queue!Finish,
                Queue!Settle, Queue!Vanish
  <2>2. rpc' \in {rpc, [rpc EXCEPT ![j] = "load"]}
    BY <1>4 DEF PutBack, Bury, Lose, Finish
  <2> QED
    BY <1>1, <2>1, <2>2 DEF Busy, TypeInv, TypeOK
<1>5. CASE Crash
  BY <1>1, <1>5 DEF Crash, Queue!Vanish, Busy
<1>6. ASSUME NEW S \in SUBSET JobIds, Restart(S) PROVE SlotsKept'
  BY <1>1, <1>6 DEF Restart, Queue!Recover, Busy
<1>7. ASSUME NEW j \in JobIds, RunLoop(j) PROVE SlotsKept'
  <2>1. rpc[j] # "idle" /\ \E to \in RunnerPCs : rpc' = [rpc EXCEPT ![j] = to]
    BY <1>7 DEF RunLoop, LoadSpec, NoLoop, FindRun, NoActiveRun, OpenRun, CountFirst,
           DecideToStop, DecideToGoOn, DecideNothing, Stop, Disable, CreateNext, CountNext,
           RunnerFails, Goto, Return, RunnerPCs
  <2>2. UNCHANGED executing
    BY <1>7 DEF RunLoop, LoadSpec, NoLoop, FindRun, NoActiveRun, OpenRun, CountFirst,
           DecideToStop, DecideToGoOn, DecideNothing, Stop, Disable, CreateNext, CountNext,
           RunnerFails, ledger, CreateJob, Queue!Submit
  <2> QED
    BY <1>1, <2>1, <2>2 DEF Busy, TypeInv, TypeOK
<1> QED
  BY <1>2, <1>3, <1>4, <1>5, <1>6, <1>7 DEF Next, Pool

\* A runner past the test of the cap read less than the cap.
Past ==
    \A j \in JobIds :
        rpc[j] \in {"create", "count"} /\ cap[spec[j]] > 0 => seen[j] < cap[spec[j]]

LEMMA CapsNat == \A x \in Caps \union {0} : x \in Nat
  BY CapsAssumption

\* The rows of specs never change once they exist.
LEMMA SpecsStable ==
    ASSUME TypeInv, [Next]_vars
    PROVE  \A i \in Specs : i \in Specs' /\ cap'[i] = cap[i]
<1> USE DEF TypeInv, TypeOK, Specs, specTable
<1>1. ASSUME NEW m \in Modes, NEW n \in Caps, LoopSet(m, n)
      PROVE  \A i \in Specs : i \in Specs' /\ cap'[i] = cap[i]
  BY <1>1, ModesAssumption DEF LoopSet, CreateLoopSpec, First
<1>2. CASE UNCHANGED <<mode, cap>>
  BY <1>2
<1>3. CASE \/ UNCHANGED vars
           \/ Commands /\ ~\E m \in Modes, n \in Caps : LoopSet(m, n)
  BY <1>2, <1>3 DEF vars, Commands, LoopStop, PlainTurn, LoopStart, StartEnables,
                StartOpens, StartCounts, StartCreates, StartFails, StartMiscounts,
                SetLoopEnabled
<1>4. CASE Pool
  BY <1>2, <1>4 DEF Pool, Take, PutBack, Bury, Lose, Finish, Crash, Restart, poolRest
<1>5. ASSUME NEW j \in JobIds, RunLoop(j) PROVE UNCHANGED <<mode, cap>>
  BY <1>5 DEF RunLoop, LoadSpec, NoLoop, FindRun, NoActiveRun, OpenRun, CountFirst,
         DecideToStop, DecideToGoOn, DecideNothing, Stop, Disable, CreateNext, CountNext,
         RunnerFails, BestEffort, SetLoopEnabled
<1> QED
  BY <1>1, <1>2, <1>3, <1>4, <1>5 DEF Next

LEMMA PastStep == TypeInv /\ Past /\ [Next]_vars => Past'
<1> SUFFICES ASSUME TypeInv, Past, [Next]_vars PROVE Past'
  OBVIOUS
<1> USE DEF TypeInv, TypeOK, Held
<1>1. ASSUME \A j \in JobIds : rpc'[j] \in {"create", "count"} =>
                 /\ rpc[j] \in {"create", "count"}
                 /\ spec'[j] = spec[j] /\ seen'[j] = seen[j]
      PROVE  Past'
  BY <1>1, SpecsStable DEF Past
<1>2. CASE Commands \/ UNCHANGED vars
  <2>1. UNCHANGED <<rpc, spec, seen>>
    BY <1>2 DEF vars, Commands, LoopSet, LoopStop, PlainTurn, LoopStart, StartEnables,
                StartOpens, StartCounts, StartCreates, StartFails, StartMiscounts, runners
  <2> QED
    BY <1>1, <2>1
<1>3. CASE Pool
  <2>1. CASE Crash
    BY <1>1, <2>1 DEF Crash
  <2>2. CASE ~Crash
    <3>1. /\ UNCHANGED <<spec, seen>>
          /\ \/ UNCHANGED rpc
             \/ \E j \in JobIds : rpc' = [rpc EXCEPT ![j] = "load"]
      BY <1>3, <2>2 DEF Pool, Take, PutBack, Bury, Lose, Finish, Restart, poolRest
    <3> QED
      BY <1>1, <3>1
  <2> QED
    BY <2>1, <2>2
<1>4. ASSUME NEW j \in JobIds, RunLoop(j) PROVE Past'
  <2>1. CASE DecideToGoOn(j)
    <3>1. /\ UNCHANGED <<spec, seen>> /\ rpc' = [rpc EXCEPT ![j] = "create"]
          /\ cap[spec[j]] > 0 => ~(seen[j] >= cap[spec[j]])
          /\ spec[j] \in Specs /\ cap[spec[j]] \in Nat
      <4>1. spec[j] \in Specs
        BY <2>1 DEF DecideToGoOn, Goto
      <4>2. cap[spec[j]] \in Nat
        <5>1. spec[j] \in SpecIds
          BY <4>1 DEF Specs
        <5>2. cap[spec[j]] \in Caps \union {0}
          BY <5>1
        <5> QED
          BY <5>2, CapsNat
      <4> QED
        BY <2>1, <4>1, <4>2 DEF DecideToGoOn, Goto, CapReached
    <3>2. cap'[spec[j]] = cap[spec[j]]
      BY <3>1, SpecsStable
    <3>3. ASSUME NEW i \in JobIds, rpc'[i] \in {"create", "count"}, cap'[spec'[i]] > 0
          PROVE  seen'[i] < cap'[spec'[i]]
      <4>1. CASE i = j
        BY <3>1, <3>2, <3>3, <4>1
      <4>2. CASE i # j
        BY <3>1, <3>3, <4>2, SpecsStable DEF Past
      <4> QED
        BY <4>1, <4>2
    <3> QED
      BY <3>3 DEF Past
  <2>2. CASE ~DecideToGoOn(j)
    <3>1. /\ \A i \in JobIds \ {j} : rpc'[i] = rpc[i] /\ spec'[i] = spec[i] /\ seen'[i] = seen[i]
          /\ rpc'[j] \in {"create", "count"} =>
                /\ rpc[j] \in {"create", "count"}
                /\ spec'[j] = spec[j] /\ seen'[j] = seen[j]
      <4>1. CASE CreateNext(j)
        BY <4>1 DEF CreateNext, Goto
      <4>2. CASE FindRun(j) \/ LoadSpec(j)
        BY <4>2 DEF FindRun, LoadSpec, Goto
      <4>3. CASE NoActiveRun(j) \/ OpenRun(j) \/ CountFirst(j) \/ DecideToStop(j) \/ Stop(j)
        <5>1. /\ UNCHANGED <<spec, seen>>
              /\ \E to \in {"open", "first", "decide", "stop", "disable"} :
                    rpc' = [rpc EXCEPT ![j] = to]
          BY <4>3 DEF NoActiveRun, OpenRun, CountFirst, DecideToStop, Stop, Goto
        <5> QED
          BY <5>1
      <4>4. CASE \/ NoLoop(j) \/ DecideNothing(j) \/ Disable(j) \/ CountNext(j)
                 \/ \E at \in {"load", "find", "open", "create"} : RunnerFails(j, at)
        <5>1. \E from \in RunnerPCs : Return(j, from)
          BY <4>4 DEF NoLoop, DecideNothing, Disable, CountNext, RunnerFails, RunnerPCs
        <5> QED
          BY <5>1 DEF Return, Goto
      <4> QED
        BY <1>4, <2>2, <4>1, <4>2, <4>3, <4>4 DEF RunLoop
    <3> QED
      BY <1>1, <3>1
  <2> QED
    BY <2>1, <2>2
<1> QED
  BY <1>2, <1>3, <1>4 DEF Next

-----------------------------------------------------------------------------

\* Every spec of the thread has a cap, of at most n turns.
Capped(n) == \A i \in Specs : 0 < cap[i] /\ cap[i] <= n

RoomAt(r, n) == enqueued[r] + Cardinality(Ahead(r, n)) + Fresh(r) <= n + MaxSlots

RoomLeft == \A n \in Nat : Capped(n) => \A r \in RunIds : RoomAt(r, n)

Room == Counted /\ SlotsKept /\ Past /\ RoomLeft

LEMMA RoomImplies == Room => CapNearlyKept
<1> SUFFICES ASSUME Room, \A i \in Specs : cap[i] > 0,
                    NEW r \in RunIds, NEW n \in Caps, \A i \in Specs : cap[i] <= n
             PROVE  enqueued[r] <= n + MaxSlots
  BY DEF CapNearlyKept
<1>1. n \in Nat /\ Capped(n)
  BY CapsAssumption DEF Capped, Specs
<1>2. RoomAt(r, n)
  BY <1>1 DEF Room, RoomLeft
<1> QED
  BY <1>1, <1>2, RunSets, Ids DEF RoomAt, Room, Counted, TypeInv, TypeOK

LEMMA RoomInit == Init => Room
<1> SUFFICES ASSUME Init PROVE Room
  OBVIOUS
<1>1. Counted
  BY CountedInit
<1>2. SlotsKept
  <2>1. Busy = {}
    BY DEF Init, Queue!Init, Busy
  <2> QED
    BY <2>1, FS_EmptySet, Ids DEF SlotsKept
<1>3. Past
  BY DEF Init, Past
<1>4. ASSUME NEW n \in Nat, NEW r \in RunIds PROVE RoomAt(r, n)
  <2>1. Opening(r) = {} /\ Ordering(r) = {} /\ Ahead(r, n) = {}
    BY Ids DEF Init, Opening, Ordering, Ahead
  <2>2. Fresh(r) = 0 /\ Cardinality(Ahead(r, n)) = 0
    BY <2>1, FS_EmptySet DEF Fresh
  <2> QED
    BY <2>2, Ids DEF Init, RoomAt
<1> QED
  BY <1>1, <1>2, <1>3, <1>4 DEF Room, RoomLeft

\* Nothing is counted in run r, and nobody new is about to count in it.
LEMMA NoNewcomers ==
    ASSUME Room, TypeInv', NEW n \in Nat, NEW r \in RunIds, RoomAt(r, n),
           enqueued'[r] = enqueued[r],
           Ahead(r, n)' \subseteq Ahead(r, n),
           Opening(r)' \subseteq Opening(r), Ordering(r)' \subseteq Ordering(r)
    PROVE  RoomAt(r, n)'
<1>1. /\ Cardinality(Ahead(r, n)') \in Nat /\ Cardinality(Ahead(r, n)') <= Cardinality(Ahead(r, n))
  BY RunSets, Fewer
<1>2. /\ Cardinality(Opening(r)') \in Nat /\ Cardinality(Opening(r)') <= Cardinality(Opening(r))
  BY RunSets, Fewer
<1>3. /\ Cardinality(Ordering(r)') \in Nat /\ Cardinality(Ordering(r)') <= Cardinality(Ordering(r))
  BY RunSets, Fewer
<1>4. enqueued[r] \in Nat
  BY DEF Room, Counted, TypeInv, TypeOK
<1> QED
  BY <1>1, <1>2, <1>3, <1>4, RunSets, Ids DEF RoomAt, Fresh

\* One more turn is counted in run r, by somebody who was about to.
LEMMA OneArrives ==
    ASSUME Room, TypeInv', NEW n \in Nat, NEW r \in RunIds, RoomAt(r, n),
           enqueued'[r] \in {enqueued[r], enqueued[r] + 1},
           Cardinality(Ahead(r, n)') \in Nat, Fresh(r)' \in Nat,
           Cardinality(Ahead(r, n)') + Fresh(r)' <= Cardinality(Ahead(r, n)) + Fresh(r) - 1
    PROVE  RoomAt(r, n)'
<1>1. enqueued[r] \in Nat
  BY DEF Room, Counted, TypeInv, TypeOK
<1> QED
  BY <1>1, RunSets, Ids DEF RoomAt

AtWork == {"first", "decide", "create", "count"}

LEMMA NewcomersAreRunners ==
    ASSUME NEW n \in Nat, NEW r \in RunIds,
           \A i \in JobIds : rpc'[i] \in AtWork /\ run'[i] = r =>
                /\ rpc[i] \in AtWork /\ run[i] = r /\ seen'[i] = seen[i]
                /\ rpc'[i] = "first" => rpc[i] = "first"
    PROVE  Ahead(r, n)' \subseteq Ahead(r, n) /\ Opening(r)' \subseteq Opening(r)
  BY DEF Ahead, Opening, AtWork

LEMMA CommandsRoom ==
    ASSUME Room, Counted', Commands, NEW n \in Nat, NEW r \in RunIds, RoomAt(r, n)
    PROVE  RoomAt(r, n)'
<1> USE Ids DEF Room, Counted, TypeInv, TypeOK, ledger, specTable, runTable, runners, starters, history
<1>1. UNCHANGED <<rpc, run, seen>>
  BY DEF Commands, LoopSet, LoopStop, PlainTurn, LoopStart, StartEnables, StartOpens,
         StartCounts, StartCreates, StartFails, StartMiscounts
<1>2. Ahead(r, n)' = Ahead(r, n) /\ Opening(r)' = Opening(r)
  BY <1>1 DEF Ahead, Opening
<1>3. CASE \/ \E m \in Modes, k \in Caps : LoopSet(m, k)
           \/ LoopStop \/ PlainTurn
           \/ \E c \in Starters : \/ LoopStart(c) \/ StartEnables(c)
                                  \/ StartCreates(c) \/ StartFails(c)
  <2>1. /\ enqueued' = enqueued
        /\ \/ UNCHANGED <<cpc, crun>>
           \/ \E c \in Starters :
                 /\ \E to \in {"idle", "enable", "open"} : cpc' = [cpc EXCEPT ![c] = to]
                 /\ crun' \in {crun, [crun EXCEPT ![c] = Nil]}
    BY <1>3 DEF LoopSet, LoopStop, PlainTurn, LoopStart, StartEnables, StartCreates,
                StartFails, Step
  <2>2. \A c \in Starters : cpc'[c] = "count" => cpc[c] = "count" /\ crun'[c] = crun[c]
    BY <2>1
  <2>3. Ordering(r)' \subseteq Ordering(r)
    BY <2>2 DEF Ordering
  <2> QED
    BY <1>2, <2>1, <2>3, NoNewcomers
<1>4. ASSUME NEW c \in Starters, StartOpens(c) PROVE RoomAt(r, n)'
  <2>1. PICK q \in RunIds : StartLoopRun(q) /\ crun' = [crun EXCEPT ![c] = q]
    BY <1>4 DEF StartOpens
  <2>2. runStatus[q] = "absent" /\ enqueued' = enqueued
    BY <2>1 DEF StartLoopRun, First
  <2>3. CASE q = r
    <3>1. Ahead(r, n) = {} /\ enqueued[r] = 0
      BY <2>2, <2>3, NobodyHoldsAbsent DEF Untouched
    <3>2. Cardinality(Ahead(r, n)') = 0
      BY <1>2, <3>1, FS_EmptySet
    <3>3. Fresh(r)' \in Nat /\ Fresh(r)' <= 1
      <4>1. Ordering(r)' \subseteq Starters
        BY DEF Ordering
      <4>2. Cardinality(Ordering(r)') \in Nat
        BY <4>1, StartersAssumption, Fewer
      <4> QED
        BY <1>2, <4>2, RunSets DEF Untouched, Fresh
    <3> QED
      BY <2>2, <3>1, <3>2, <3>3 DEF RoomAt
  <2>4. CASE q # r
    <3>1. cpc' = [cpc EXCEPT ![c] = "count"]
      BY <1>4 DEF StartOpens, Step
    <3>2. Ordering(r)' \subseteq Ordering(r)
      BY <2>1, <2>4, <3>1 DEF Ordering
    <3> QED
      BY <1>2, <2>2, <3>2, NoNewcomers
  <2> QED
    BY <2>3, <2>4
<1>5. ASSUME NEW c \in Starters, StartCounts(c) \/ StartMiscounts(c) PROVE RoomAt(r, n)'
  <2>1. PICK q \in RunIds : q = crun[c]
    BY <1>5 DEF StartCounts, StartMiscounts, Step, Held, Runs
  <2>2. /\ UNCHANGED crun /\ cpc[c] = "count" /\ cpc' = [cpc EXCEPT ![c] = "create"]
        /\ enqueued' \in {enqueued, [enqueued EXCEPT ![q] = @ + 1]}
    BY <1>5, <2>1 DEF StartCounts, StartMiscounts, Step, IncrementTurnEnqueued
  <2>3. Ordering(r)' \subseteq Ordering(r)
    BY <2>2 DEF Ordering
  <2>4. CASE q = r
    <3>1. c \in Ordering(r) /\ Ordering(r)' \subseteq Ordering(r) \ {c}
      BY ZenonT(60), <2>1, <2>2, <2>4 DEF Ordering
    <3>2. /\ Cardinality(Ordering(r)') \in Nat
          /\ Cardinality(Ordering(r)') <= Cardinality(Ordering(r)) - 1
      BY <3>1, RunSets, OneLess
    <3>3. Fresh(r)' \in Nat /\ Fresh(r)' <= Fresh(r) - 1
      BY <1>2, <3>2, RunSets DEF Fresh
    <3>4. enqueued'[r] \in {enqueued[r], enqueued[r] + 1}
      BY <2>2, <2>4
    <3>5. Cardinality(Ahead(r, n)') = Cardinality(Ahead(r, n))
      BY <1>2
    <3>6. /\ Cardinality(Ahead(r, n)') \in Nat
          /\ Cardinality(Ahead(r, n)') + Fresh(r)' <= Cardinality(Ahead(r, n)) + Fresh(r) - 1
      BY <3>3, <3>5, RunSets
    <3> QED
      BY <3>3, <3>4, <3>6, OneArrives
  <2>5. CASE q # r
    <3>1. enqueued'[r] = enqueued[r]
      BY <2>2, <2>5
    <3> QED
      BY <1>2, <2>3, <3>1, NoNewcomers
  <2> QED
    BY <2>4, <2>5
<1> QED
  BY <1>3, <1>4, <1>5 DEF Commands

LEMMA PoolRoom ==
    ASSUME Room, Counted', Pool, NEW n \in Nat, NEW r \in RunIds, RoomAt(r, n)
    PROVE  RoomAt(r, n)'
<1>1. UNCHANGED <<enqueued, cpc, crun>>
  BY DEF Pool, Take, PutBack, Bury, Lose, Finish, Crash, Restart, poolRest, runTable, starters
<1>2. \A i \in JobIds : rpc'[i] \in AtWork =>
          rpc'[i] = rpc[i] /\ run'[i] = run[i] /\ seen'[i] = seen[i]
  <2>1. CASE Crash
    BY <2>1 DEF Crash, AtWork
  <2>2. CASE ~Crash
    <3>1. /\ UNCHANGED <<run, seen>>
          /\ \/ UNCHANGED rpc
             \/ \E j \in JobIds : rpc' = [rpc EXCEPT ![j] = "load"]
      BY <2>2 DEF Pool, Take, PutBack, Bury, Lose, Finish, Restart, poolRest
    <3> QED
      BY <3>1 DEF AtWork, Room, Counted, TypeInv, TypeOK
  <2> QED
    BY <2>1, <2>2
<1>3. Ahead(r, n)' \subseteq Ahead(r, n) /\ Opening(r)' \subseteq Opening(r)
  BY <1>2, NewcomersAreRunners
<1>4. Ordering(r)' = Ordering(r)
  BY <1>1 DEF Ordering
<1> QED
  BY <1>1, <1>3, <1>4, NoNewcomers DEF Counted

LEMMA RunnerRoom ==
    ASSUME Room, Counted', SlotsKept', NEW j \in JobIds, RunLoop(j),
           NEW n \in Nat, Capped(n), NEW r \in RunIds, RoomAt(r, n)
    PROVE  RoomAt(r, n)'
<1> USE Ids DEF Room, Counted, TypeInv, TypeOK, starters, clients, ledger, runTable, Goto, Return
<1>1. UNCHANGED <<cpc, crun>>
  BY DEF RunLoop, LoadSpec, NoLoop, FindRun, NoActiveRun, OpenRun, CountFirst,
         DecideToStop, DecideToGoOn, DecideNothing, Stop, Disable, CreateNext, CountNext,
         RunnerFails
<1>2. Ordering(r)' = Ordering(r)
  BY <1>1 DEF Ordering
<1>3. CASE FindRun(j)
  <2>1. PICK q \in RunIds : run' = [run EXCEPT ![j] = q] /\ seen' = [seen EXCEPT ![j] = enqueued[q]]
    BY <1>3 DEF FindRun
  <2>2. /\ rpc[j] = "find" /\ rpc' = [rpc EXCEPT ![j] = "decide"]
        /\ enqueued' = enqueued
    BY <1>3 DEF FindRun
  <2>3. Opening(r)' \subseteq Opening(r)
    BY <2>1, <2>2 DEF Opening
  <2>4. CASE q # r \/ enqueued[r] >= n
    <3>1. Ahead(r, n)' \subseteq Ahead(r, n)
      BY <2>1, <2>2, <2>4 DEF Ahead
    <3>2. enqueued'[r] = enqueued[r] /\ Ordering(r)' \subseteq Ordering(r)
      BY <1>2, <2>2
    <3>3. TypeInv'
      OBVIOUS
    <3> HIDE DEF Room, Counted, TypeInv, TypeOK, Goto, Return
    <3> QED
      BY <2>3, <3>1, <3>2, <3>3, NoNewcomers, Zenon
  <2>5. CASE enqueued[r] < n
    <3>1. Ahead(r, n)' \subseteq Busy'
      BY DEF Ahead, Busy
    <3>2. IsFiniteSet(Busy') /\ Cardinality(Busy') \in Nat
      <4>1. Busy' \subseteq JobIds
        BY DEF Busy
      <4> QED
        BY <4>1, JobSets
    <3>3. Cardinality(Ahead(r, n)') \in Nat /\ Cardinality(Ahead(r, n)') <= MaxSlots
      BY <3>1, <3>2, Fewer DEF SlotsKept
    <3>4. Fresh(r)' \in Nat /\ Fresh(r)' <= 1
      <4>1. Cardinality(Opening(r)') \in Nat
        BY <2>3, RunSets, Fewer
      <4> QED
        BY <1>2, <4>1, RunSets DEF Fresh, Untouched
    <3> QED
      BY <2>2, <2>5, <3>3, <3>4 DEF RoomAt
  <2> QED
    BY <2>4, <2>5
<1>4. CASE OpenRun(j)
  <2>1. PICK q \in RunIds : StartLoopRun(q) /\ run' = [run EXCEPT ![j] = q]
    BY <1>4 DEF OpenRun
  <2>2. /\ runStatus[q] = "absent" /\ enqueued' = enqueued
        /\ rpc[j] = "open" /\ rpc' = [rpc EXCEPT ![j] = "first"] /\ seen' = seen
    BY <1>4, <2>1 DEF OpenRun, StartLoopRun, First
  <2>3. CASE q = r
    <3>1. /\ Ahead(r, n) = {} /\ Ordering(r) = {} /\ Opening(r) = {} /\ enqueued[r] = 0
      BY <2>2, <2>3, NobodyHoldsAbsent DEF Untouched
    <3>2. Ahead(r, n)' \subseteq {} \union {j} /\ Opening(r)' \subseteq {} \union {j}
      BY <2>1, <2>2, <3>1 DEF Ahead, Opening
    <3>3. /\ Cardinality(Ahead(r, n)') \in Nat /\ Cardinality(Ahead(r, n)') <= 1
          /\ Cardinality(Opening(r)') \in Nat /\ Cardinality(Opening(r)') <= 1
      <4>1. IsFiniteSet({}) /\ Cardinality({}) = 0
        BY FS_EmptySet
      <4>2. Cardinality(Ahead(r, n)') \in Nat /\ Cardinality(Ahead(r, n)') <= Cardinality({}) + 1
        BY <3>2, <4>1, OneMore
      <4>3. Cardinality(Opening(r)') \in Nat /\ Cardinality(Opening(r)') <= Cardinality({}) + 1
        BY <3>2, <4>1, OneMore
      <4> QED
        BY <4>1, <4>2, <4>3
    <3>4. Fresh(r)' \in Nat /\ Fresh(r)' <= 1
      BY <1>2, <3>1, <3>3, FS_EmptySet DEF Fresh
    <3>5. n >= 1
      <4>1. spec[j] \in SpecIds /\ 0 < cap[spec[j]] /\ cap[spec[j]] <= n
        BY <2>2 DEF Held, Capped, Specs
      <4>2. cap[spec[j]] \in Nat
        BY <4>1, CapsNat
      <4> QED
        BY <4>1, <4>2
    <3> QED
      BY <2>2, <3>1, <3>3, <3>4, <3>5 DEF RoomAt
  <2>4. CASE q # r
    <3>1. Ahead(r, n)' \subseteq Ahead(r, n) /\ Opening(r)' \subseteq Opening(r)
      BY <2>1, <2>2, <2>4 DEF Ahead, Opening
    <3> QED
      BY <1>2, <2>2, <3>1, NoNewcomers
  <2> QED
    BY <2>3, <2>4
<1>5. CASE CountFirst(j)
  <2>1. PICK q \in RunIds : q = run[j]
    BY <1>5 DEF CountFirst, Held, Runs
  <2>2. /\ UNCHANGED <<run, seen>>
        /\ rpc[j] = "first" /\ rpc' = [rpc EXCEPT ![j] = "decide"]
        /\ enqueued' \in {enqueued, [enqueued EXCEPT ![q] = @ + 1]}
    BY <1>5, <2>1 DEF CountFirst, BestEffort, IncrementTurnEnqueued
  <2>3. Ahead(r, n)' = Ahead(r, n) /\ Opening(r)' \subseteq Opening(r)
    BY <2>2 DEF Ahead, Opening
  <2>4. CASE q = r
    <3>1. j \in Opening(r) /\ Opening(r)' \subseteq Opening(r) \ {j}
      BY ZenonT(60), <2>1, <2>2, <2>4 DEF Opening
    <3>2. /\ Cardinality(Opening(r)') \in Nat
          /\ Cardinality(Opening(r)') <= Cardinality(Opening(r)) - 1
      BY <3>1, RunSets, OneLess
    <3>3. Fresh(r)' \in Nat /\ Fresh(r)' <= Fresh(r) - 1
      BY <1>2, <3>2, RunSets DEF Fresh
    <3>4. enqueued'[r] \in {enqueued[r], enqueued[r] + 1}
      BY <2>2, <2>4
    <3>5. /\ Cardinality(Ahead(r, n)') \in Nat
          /\ Cardinality(Ahead(r, n)') + Fresh(r)' <= Cardinality(Ahead(r, n)) + Fresh(r) - 1
      BY <2>3, <3>3, RunSets
    <3> QED
      BY <3>3, <3>4, <3>5, OneArrives
  <2>5. CASE q # r
    <3>1. enqueued'[r] = enqueued[r]
      BY <2>2, <2>5
    <3> QED
      BY <1>2, <2>3, <3>1, NoNewcomers
  <2> QED
    BY <2>4, <2>5
<1>6. CASE CountNext(j)
  <2>1. PICK q \in RunIds : q = run[j]
    BY <1>6 DEF CountNext, Held, Runs
  <2>2. /\ run' = [run EXCEPT ![j] = Nil]
        /\ rpc[j] = "count" /\ rpc' = [rpc EXCEPT ![j] = "idle"]
        /\ seen' = [seen EXCEPT ![j] = 0]
        /\ enqueued' \in {enqueued, [enqueued EXCEPT ![q] = @ + 1]}
    BY <1>6, <2>1 DEF CountNext, BestEffort, IncrementTurnEnqueued
  <2>3. Ahead(r, n)' \subseteq Ahead(r, n) \ {j} /\ Opening(r)' = Opening(r)
    BY <2>2 DEF Ahead, Opening
  <2>4. CASE q = r
    <3>1. seen[j] < n
      <4>1. spec[j] \in SpecIds /\ 0 < cap[spec[j]] /\ cap[spec[j]] <= n
        BY <2>2 DEF Held, Capped, Specs
      <4>2. cap[spec[j]] \in Nat
        BY <4>1, CapsNat
      <4>3. seen[j] < cap[spec[j]]
        BY <2>2, <4>1 DEF Past
      <4> QED
        BY <4>1, <4>2, <4>3
    <3>2. j \in Ahead(r, n)
      BY <2>1, <2>2, <2>4, <3>1 DEF Ahead
    <3>3. /\ Cardinality(Ahead(r, n)') \in Nat
          /\ Cardinality(Ahead(r, n)') <= Cardinality(Ahead(r, n)) - 1
      BY <2>3, <3>2, RunSets, OneLess
    <3>4. Fresh(r)' = Fresh(r)
      BY <1>2, <2>3 DEF Fresh
    <3>5. /\ Cardinality(Ahead(r, n)') + Fresh(r)' <= Cardinality(Ahead(r, n)) + Fresh(r) - 1
          /\ Fresh(r)' \in Nat
      BY <3>3, <3>4, RunSets
    <3>6. enqueued'[r] \in {enqueued[r], enqueued[r] + 1}
      BY <2>2, <2>4
    <3> QED
      BY <3>3, <3>5, <3>6, OneArrives
  <2>5. CASE q # r
    <3>1. enqueued'[r] = enqueued[r]
      BY <2>2, <2>5
    <3> QED
      BY <1>2, <2>3, <3>1, NoNewcomers
  <2> QED
    BY <2>4, <2>5
<1>7. CASE ~FindRun(j) /\ ~OpenRun(j) /\ ~CountFirst(j) /\ ~CountNext(j)
  <2>1. enqueued' = enqueued
    BY <1>7 DEF RunLoop, LoadSpec, NoLoop, NoActiveRun, DecideToStop, DecideToGoOn,
           DecideNothing, Stop, Disable, CreateNext, RunnerFails, BestEffort, StopLoopRun
  <2>2. \/ \E from \in RunnerPCs : Return(j, from)
        \/ /\ UNCHANGED <<run, seen>>
           /\ \E from, to \in RunnerPCs :
                /\ rpc[j] = from /\ rpc' = [rpc EXCEPT ![j] = to]
                /\ to \in AtWork => from \in AtWork /\ to # "first"
    BY <1>7 DEF RunLoop, LoadSpec, NoLoop, NoActiveRun, DecideToStop, DecideToGoOn,
           DecideNothing, Stop, Disable, CreateNext, RunnerFails, RunnerPCs, AtWork
  <2>3. \A i \in JobIds : rpc'[i] \in AtWork /\ run'[i] = r =>
                /\ rpc[i] \in AtWork /\ run[i] = r /\ seen'[i] = seen[i]
                /\ rpc'[i] = "first" => rpc[i] = "first"
    <3>1. CASE \E from \in RunnerPCs : Return(j, from)
      BY <3>1 DEF AtWork
    <3>2. CASE ~\E from \in RunnerPCs : Return(j, from)
      BY <2>2, <3>2
    <3> QED
      BY <3>1, <3>2
  <2>4. Ahead(r, n)' \subseteq Ahead(r, n) /\ Opening(r)' \subseteq Opening(r)
    BY <2>3, NewcomersAreRunners
  <2> QED
    BY <1>2, <2>1, <2>4, NoNewcomers
<1> QED
  BY <1>3, <1>4, <1>5, <1>6, <1>7

LEMMA RoomStep == Room /\ Counted' /\ [Next]_vars => Room'
<1> SUFFICES ASSUME Room, Counted', [Next]_vars PROVE Room'
  OBVIOUS
<1>1. SlotsKept' /\ Past'
  BY SlotsStep, PastStep DEF Room, Counted
<1>2. ASSUME NEW n \in Nat, Capped(n)', NEW r \in RunIds PROVE RoomAt(r, n)'
  <2>1. Capped(n)
    BY <1>2, SpecsStable DEF Capped, Room, Counted
  <2>2. RoomAt(r, n)
    BY <2>1 DEF Room, RoomLeft
  <2>3. CASE UNCHANGED vars
    BY <2>2, <2>3 DEF vars, ledger, specTable, runTable, runners, starters, history,
              RoomAt, Fresh, Ahead, Opening, Ordering
  <2>4. CASE Commands
    BY <2>2, <2>4, CommandsRoom
  <2>5. CASE Pool
    BY <2>2, <2>5, PoolRoom
  <2>6. ASSUME NEW j \in JobIds, RunLoop(j) PROVE RoomAt(r, n)'
    BY <1>1, <2>1, <2>2, <2>6, RunnerRoom
  <2> QED
    BY <2>3, <2>4, <2>5, <2>6 DEF Next
<1> QED
  BY <1>1, <1>2 DEF Room, RoomLeft

\* turns_enqueued exceeds the largest cap of the thread's specs by no more
\* than the slots of the pool.
THEOREM CapExceededBySlots == Spec => []CapNearlyKept
<1> QED
  BY RoomInit, RoomStep, RoomImplies, CountedAlways, PTL DEF Spec

=============================================================================
