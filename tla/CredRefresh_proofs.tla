-------------------------- MODULE CredRefresh_proofs --------------------------
(***************************************************************************)
(* What the credential refresh guarantees for any number of processes,     *)
(* expiries and faults.  TokenKept rests on the endpoint alone: a token is *)
(* changed only for a process that read the newest one, and until that     *)
(* process has written nobody can read a newer one.  NoReplay needs the    *)
(* lock as well: as long as it is not broken, the one process at work is   *)
(* the one that made the directory.                                        *)
(***************************************************************************)
EXTENDS CredRefresh, TLAPS

-----------------------------------------------------------------------------
\* Types.

LEMMA TypeInit == ASSUME Init PROVE TypeOK
BY CredAssumption DEF Init, TypeOK, PCs, Holding

LEMMA TypeNext == ASSUME TypeOK, [Next]_vars PROVE TypeOK'
<1> USE CredAssumption DEF TypeOK, PCs, Holding, lockVars, fileVars, endpoint
<1>1. CASE UNCHANGED vars
  BY <1>1 DEF vars
<1>2. ASSUME NEW p \in Procs, Tick(p) PROVE TypeOK'
  BY <1>2 DEF Tick, Goto
<1>3. ASSUME NEW p \in Procs, Mkdir(p) PROVE TypeOK'
  BY <1>3 DEF Mkdir, NewDirectory, Goto
<1>4. ASSUME NEW p \in Procs, Stat(p) PROVE TypeOK'
  BY <1>4 DEF Stat, Goto
<1>5. ASSUME NEW p \in Procs, Steal(p) PROVE TypeOK'
  BY <1>5 DEF Steal, NewDirectory, Goto
<1>6. ASSUME NEW p \in Procs, Read(p) PROVE TypeOK'
  BY <1>6 DEF Read, Goto
<1>7. ASSUME NEW p \in Procs, Ask(p) PROVE TypeOK'
  <2>1. CASE seen[p] = live
    BY <1>7, <2>1 DEF Ask, Goto
  <2>2. CASE seen[p] # live
    BY <1>7, <2>2 DEF Ask, Goto
  <2> QED
    BY <2>1, <2>2
<1>8. ASSUME NEW p \in Procs, Write(p) PROVE TypeOK'
  BY <1>8 DEF Write, Goto
<1>9. ASSUME NEW p \in Procs, Release(p) PROVE TypeOK'
  BY <1>9 DEF Release, NewDirectory, Goto
<1>10. ASSUME NEW p \in Procs, Failure(p) PROVE TypeOK'
  <2>1. CASE AnswerLost(p)
    BY <2>1 DEF AnswerLost, Fault, Goto
  <2>2. CASE Fails(p)
    BY <2>2 DEF Fails, Fault, Goto
  <2>3. CASE WriteFails(p)
    BY <2>3 DEF WriteFails, Fault, Goto
  <2>4. CASE Crash(p)
    BY <2>4 DEF Crash, Fault, Goto
  <2> QED
    BY <1>10, <2>1, <2>2, <2>3, <2>4 DEF Failure
<1>11. CASE LockAges
  BY <1>11 DEF LockAges
<1>12. CASE HostSleeps
  BY <1>12 DEF HostSleeps, Fault
<1>13. CASE TokenAges
  <2>1. expiries' \in Nat
    <3>1. expiries' = expiries + 1
      BY <1>13, Zenon DEF TokenAges
    <3> QED
      BY <3>1
  <2>2. warm' \in BOOLEAN
    BY <1>13, Zenon DEF TokenAges
  <2>3. UNCHANGED <<pc, lock, stale, looked, broken, token, seen, live, lost, replayed, faults>>
    BY <1>13, Zenon DEF TokenAges
  <2> QED
    BY <2>1, <2>2, <2>3
<1> QED
  BY <1>1, <1>2, <1>3, <1>4, <1>5, <1>6, <1>7, <1>8, <1>9, <1>10, <1>11,
     <1>12, <1>13 DEF Next, Step

\* The processes, the lock, the file and the endpoint stay well typed.
THEOREM TypeCorrect == Spec => []TypeOK
<1>1. Init => TypeOK
  BY TypeInit
<1>2. TypeOK /\ [Next]_vars => TypeOK'
  BY TypeNext
<1> QED
  BY <1>1, <1>2, PTL DEF Spec

-----------------------------------------------------------------------------
\* The refresh token.

\* The file is behind the endpoint by one token at most, and by that one only
\* while a single process has it in hand, or after it was lost.
TokenInv ==
  /\ \A p \in Procs : seen[p] <= token
  /\ token <= live
  /\ \A p \in Procs : pc[p] = "write" => seen[p] = token /\ live = token + 1 /\ ~lost
  /\ \A p, q \in Procs : pc[p] = "write" /\ pc[q] = "write" => p = q
  /\ lost => token < live
  /\ token < live => lost \/ \E p \in Procs : pc[p] = "write"

LEMMA TokenInit == ASSUME Init PROVE TokenInv
BY DEF Init, TokenInv

LEMMA TokenNext == ASSUME TypeOK, TokenInv, [Next]_vars PROVE TokenInv'
<1> USE DEF TokenInv, TypeOK
<1>1. CASE UNCHANGED vars
  BY <1>1 DEF vars, fileVars, endpoint
<1>2. ASSUME NEW p \in Procs, Tick(p) \/ Mkdir(p) \/ Stat(p) \/ Steal(p) \/ Release(p)
      PROVE TokenInv'
  BY <1>2 DEF Tick, Mkdir, Stat, Steal, Release, NewDirectory, Goto, fileVars, endpoint
<1>3. ASSUME NEW p \in Procs, Read(p) PROVE TokenInv'
  BY <1>3 DEF Read, Goto, fileVars, endpoint
<1>4. ASSUME NEW p \in Procs, Ask(p) PROVE TokenInv'
  BY <1>4 DEF Ask, Goto, fileVars
<1>5. ASSUME NEW p \in Procs, Write(p) PROVE TokenInv'
  BY <1>5 DEF Write, Goto, endpoint
<1>6. ASSUME NEW p \in Procs, AnswerLost(p) PROVE TokenInv'
  BY <1>6 DEF AnswerLost, Goto, fileVars
<1>7. ASSUME NEW p \in Procs, Fails(p) \/ WriteFails(p) \/ Crash(p) PROVE TokenInv'
  <2>1. CASE Fails(p)
    BY <2>1 DEF Fails, Goto, fileVars, endpoint
  <2>2. CASE WriteFails(p)
    BY <2>2 DEF WriteFails, Goto, fileVars
  <2>3. CASE Crash(p)
    <3>1. pc[p] = "write" => lost'
      BY <2>3, Zenon DEF Crash
    <3>2. pc[p] # "write" => lost' = lost
      BY <2>3 DEF Crash
    <3>3. UNCHANGED <<token, seen, live>> /\ pc' = [pc EXCEPT ![p] = "idle"]
      BY <2>3, Zenon DEF Crash, Goto, fileVars
    <3> QED
      BY <3>1, <3>2, <3>3
  <2> QED
    BY <1>7, <2>1, <2>2, <2>3
<1>8. CASE LockAges \/ HostSleeps \/ TokenAges
  BY <1>8 DEF LockAges, HostSleeps, TokenAges, fileVars, endpoint
<1> QED
  BY <1>1, <1>2, <1>3, <1>4, <1>5, <1>6, <1>7, <1>8 DEF Next, Step, Failure

\* Whatever the lock does, whoever dies and however often, the newest refresh
\* token is in the file or in the hands of one process, unless it was lost.
THEOREM TokenNeverForgotten == Spec => []TokenKept
<1>1. Init => TypeOK /\ TokenInv
  BY TypeInit, TokenInit
<1>2. TypeOK /\ TokenInv /\ [Next]_vars => TypeOK' /\ TokenInv'
  BY TypeNext, TokenNext
<1>3. TypeOK /\ TokenInv => TokenKept
  BY DEF TypeOK, TokenInv, TokenKept
<1> QED
  BY <1>1, <1>2, <1>3, PTL DEF Spec

-----------------------------------------------------------------------------
\* The lock.

\* While the lock is not broken, whoever works made the directory that is
\* there, a directory that is old was left by a process that died, and a thief
\* whose look is still good is after such a directory.
LockInv ==
  ~broken =>
    /\ \A p \in Procs : pc[p] \in Holding => lock = p
    /\ lock # None /\ stale => pc[lock] \notin Holding
    /\ looked # {} => lock # None /\ stale
    /\ \A p \in Procs : pc[p] \in {"ask", "write"} => seen[p] = token

LEMMA LockInit == ASSUME Init PROVE LockInv
BY DEF Init, LockInv, Holding

LEMMA LockNext == ASSUME TypeOK, LockInv, [Next]_vars PROVE LockInv'
<1> USE CredAssumption DEF LockInv, TypeOK, Holding
<1>1. CASE UNCHANGED vars
  BY <1>1 DEF vars, lockVars, fileVars
<1>2. ASSUME NEW p \in Procs, Tick(p) PROVE LockInv'
  BY <1>2 DEF Tick, Goto, lockVars, fileVars
<1>3. ASSUME NEW p \in Procs, Mkdir(p) PROVE LockInv'
  BY <1>3 DEF Mkdir, NewDirectory, Goto, fileVars
<1>4. ASSUME NEW p \in Procs, Stat(p) PROVE LockInv'
  BY <1>4 DEF Stat, Goto, fileVars
<1>5. ASSUME NEW p \in Procs, Steal(p) PROVE LockInv'
  BY <1>5 DEF Steal, NewDirectory, Goto, fileVars
<1>6. ASSUME NEW p \in Procs, Read(p) PROVE LockInv'
  BY <1>6 DEF Read, Goto, lockVars, fileVars
<1>7. ASSUME NEW p \in Procs, Ask(p) PROVE LockInv'
  BY <1>7 DEF Ask, Goto, lockVars, fileVars
<1>8. ASSUME NEW p \in Procs, Write(p) PROVE LockInv'
  BY <1>8 DEF Write, Goto, lockVars
<1>9. ASSUME NEW p \in Procs, Release(p) PROVE LockInv'
  BY <1>9 DEF Release, NewDirectory, Goto, fileVars
<1>10. ASSUME NEW p \in Procs, Failure(p) PROVE LockInv'
  BY <1>10 DEF Failure, AnswerLost, Fails, WriteFails, Crash, Goto, lockVars, fileVars
<1>11. CASE LockAges \/ HostSleeps \/ TokenAges
  BY <1>11 DEF LockAges, HostSleeps, TokenAges, lockVars, fileVars
<1> QED
  BY <1>1, <1>2, <1>3, <1>4, <1>5, <1>6, <1>7, <1>8, <1>9, <1>10, <1>11 DEF Next, Step

LEMMA ReplayNext ==
  ASSUME TypeOK, TokenInv, LockInv, NoReplay, [Next]_vars
  PROVE  NoReplay'
<1>1. ASSUME NEW p \in Procs, Ask(p) PROVE NoReplay'
  <2>1. CASE seen[p] = live \/ broken \/ lost
    BY <1>1, <2>1 DEF Ask, NoReplay, lockVars, TypeOK
  <2>2. CASE seen[p] # live /\ ~broken /\ ~lost
    <3>1. seen[p] = token /\ lock = p
      BY <1>1, <2>2 DEF Ask, LockInv, Holding
    <3>2. PICK q \in Procs : pc[q] = "write"
      BY <2>2, <3>1 DEF TokenInv, TypeOK
    <3>3. q = p
      BY <2>2, <3>1, <3>2 DEF LockInv, Holding
    <3> QED
      BY <1>1, <3>2, <3>3 DEF Ask
  <2> QED
    BY <2>1, <2>2
<1>2. CASE /\ UNCHANGED replayed
           /\ lost => lost'
           /\ broken => broken'
  BY <1>2 DEF NoReplay
<1>3. ASSUME NEW p \in Procs, Tick(p) \/ Mkdir(p) \/ Stat(p) \/ Steal(p)
                              \/ Read(p) \/ Write(p) \/ Release(p) \/ Failure(p)
      PROVE UNCHANGED replayed /\ (lost => lost') /\ (broken => broken')
  BY <1>3 DEF Tick, Mkdir, Stat, Steal, Read, Write, Release, Failure, AnswerLost,
              Fails, WriteFails, Crash, NewDirectory, lockVars, endpoint, TypeOK
<1>4. ASSUME UNCHANGED vars \/ LockAges \/ HostSleeps \/ TokenAges
      PROVE UNCHANGED replayed /\ (lost => lost') /\ (broken => broken')
  BY <1>4 DEF vars, LockAges, HostSleeps, TokenAges, lockVars, endpoint
<1> QED
  BY <1>1, <1>2, <1>3, <1>4 DEF Next, Step

\* For any number of processes, a used refresh token is sent only after the
\* newest one was lost or the lock was broken.
THEOREM ReplayHasCause == Spec => []NoReplay
<1>1. Init => TypeOK /\ TokenInv /\ LockInv /\ NoReplay
  BY TypeInit, TokenInit, LockInit DEF Init, NoReplay
<1>2. TypeOK /\ TokenInv /\ LockInv /\ NoReplay /\ [Next]_vars
        => TypeOK' /\ TokenInv' /\ LockInv' /\ NoReplay'
  BY TypeNext, TokenNext, LockNext, ReplayNext
<1> QED
  BY <1>1, <1>2, PTL DEF Spec
=============================================================================
