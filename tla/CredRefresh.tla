----------------------------- MODULE CredRefresh -----------------------------
(***************************************************************************)
(* Keeping one profile's OAuth credentials warm, internal/credrefresh: the *)
(* daemon and the Claude sessions of the profile refresh one credentials   *)
(* file under one lock, a directory that mkdir makes and that whoever      *)
(* finds it old may remove.                                                *)
(*                                                                         *)
(* The token endpoint takes each refresh token once.  Tokens are numbered  *)
(* in the order in which it hands them out; a process may die anywhere.    *)
(* Claude's own code is not in this repository: by the comments of lock.go *)
(* its sessions take the same lock, and the model has them follow the same *)
(* steps.                                                                  *)
(***************************************************************************)
EXTENDS Naturals

CONSTANTS
  Procs,         \* processes that refresh: the daemon, Claude sessions
  Daemons,       \* those that tick for ever (Run)
  None,          \* no lock directory
  MaxExpiries,   \* bound: how often the access token comes near its expiry
  MaxFaults      \* bound: deaths, failing calls, sleeps of the host

ASSUME CredAssumption ==
  /\ None \notin Procs /\ Daemons \subseteq Procs
  /\ MaxExpiries \in Nat /\ MaxFaults \in Nat

VARIABLES
  pc,
  lock,          \* who made the lock directory, or None
  stale,         \* is the directory older than lockStaleThreshold?
  token, warm,   \* the file: refresh token; is the access token far from expiry?
  seen,          \* the refresh token each process read from the file
  live,          \* the refresh token the endpoint takes next
  expiries, faults,
  \* history
  looked,        \* who found the directory that is there now to be old
  broken,        \* was a lock removed that had not been looked at, or did
                 \* one grow old in the hands of its holder?
  lost,          \* did the newest refresh token get nowhere?
  replayed       \* was a used refresh token sent?

lockVars == <<lock, stale, looked, broken>>
fileVars == <<token, warm>>
endpoint == <<live, lost, replayed>>
vars == <<pc, lockVars, fileVars, seen, endpoint, expiries, faults>>

Holding == {"read", "ask", "write", "release"}
PCs == {"idle", "mkdir", "stat", "steal"} \cup Holding

Init ==
  /\ pc = [p \in Procs |-> "idle"]
  /\ lock = None /\ stale = FALSE
  /\ token = 0 /\ warm \in BOOLEAN
  /\ seen = [p \in Procs |-> 0] /\ live = 0
  /\ expiries = 0 /\ faults = 0
  /\ looked = {} /\ broken = FALSE /\ lost = FALSE /\ replayed = FALSE

Fault == faults < MaxFaults /\ faults' = faults + 1

Goto(p, l) == pc' = [pc EXCEPT ![p] = l]

(***************************************************************************)
(* acquireLock                                                             *)
(***************************************************************************)
NewDirectory(owner) == lock' = owner /\ stale' = FALSE /\ looked' = {}

Tick(p) ==
  /\ pc[p] = "idle" /\ Goto(p, "mkdir")
  /\ UNCHANGED <<lockVars, fileVars, seen, endpoint, expiries, faults>>

Mkdir(p) ==
  /\ pc[p] = "mkdir"
  /\ IF lock = None
     THEN NewDirectory(p) /\ Goto(p, "read")
     ELSE UNCHANGED <<lock, stale, looked>> /\ Goto(p, "stat")
  /\ UNCHANGED <<broken, fileVars, seen, endpoint, expiries, faults>>

\* Mutant: whoever meets a lock takes it for an abandoned one.
Stat_AnyAge(p) ==
  /\ pc[p] = "stat"
  /\ \/ lock # None /\ looked' = looked \cup {p} /\ Goto(p, "steal")
     \/ lock = None /\ UNCHANGED looked /\ \E l \in {"mkdir", "idle"} : Goto(p, l)
  /\ UNCHANGED <<lock, stale, broken, fileVars, seen, endpoint, expiries, faults>>

\* Mutant: an abandoned lock is waited for like any other.
Stat_NeverSteals(p) ==
  /\ pc[p] = "stat"
  /\ \E l \in {"mkdir", "idle"} : Goto(p, l)
  /\ UNCHANGED <<lockVars, fileVars, seen, endpoint, expiries, faults>>

\* A directory that is gone or not old yet: try again, or time out.
Stat(p) ==
  /\ pc[p] = "stat"
  /\ IF lock # None /\ stale
     THEN looked' = looked \cup {p} /\ Goto(p, "steal")
     ELSE UNCHANGED looked /\ \E l \in {"mkdir", "idle"} : Goto(p, l)
  /\ UNCHANGED <<lock, stale, broken, fileVars, seen, endpoint, expiries, faults>>

\* os.Remove takes the directory that is there now.
Steal(p) ==
  /\ pc[p] = "steal" /\ Goto(p, "mkdir")
  /\ broken' = (broken \/ (lock # None /\ p \notin looked))
  /\ NewDirectory(None)
  /\ UNCHANGED <<fileVars, seen, endpoint, expiries, faults>>

(***************************************************************************)
(* RefreshIfNeeded, with the lock held                                     *)
(***************************************************************************)
Read(p) ==
  /\ pc[p] = "read"
  /\ seen' = [seen EXCEPT ![p] = token]
  /\ Goto(p, IF warm THEN "release" ELSE "ask")
  /\ UNCHANGED <<lockVars, fileVars, endpoint, expiries, faults>>

\* Mutant: the answer is written whatever its status.
Ask_IgnoresStatus(p) ==
  /\ pc[p] = "ask" /\ Goto(p, "write")
  /\ IF seen[p] = live THEN live' = live + 1 /\ UNCHANGED replayed
     ELSE replayed' = TRUE /\ UNCHANGED live
  /\ UNCHANGED <<lockVars, fileVars, seen, lost, expiries, faults>>

\* requestRefresh; the endpoint answers a used token with an error.
Ask(p) ==
  /\ pc[p] = "ask"
  /\ IF seen[p] = live
     THEN live' = live + 1 /\ UNCHANGED replayed /\ Goto(p, "write")
     ELSE replayed' = TRUE /\ UNCHANGED live /\ Goto(p, "release")
  /\ UNCHANGED <<lockVars, fileVars, seen, lost, expiries, faults>>

\* The endpoint has changed the token, and its answer does not arrive.
AnswerLost(p) ==
  /\ pc[p] = "ask" /\ seen[p] = live /\ Fault
  /\ live' = live + 1 /\ lost' = TRUE /\ Goto(p, "release")
  /\ UNCHANGED <<lockVars, fileVars, seen, replayed, expiries>>

\* The file cannot be read, or the request does not get through.
Fails(p) ==
  /\ pc[p] \in {"read", "ask"} /\ Fault /\ Goto(p, "release")
  /\ UNCHANGED <<lockVars, fileVars, seen, endpoint, expiries>>

\* atomicWriteFile: a temporary file and a rename.
Write(p) ==
  /\ pc[p] = "write" /\ Goto(p, "release")
  /\ token' = seen[p] + 1 /\ warm' = TRUE
  /\ UNCHANGED <<lockVars, seen, endpoint, expiries, faults>>

WriteFails(p) ==
  /\ pc[p] = "write" /\ Fault /\ Goto(p, "release")
  /\ lost' = TRUE
  /\ UNCHANGED <<lockVars, fileVars, seen, live, replayed, expiries>>

\* The deferred release removes the directory, whoever made it.
Release(p) ==
  /\ pc[p] = "release" /\ Goto(p, "idle")
  /\ NewDirectory(None)
  /\ UNCHANGED <<broken, fileVars, seen, endpoint, expiries, faults>>

Crash(p) ==
  /\ pc[p] # "idle" /\ Fault /\ Goto(p, "idle")
  /\ lost' = (lost \/ pc[p] = "write")
  /\ UNCHANGED <<lockVars, fileVars, seen, live, replayed, expiries>>

(***************************************************************************)
(* Time.  A refresh takes 10 s at most and a lock is old after 30 s, so    *)
(* that a lock in use grows old only while the host sleeps.                *)
(***************************************************************************)
LockAges ==
  /\ lock # None /\ ~stale /\ pc[lock] \notin Holding
  /\ stale' = TRUE
  /\ UNCHANGED <<pc, lock, looked, broken, fileVars, seen, endpoint, expiries, faults>>

HostSleeps ==
  /\ lock # None /\ ~stale /\ pc[lock] \in Holding /\ Fault
  /\ stale' = TRUE /\ broken' = TRUE
  /\ UNCHANGED <<pc, lock, looked, fileVars, seen, endpoint, expiries>>

TokenAges ==
  /\ warm /\ expiries < MaxExpiries
  /\ warm' = FALSE /\ expiries' = expiries + 1
  /\ UNCHANGED <<pc, lockVars, token, seen, endpoint, faults>>

Step(p) == Mkdir(p) \/ Stat(p) \/ Steal(p) \/ Read(p) \/ Ask(p) \/ Write(p) \/ Release(p)
Failure(p) == AnswerLost(p) \/ Fails(p) \/ WriteFails(p) \/ Crash(p)

Next == \/ \E p \in Procs : Tick(p) \/ Step(p) \/ Failure(p)
        \/ LockAges \/ HostSleeps \/ TokenAges

Spec == Init /\ [][Next]_vars

(***************************************************************************)
(* Processes go on with what they have begun, daemons tick for ever, and   *)
(* an abandoned lock grows old.  A session that is idle may stay so.       *)
(***************************************************************************)
FairSpec ==
  /\ Spec
  /\ \A p \in Procs : WF_vars(Step(p))
  /\ \A d \in Daemons : WF_vars(Tick(d))
  /\ WF_vars(LockAges)

(***************************************************************************)
(* Properties.                                                             *)
(***************************************************************************)
TypeOK ==
  /\ pc \in [Procs -> PCs] /\ lock \in Procs \cup {None}
  /\ stale \in BOOLEAN /\ warm \in BOOLEAN
  /\ broken \in BOOLEAN /\ lost \in BOOLEAN /\ replayed \in BOOLEAN
  /\ token \in Nat /\ live \in Nat /\ expiries \in Nat /\ faults \in Nat
  /\ seen \in [Procs -> Nat] /\ looked \subseteq Procs

\* refresh.go 138-139: "On any endpoint error the canonical file is left
\* byte-for-byte unchanged".  The refresh token that the endpoint takes next is
\* the one in the file, or one process is about to write it there: unless it was
\* lost on its way, the profile never has to log in again.  The lock has no part
\* in this; it holds while two processes hold the lock.
TokenKept ==
  ~lost => \/ token = live
           \/ \E p \in Procs : pc[p] = "write" /\ seen[p] + 1 = live

\* creds_refresh_cmd.go 5-6: sessions "never race Anthropic's single-use
\* rotating refresh token".  A used token is sent only after one got lost, or
\* after the lock was broken: removed by a second thief who had looked at the
\* directory of the first crashed holder, or grown old while the host slept.
NoReplay == replayed => lost \/ broken

\* lock.go 41-74, daemon.go 44-67: the access token is made warm again, whoever
\* died with the lock held, unless the refresh token is lost.
TokenStaysWarm == []<>(warm \/ lost)
=============================================================================
