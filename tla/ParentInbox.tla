----------------------------- MODULE ParentInbox -----------------------------
(***************************************************************************)
(* The durable inbox of one parent session, internal/session: children     *)
(* complete turns, producers commit one line per child to the parent's     *)
(* inbox file, the parent's agent drains it.                               *)
(*                                                                         *)
(* A task is a child run by the run-task wrapper: its completion has a     *)
(* record on disk, which the daemon replays until it is acked.  A talker   *)
(* is an interactive child: the daemon sees its status flip and remembers  *)
(* that in memory only.                                                    *)
(*                                                                         *)
(* Every wrapper, the daemon and the draining agent are processes of their *)
(* own.  inboxWriteMu is a mutex of one process and none of them runs two  *)
(* operations at once, so it does not appear: two processes interleave     *)
(* between any two accesses to the files.                                  *)
(*                                                                         *)
(* The death of a process and an I/O error both end an operation where it  *)
(* is; MaxFaults bounds their number.                                      *)
(***************************************************************************)
EXTENDS Naturals

CONSTANTS
  Tasks, Talkers,  \* the children of the parent
  Daemon,          \* the transition daemon
  None,            \* no line
  MaxRuns,         \* bound on the runs of each task and the turns of each talker
  Signal,          \* what TurnFingerprint hashes of a line
  MaxAttempts,     \* MaxUnresolvedAttempts (5 in the code)
  MaxBlocks,       \* MaxStopHookBlocks (3 in the code)
  MaxFaults        \* bound on deaths and I/O errors

Children == Tasks \cup Talkers
Committers == Tasks \cup {Daemon}
Line(c, n) == [child |-> c, turn |-> n]
Lines == UNION {{Line(c, n) : n \in 1..MaxRuns[c]} : c \in Children}

ASSUME InboxAssumption ==
  /\ Tasks \cap Talkers = {} /\ Daemon \notin Children
  /\ None \notin Lines
  /\ MaxRuns \in [Children -> Nat] /\ MaxFaults \in Nat
  /\ MaxAttempts \in Nat \ {0} /\ MaxBlocks \in Nat \ {0}
  /\ DOMAIN Signal = Lines

VARIABLES
  runs,       \* runs of each task that were started
  rec,        \* completion record of each task: what it tells of, and how far it is
  turn,       \* turns each talker has completed
  seen,       \* turn of each talker that lastStatus knows (daemon's memory)
  tries,      \* DeadLetterSink.attempts; MaxAttempts stands for logged (memory)
  batch,      \* copies of records that a replay has loaded and not delivered (memory)
  pc, job,    \* program counter of each committer and the line it commits
  kept,       \* lines that its rewrite has read and keeps
  copy,       \* the record that its ack has read
  inbox, wal, \* lines in the inbox file and in the in-flight file
  ledger,     \* fingerprints in the consumed-turns file
  late,       \* lines stamped when a newer line of their child had its stamp
  parked,     \* lines in the dead-letter files
  home,       \* is the parent registered, or removed, or its files swept?
  agent,      \* the parent's agent: in a turn of its user, or kept on by a block
  blocks,     \* the stop-block file
  drain, mode, staged, fresh,  \* the running drain and its local variables
  faults,
  \* history
  last,       \* last finished run of a task, last committed turn of a talker
  acted,      \* how often the agent was handed a fingerprint
  undone,     \* fingerprints consumed by a drain that then died
  lost        \* lines lost in one of the ways that Loses is used for

records == <<runs, rec, last>>
memory == <<turn, seen, tries, batch, late>>
commits == <<pc, job, kept, copy>>
drains == <<agent, blocks, drain, mode, staged, fresh, acted, undone>>
vars == <<records, memory, commits, inbox, wal, ledger, parked, home, drains, faults, lost>>

NoRecord == [run |-> 0, status |-> "none"]

\* Lines of a child with the same status and summary, or the same flip, have
\* the same fingerprint.
Fp(l) == <<l.child, Signal[l]>>
Fps == {Fp(l) : l \in Lines}

\* What is left of the lines S, one of each child: the one with the last stamp.
\* A delivery stamps its line anew, so a late line may have that.

\* Mutant: the first line of a child wins.
CollapseLastWins_First(S) ==
  {W \in SUBSET S :
     /\ \A l \in S : \E w \in W : w.child = l.child
     /\ \A w \in W : \A l \in S \ {w} : l.child = w.child => l \notin W /\ l.turn > w.turn}

CollapseLastWins(S) ==
  {W \in SUBSET S :
     /\ \A l \in S : \E w \in W : w.child = l.child
     /\ \A w \in W : \A l \in S \ {w} :
          l.child = w.child => l \notin W /\ (l.turn < w.turn \/ w \in late)}

Init ==
  /\ runs = [t \in Tasks |-> 0] /\ rec = [t \in Tasks |-> NoRecord]
  /\ turn = [c \in Talkers |-> 0] /\ seen = turn
  /\ tries = [t \in Tasks |-> 0] /\ batch = {} /\ late = {}
  /\ pc = [p \in Committers |-> IF p = Daemon THEN "idle" ELSE "gone"]
  /\ job = [p \in Committers |-> None] /\ kept = [p \in Committers |-> {}]
  /\ copy = [p \in Committers |-> NoRecord]
  /\ inbox = {} /\ wal = {} /\ ledger = {} /\ parked = {}
  /\ home = "yes"
  /\ agent = "user" /\ blocks = 0
  /\ drain = "no" /\ mode = "beat" /\ staged = {} /\ fresh = {}
  /\ faults = 0
  /\ last = [c \in Children |-> 0]
  /\ acted = [f \in Fps |-> 0] /\ undone = {} /\ lost = {}

Fault == faults < MaxFaults /\ faults' = faults + 1
Goto(p, l) == pc' = [pc EXCEPT ![p] = l]

\* A committer is through: a wrapper exits, the daemon looks for what is next.
Through(p, l) ==
  /\ Goto(p, l)
  /\ job' = [job EXCEPT ![p] = None] /\ kept' = [kept EXCEPT ![p] = {}]
  /\ copy' = [copy EXCEPT ![p] = NoRecord]
Quit(p) == Through(p, IF p = Daemon THEN "idle" ELSE "gone")

\* Is the line to be drained, consumed or dead-lettered?
Delivered(l) == l \in inbox \cup wal \cup parked \/ Fp(l) \in ledger

\* The step is the end of those of the lines S that are nowhere else then.
Loses(S) == lost' = lost \cup {l \in S : ~Delivered(l)'}

-----------------------------------------------------------------------------
(* The run-task wrapper                                                    *)

\* The claim replaces the record of the run before, whether that was acked or
\* not; a failure to write it is ignored.
Claim(t) ==
  /\ pc[t] = "gone" /\ runs[t] < MaxRuns[t]
  /\ runs' = [runs EXCEPT ![t] = @ + 1]
  /\ Goto(t, "run")
  /\ UNCHANGED <<last, memory, job, kept, copy, inbox, wal, ledger, parked, home, drains>>
  /\ \/ /\ rec' = [rec EXCEPT ![t] = [run |-> runs[t] + 1, status |-> "claim"]]
        /\ Loses(IF rec[t].status = "finished" THEN {Line(t, rec[t].run)} ELSE {})
        /\ UNCHANGED faults
     \/ Fault /\ UNCHANGED <<rec, lost>>

\* The wrapper goes on to deliver when the record could not be written as well.
Finish(t) ==
  /\ pc[t] = "run"
  /\ last' = [last EXCEPT ![t] = runs[t]]
  /\ job' = [job EXCEPT ![t] = Line(t, runs[t])]
  /\ Goto(t, "read")
  /\ UNCHANGED <<runs, memory, kept, copy, inbox, wal, ledger, parked, home, drains>>
  /\ \/ rec' = [rec EXCEPT ![t] = [run |-> runs[t], status |-> "finished"]] /\ UNCHANGED <<faults, lost>>
     \/ Fault /\ Loses({Line(t, runs[t])}) /\ UNCHANGED rec

-----------------------------------------------------------------------------
(* Commit: resolve the parent, drop the child's line, append the new one,  *)
(* ack the record                                                          *)

\* RecordUnresolvable.  A transient error counts like a parent that is gone.
Unresolvable(l) ==
  LET n == tries[l.child] + 1 IN
  /\ tries' = [tries EXCEPT ![l.child] = IF n <= MaxAttempts THEN n ELSE @]
  /\ IF n = MaxAttempts THEN Goto(Daemon, "park") /\ UNCHANGED <<job, kept, copy>>
                        ELSE Quit(Daemon)

\* What DeliverCompletion's false, or NotifyTransition's failure, comes to.
NotCommitted(p) ==
  IF p = Daemon /\ job[p].child \in Tasks
    THEN Unresolvable(job[p]) /\ UNCHANGED <<turn, seen, batch, late>>
    ELSE Quit(p) /\ UNCHANGED memory

\* The parent cannot be resolved: the registry does not know it, or an error.
ResolveFails(p) ==
  /\ pc[p] = "read"
  /\ IF home = "yes" THEN Fault ELSE UNCHANGED faults
  /\ NotCommitted(p)
  /\ UNCHANGED <<records, inbox, wal, ledger, parked, home, drains, lost>>

\* The parent is resolved, its inbox read.
Read(p) ==
  LET others == {l \in inbox : l.child # job[p].child} IN
  /\ pc[p] = "read" /\ home = "yes"
  /\ IF others = inbox THEN Goto(p, "append") /\ UNCHANGED kept
     ELSE Goto(p, "rename") /\ kept' = [kept EXCEPT ![p] = others]
  /\ UNCHANGED <<records, memory, job, copy, inbox, wal, ledger, parked, home, drains, faults, lost>>

\* What goes with it: lines of other children that came after the read, and
\* a line of this child that is newer than the one to be appended.
Rename(p) ==
  LET c == job[p].child IN
  /\ pc[p] = "rename"
  /\ inbox' = kept[p]
  /\ kept' = [kept EXCEPT ![p] = {}]
  /\ Goto(p, "append")
  /\ UNCHANGED <<records, memory, job, copy, wal, ledger, parked, home, drains, faults>>
  /\ Loses({l \in inbox : l.child = c => l.turn > job[p].turn})

Append(p) ==
  LET c == job[p].child IN
  /\ pc[p] = "append"
  /\ inbox' = inbox \cup {job[p]}
  /\ lost' = lost \ {job[p]}
  /\ last' = IF c \in Talkers THEN [last EXCEPT ![c] = job[p].turn] ELSE last
  /\ IF c \in Tasks THEN Goto(p, "ack") /\ UNCHANGED <<job, kept, copy>> ELSE Quit(p)
  /\ UNCHANGED <<runs, rec, memory, wal, ledger, parked, home, drains, faults>>

\* The last line of the child, which the rewrite of p took and p does not replace.
TornBy(p) ==
  LET c == job[p].child IN
  IF pc[p] = "append" /\ 0 < last[c] /\ last[c] <= job[p].turn THEN {Line(c, last[c])} ELSE {}

CommitFails(p) ==
  /\ pc[p] \in {"rename", "append"} /\ Fault
  /\ NotCommitted(p)
  /\ UNCHANGED <<records, inbox, wal, ledger, parked, home, drains>>
  /\ Loses(TornBy(p))

\* writeDeadLetter, whose error is ignored: the record is acked all the same.
Park(p) ==
  /\ pc[p] = "park"
  /\ Goto(p, "ack")
  /\ UNCHANGED <<records, memory, job, kept, copy, inbox, wal, ledger, home, drains>>
  /\ \/ parked' = parked \cup {job[p]} /\ UNCHANGED <<faults, lost>>
     \/ UNCHANGED parked /\ Fault /\ Loses({job[p]})

\* AckCompletion reads the record anew, whatever run it tells of by now, ...
AckRead(p) ==
  LET r == rec[job[p].child] IN
  /\ pc[p] = "ack"
  /\ IF r.status \in {"claim", "finished"}
       THEN copy' = [copy EXCEPT ![p] = r] /\ Goto(p, "mark") /\ UNCHANGED <<job, kept>>
       ELSE Quit(p)
  /\ UNCHANGED <<records, memory, inbox, wal, ledger, parked, home, drains, faults, lost>>

\* ... and writes it back, whatever record is there by then.  A claim that is
\* acked is a claim to everyone.
AckWrite(p) ==
  LET c == job[p].child IN
  /\ pc[p] = "mark"
  /\ rec' = [rec EXCEPT ![c] =
       [copy[p] EXCEPT !.status = IF @ = "finished" THEN "acked" ELSE @]]
  /\ Quit(p)
  /\ UNCHANGED <<runs, last, memory, inbox, wal, ledger, parked, home, drains, faults>>
  /\ Loses(IF rec[c].status = "finished" /\ rec[c].run > job[p].turn
             THEN {Line(c, rec[c].run)} ELSE {})

\* The record cannot be read or written: nobody is told.
AckFails(p) ==
  /\ pc[p] \in {"ack", "mark"} /\ Fault
  /\ Quit(p)
  /\ UNCHANGED <<records, memory, inbox, wal, ledger, parked, home, drains, lost>>

WrapperDies(t) ==
  /\ pc[t] # "gone" /\ Fault
  /\ Quit(t)
  /\ UNCHANGED <<records, memory, inbox, wal, ledger, parked, home, drains>>
  /\ Loses(TornBy(t))

-----------------------------------------------------------------------------
(* The daemon: one goroutine that looks at the talkers, then replays       *)

TalkerFlips(c) ==
  /\ turn[c] < MaxRuns[c]
  /\ turn' = [turn EXCEPT ![c] = @ + 1]
  /\ UNCHANGED <<records, seen, tries, batch, late, commits, inbox, wal, ledger, parked, home, drains, faults, lost>>

\* The daemon is between two passes.
Idle == pc[Daemon] = "idle" /\ batch = {}

Notify(c) ==
  /\ Idle
  /\ job' = [job EXCEPT ![Daemon] = Line(c, turn[c])]
  /\ Goto(Daemon, "read")

\* syncProfile: lastStatus moves on whatever becomes of the event.
Observe(c) ==
  /\ turn[c] > seen[c] /\ Notify(c)
  /\ seen' = [seen EXCEPT ![c] = turn[c]]
  /\ UNCHANGED <<records, turn, tries, batch, late, kept, copy, inbox, wal, ledger, parked, home, drains, faults, lost>>

\* isDuplicate: the same flip was notified less than 90 seconds ago.
ObserveDuplicate(c) ==
  /\ turn[c] > seen[c] /\ last[c] > 0
  /\ Idle
  /\ seen' = [seen EXCEPT ![c] = turn[c]]
  /\ UNCHANGED <<records, turn, tries, batch, late, commits, inbox, wal, ledger, parked, home, drains, faults, lost>>

\* emitHookTransitionCandidates: a hook file that is still fresh tells of the
\* flip again; markNotified remembers what was committed.
HookCandidate(c) ==
  /\ turn[c] > last[c] /\ Notify(c)
  /\ UNCHANGED <<records, memory, kept, copy, inbox, wal, ledger, parked, home, drains, faults, lost>>

Unacked(T) == {Line(t, rec[t].run) : t \in {u \in T : rec[u].status = "finished"}}

\* Mutant: a record that could not be committed is not tried again.
Replay_Once ==
  /\ Idle
  /\ batch' = Unacked({t \in Tasks : tries[t] = 0}) /\ batch' # {}
  /\ UNCHANGED <<records, turn, seen, tries, late, commits, inbox, wal, ledger, parked, home, drains, faults, lost>>

\* ReplayUnackedCompletions loads the records, ...
Replay ==
  /\ Idle
  /\ batch' = Unacked(Tasks) /\ batch' # {}
  /\ UNCHANGED <<records, turn, seen, tries, late, commits, inbox, wal, ledger, parked, home, drains, faults, lost>>

\* ... and then delivers these copies, whatever has become of the records.
Deliver(l) ==
  /\ pc[Daemon] = "idle" /\ l \in batch
  /\ batch' = batch \ {l}
  /\ job' = [job EXCEPT ![Daemon] = l]
  /\ Goto(Daemon, "read")
  /\ late' = IF l.turn < last[l.child] THEN late \cup {l} ELSE late
  /\ UNCHANGED <<records, turn, seen, tries, kept, copy, inbox, wal, ledger, parked, home, drains, faults, lost>>

DaemonDies ==
  /\ pc[Daemon] # "down" /\ Fault
  /\ Through(Daemon, "down")
  /\ tries' = [t \in Tasks |-> 0] /\ batch' = {}
  /\ UNCHANGED <<records, turn, seen, late, inbox, wal, ledger, parked, home, drains>>
  /\ Loses(TornBy(Daemon))

\* The first pass takes the statuses it finds for a baseline.
DaemonStarts ==
  /\ pc[Daemon] = "down"
  /\ Goto(Daemon, "idle")
  /\ seen' = turn
  /\ UNCHANGED <<records, turn, tries, batch, late, job, kept, copy, inbox, wal, ledger, parked, home, drains, faults, lost>>

-----------------------------------------------------------------------------
(* The parent's agent.  Its hook and its heartbeat run one after the other. *)

\* Turns that a user or the heartbeat starts come one after the other; the
\* agent may rest in between.
Rest == agent' = "user"

Leave == drain' = "no" /\ mode' = "beat" /\ staged' = {} /\ fresh' = {}

\* The drain is over and hands out S: a hook blocks if there is something.
Return(m, S) ==
  /\ Leave
  /\ acted' = [f \in Fps |-> IF f \in {Fp(l) : l \in S} THEN acted[f] + 1 ELSE acted[f]]
  /\ IF m = "beat" THEN UNCHANGED <<agent, blocks>>
     ELSE IF S = {} THEN blocks' = 0 /\ Rest
     ELSE agent' = "more" /\ UNCHANGED blocks

\* stageInboxDrainLocked, the read: what is in flight and what is new.
Load(m) ==
  IF wal \cup inbox = {}
    THEN wal' = {} /\ Return(m, {})
    ELSE /\ staged' = wal \cup inbox
         /\ drain' = "write" /\ mode' = m
         /\ UNCHANGED <<wal, acted, agent, blocks, fresh>>

\* inbox drain self
Heartbeat ==
  /\ agent = "user" /\ drain = "no" /\ home = "yes"
  /\ Load("beat")
  /\ UNCHANGED <<records, memory, commits, inbox, ledger, parked, home, undone, faults, lost>>

\* The blocks that count: a user's turn starts a new budget.
Budget == IF agent = "user" THEN 0 ELSE blocks

\* DrainForStopHook, up to the drain
Stop ==
  /\ drain = "no" /\ home = "yes"
  /\ IF inbox \cup wal = {} \/ Budget >= MaxBlocks
       THEN Rest /\ UNCHANGED <<blocks, drain, mode>>
       ELSE /\ blocks' = Budget + 1
            /\ drain' = "stage" /\ mode' = "hook"
            /\ UNCHANGED agent
  /\ UNCHANGED <<records, memory, commits, inbox, wal, ledger, parked, home, staged, fresh, acted, undone, faults, lost>>

Stage ==
  /\ drain = "stage"
  /\ Load("hook")
  /\ UNCHANGED <<records, memory, commits, inbox, ledger, parked, home, undone, faults, lost>>

Write ==
  /\ drain = "write"
  /\ wal' = staged /\ drain' = "remove"
  /\ UNCHANGED <<records, memory, commits, inbox, ledger, parked, home, agent, blocks, mode, staged, fresh, acted, undone, faults, lost>>

RemoveInbox ==
  /\ drain = "remove"
  /\ inbox' = {} /\ drain' = "ledger"
  /\ UNCHANGED <<records, memory, commits, wal, ledger, parked, home, agent, blocks, mode, staged, fresh, acted, undone, faults>>
  /\ Loses(inbox \ staged)

\* Mutant: lines that a later one replaces are marked as well.
Consume_MarksAll ==
  /\ drain = "ledger"
  /\ \E W \in CollapseLastWins(staged) : fresh' = {l \in W : Fp(l) \notin ledger}
  /\ ledger' = ledger \cup {Fp(l) : l \in staged}
  /\ drain' = "drop"
  /\ UNCHANGED <<records, memory, commits, inbox, wal, parked, home, agent, blocks, mode, staged, acted, undone, faults, lost>>

\* Mutant: the ledger is not asked.
Consume_Again ==
  /\ drain = "ledger"
  /\ fresh' \in CollapseLastWins(staged)
  /\ ledger' = ledger \cup {Fp(l) : l \in fresh'}
  /\ drain' = "drop"
  /\ UNCHANGED <<records, memory, commits, inbox, wal, parked, home, agent, blocks, mode, staged, acted, undone, faults, lost>>

\* finalizeInboxDrain, up to the save of the ledger
Consume ==
  /\ drain = "ledger"
  /\ \E W \in CollapseLastWins(staged) : fresh' = {l \in W : Fp(l) \notin ledger}
  /\ ledger' = ledger \cup {Fp(l) : l \in fresh'}
  /\ drain' = "drop"
  /\ UNCHANGED <<records, memory, commits, inbox, wal, parked, home, agent, blocks, mode, staged, acted, undone, faults, lost>>

\* What goes with it: a line that lost against a late one of its child.
Drop ==
  /\ drain = "drop"
  /\ wal' = {} /\ Return(mode, fresh)
  /\ UNCHANGED <<records, memory, commits, inbox, ledger, parked, home, undone, faults>>
  /\ Loses({l \in staged : \E w \in staged \cap late : w.child = l.child /\ w.turn < l.turn})

\* An error, or the death of the hook or of the command: nothing is handed out.
DrainDies ==
  /\ drain # "no" /\ Fault
  /\ Leave
  /\ undone' = IF drain = "drop" THEN undone \cup {Fp(l) : l \in fresh} ELSE undone
  /\ IF mode = "hook" THEN Rest ELSE UNCHANGED agent
  /\ UNCHANGED <<records, memory, commits, inbox, wal, ledger, parked, home, blocks, acted, lost>>

-----------------------------------------------------------------------------
(* rm of the parent: its session is killed and its row deleted, then its   *)
(* files are swept                                                         *)

RemoveParent ==
  /\ home = "yes" /\ drain = "no"
  /\ home' = "removed" /\ Rest
  /\ UNCHANGED <<records, memory, commits, inbox, wal, ledger, parked, blocks, drain, mode, staged, fresh, acted, undone, faults, lost>>

SweepParent ==
  /\ home = "removed"
  /\ home' = "swept"
  /\ inbox' = {} /\ wal' = {} /\ ledger' = {} /\ blocks' = 0
  /\ UNCHANGED <<records, memory, commits, parked, agent, drain, mode, staged, fresh, acted, undone, faults, lost>>

-----------------------------------------------------------------------------
Commit(p) == ResolveFails(p) \/ Read(p) \/ Rename(p) \/ Append(p)
             \/ CommitFails(p) \/ Park(p) \/ AckRead(p) \/ AckWrite(p) \/ AckFails(p)
DaemonPass == Commit(Daemon) \/ Replay \/ \E l \in Lines : Deliver(l)
Drain == Stage \/ Write \/ RemoveInbox \/ Consume \/ Drop \/ DrainDies

Next ==
  \/ \E t \in Tasks : Claim(t) \/ Finish(t) \/ Commit(t) \/ WrapperDies(t)
  \/ \E c \in Talkers : TalkerFlips(c) \/ Observe(c) \/ ObserveDuplicate(c) \/ HookCandidate(c)
  \/ DaemonPass \/ DaemonDies \/ DaemonStarts
  \/ Heartbeat \/ Stop \/ Drain
  \/ RemoveParent \/ SweepParent

Spec == Init /\ [][Next]_vars

\* The daemon is supervised and polls, the heartbeat wakes the agent, and both
\* go on with what they have begun, as does a wrapper with its commit.
Fairness == /\ WF_vars(DaemonPass) /\ \A t \in Tasks : WF_vars(Commit(t))
            /\ WF_vars(DaemonStarts)
            /\ WF_vars(Heartbeat) /\ WF_vars(Stop) /\ WF_vars(Drain)

FairSpec == Spec /\ Fairness

-----------------------------------------------------------------------------
(* Properties                                                              *)

Records == [run : Nat, status : {"none", "claim", "finished", "acked"}]
TypeOK ==
  /\ runs \in [Tasks -> Nat] /\ rec \in [Tasks -> Records]
  /\ turn \in [Talkers -> Nat] /\ seen \in [Talkers -> Nat]
  /\ tries \in [Tasks -> 0..MaxAttempts] /\ batch \subseteq Lines /\ late \subseteq Lines
  /\ pc \in [Committers -> {"idle", "gone", "run", "read", "rename", "append", "park", "ack",
                             "mark", "down"}]
  /\ job \in [Committers -> Lines \cup {None}] /\ kept \in [Committers -> SUBSET Lines]
  /\ copy \in [Committers -> Records]
  /\ inbox \subseteq Lines /\ wal \subseteq Lines /\ parked \subseteq Lines
  /\ ledger \subseteq Fps
  /\ home \in {"yes", "removed", "swept"}
  /\ agent \in {"user", "more"} /\ blocks \in 0..MaxBlocks
  /\ drain \in {"no", "stage", "write", "remove", "ledger", "drop"}
  /\ mode \in {"beat", "hook"} /\ staged \subseteq Lines /\ fresh \subseteq staged
  /\ faults \in 0..MaxFaults
  /\ last \in [Children -> Nat] /\ acted \in [Fps -> Nat]
  /\ undone \subseteq Fps /\ lost \subseteq Lines

\* inbox_outbox.go 106-151, inbox_consumer.go 111-186, transition_daemon.go
\* 143-175, taskworker.go 213-250: while its parent is registered, the last
\* completion of a child (a run that finished, a turn that was committed) is on
\* disk as a record to be replayed, a line to be drained, a consumed turn or a
\* dead letter, whatever died on the way.  What can lose it is named where Loses
\* is used: a process removed a line it had not read, or died between its
\* rewrite and its append; a copy of an older run replaced the line, outlived it
\* in the drain or acked its record; a claim replaced the record; the record or
\* the dead letter could not be written.
ToReplay(l) == l.child \in Tasks /\ rec[l.child] = [run |-> l.turn, status |-> "finished"]
Appending(c) ==
  \E p \in Committers : pc[p] = "append" /\ job[p].child = c /\ last[c] <= job[p].turn
CompletionKept == home = "yes" => \A c \in Children :
  last[c] > 0 => LET l == Line(c, last[c]) IN
                 Delivered(l) \/ ToReplay(l) \/ l \in lost \/ Appending(c)

\* inbox_consumer.go 149-186: what the ledger calls consumed was handed to the
\* agent, or is about to be, unless the drain died right after it saved.
LedgerIsHonest == \A f \in ledger :
  \/ acted[f] > 0 \/ f \in undone
  \/ drain = "drop" /\ \E l \in fresh : Fp(l) = f

\* inbox_consumer.go 30: the agent is handed a turn at most once, however often
\* it was committed, staged and recovered.
ActedOnce == \A f \in Fps : acted[f] <= 1

\* transition_daemon.go 143-175: a run that finished is consumed or dead-lettered
\* in the end, unless its line is lost in one of the ways above and nobody has a
\* copy of it, a later run has finished or the parent is removed.
Gone(l) == /\ l \in lost /\ ~ToReplay(l) /\ l \notin batch
           /\ \A p \in Committers : job[p] # l
EveryCompletionSettles == \A t \in Tasks : \A n \in 1..MaxRuns[t] :
  last[t] = n ~> \/ Fp(Line(t, n)) \in ledger \/ Line(t, n) \in parked
                 \/ last[t] > n \/ home # "yes"
                 \/ Gone(Line(t, n))
=============================================================================
