------------------------- MODULE ParentInbox_proofs -------------------------
(***************************************************************************)
(* What the inbox of a parent guarantees for any children, signals, bounds *)
(* and faults.  Two arguments meet: a record is acked for a line that is   *)
(* held elsewhere, or else is lost to an older copy, since nobody commits  *)
(* a run that is still to finish; and what the drain removes is in the     *)
(* ledger, or was beaten by a late line, since no line in the files is of  *)
(* a later turn than the last.                                             *)
(***************************************************************************)
EXTENDS ParentInbox, TLAPS

-----------------------------------------------------------------------------
\* The invariant.

\* The states of a committer that has a line to commit.
Holding == {"read", "rename", "append", "park", "ack", "mark"}

\* How far the runs of a task and the turns of a talker have come.
Counts ==
  /\ \A t \in Tasks : runs[t] <= MaxRuns[t] /\ last[t] <= runs[t]
  /\ \A t \in Tasks : rec[t].status = "finished" => 0 < rec[t].run /\ rec[t].run <= last[t]
  /\ \A c \in Talkers : turn[c] <= MaxRuns[c] /\ last[c] <= turn[c]

\* Where the committers can be.
Places ==
  /\ pc[Daemon] \in {"idle", "down"} \cup Holding
  /\ \A t \in Tasks : pc[t] \in {"gone", "run"} \cup Holding
  /\ \A t \in Tasks : pc[t] = "run" => last[t] < runs[t]

\* What they commit: of a task no run that is still to finish, of a talker no turn
\* older than the last.
Job(p) ==
  LET c == job[p].child IN
  /\ job[p] \in Lines
  /\ p \in Tasks => c = p
  /\ c \in Tasks => job[p].turn <= last[c]
  /\ c \in Talkers => /\ last[c] <= job[p].turn /\ job[p].turn <= turn[c]
                      /\ pc[p] \in {"read", "rename", "append"}

Jobs == /\ \A p \in Committers : pc[p] \in Holding => Job(p)
        /\ \A l \in batch : l.child \in Tasks /\ l.turn <= last[l.child]

\* No line is of a later turn than the last.
Past(S) == \A l \in S : l.turn <= last[l.child]
PastInv == Past(inbox \cup wal \cup staged) /\ \A p \in Committers : Past(kept[p])

\* The newest line of its child in S, and one that it may have lost against.
Newest(l, S) == \A m \in S : m.child = l.child => m.turn <= l.turn
Beaten(l, S) == \E w \in S \cap late : w.child = l.child /\ w.turn < l.turn

\* What the drain has in flight.
Draining ==
  /\ drain # "no" => home = "yes"
  /\ drain # "drop" => fresh = {}
  /\ drain = "write" => wal \subseteq staged
  /\ drain \in {"remove", "ledger", "drop"} => wal = staged
  /\ drain = "drop" => \A l \in staged : Newest(l, staged) => Fp(l) \in ledger \/ Beaten(l, staged)
  /\ drain = "drop" => \A l \in fresh : Fp(l) \in ledger /\ acted[Fp(l)] = 0

\* What was handed out is in the ledger, as long as there is one.
Marked == home = "yes" => \A f \in Fps : acted[f] > 0 => f \in ledger

\* The last completion of c needs no record any more.
Held(c) ==
  \/ Delivered(Line(c, last[c])) \/ Line(c, last[c]) \in lost
  \/ Appending(c)

HeldInv == home = "yes" =>
  /\ \A c \in Children : last[c] > 0 => Held(c) \/ ToReplay(Line(c, last[c]))
  /\ \A p \in Committers : pc[p] \in {"ack", "mark"} /\ job[p].turn = last[job[p].child]
                             => Held(job[p].child)

InboxInv == Counts /\ Places /\ Jobs /\ PastInv /\ Draining

-----------------------------------------------------------------------------
\* Lines.

LEMMA LineFacts ==
  /\ \A l \in Lines : /\ l.child \in Children /\ l.turn \in 1..MaxRuns[l.child]
                      /\ l.turn \in Nat /\ l.turn > 0 /\ l = Line(l.child, l.turn)
  /\ \A c \in Children, n \in Nat : n > 0 /\ n <= MaxRuns[c] => Line(c, n) \in Lines
  /\ \A c, n : Line(c, n).child = c /\ Line(c, n).turn = n
<1>1. \A c, n : Line(c, n).child = c /\ Line(c, n).turn = n
  BY DEF Line
<1>2. \A c \in Children : MaxRuns[c] \in Nat
  BY InboxAssumption
<1>3. ASSUME NEW l \in Lines
      PROVE  /\ l.child \in Children /\ l.turn \in 1..MaxRuns[l.child]
             /\ l.turn \in Nat /\ l.turn > 0 /\ l = Line(l.child, l.turn)
  <2>1. PICK c \in Children : l \in {Line(c, n) : n \in 1..MaxRuns[c]}
    BY Zenon DEF Lines
  <2>2. PICK n \in 1..MaxRuns[c] : l = Line(c, n)
    BY <2>1
  <2> QED
    BY <1>1, <1>2, <2>2
<1>4. ASSUME NEW c \in Children, NEW n \in Nat, n > 0, n <= MaxRuns[c]
      PROVE  Line(c, n) \in Lines
  <2>1. n \in 1..MaxRuns[c]
    BY <1>2, <1>4
  <2> QED
    BY <2>1 DEF Lines
<1> QED
  BY <1>1, <1>3, <1>4

LEMMA FpFacts == \A l \in Lines : Fp(l) \in Fps
BY DEF Fps

LEMMA Names ==
  /\ Daemon \in Committers /\ Daemon \notin Tasks /\ Daemon \notin Children
  /\ \A t \in Tasks : t \in Committers /\ t \in Children /\ t # Daemon /\ t \notin Talkers
  /\ \A c \in Talkers : c \in Children /\ c \notin Tasks
  /\ \A p \in Committers : p = Daemon \/ p \in Tasks
  /\ \A c \in Children : c \in Tasks \/ c \in Talkers
  /\ \A c \in Children : MaxRuns[c] \in Nat
BY InboxAssumption DEF Committers, Children

-----------------------------------------------------------------------------
\* What is lost, and what a step does to the committer that takes it.

\* A step that loses lines names those that are nowhere else.
LEMMA LosesFacts ==
  ASSUME NEW S, Loses(S)
  PROVE  /\ lost \subseteq lost' /\ lost' \subseteq lost \cup S
         /\ \A l \in S : Delivered(l)' \/ l \in lost'
BY DEF Loses

PCs == {"idle", "gone", "run", "read", "rename", "append", "park", "ack", "mark", "down"}

\* No other committer moves.
Alone(p) ==
  /\ pc' \in [Committers -> PCs] /\ job' \in [Committers -> Lines \cup {None}]
  /\ kept' \in [Committers -> SUBSET Lines] /\ copy' \in [Committers -> Records]
  /\ \A q \in Committers \ {p} :
       pc'[q] = pc[q] /\ job'[q] = job[q] /\ kept'[q] = kept[q] /\ copy'[q] = copy[q]

\* p is there with its line, and keeps what it has read.
Moved(p, l) == Alone(p) /\ pc'[p] = l /\ job'[p] = job[p] /\ kept'[p] = kept[p]
Left(p, l) == Alone(p) /\ pc'[p] = l /\ job'[p] = None /\ kept'[p] = {}
Took(p, j) == Alone(p) /\ pc'[p] = "read" /\ job'[p] = j /\ kept'[p] = kept[p]

LEMMA NoRecordFacts == NoRecord \in Records /\ NoRecord.status = "none"
BY DEF NoRecord, Records

LEMMA GotoFacts ==
  ASSUME TypeOK, NEW p \in Committers, NEW l \in PCs, Goto(p, l), UNCHANGED <<job, kept, copy>>
  PROVE  Moved(p, l)
BY DEF TypeOK, Goto, Moved, Alone, PCs

LEMMA ThroughFacts ==
  ASSUME TypeOK, NEW p \in Committers, NEW l \in PCs, Through(p, l)
  PROVE  Left(p, l)
<1>1. job' \in [Committers -> Lines \cup {None}] /\ job'[p] = None
  BY DEF TypeOK, Through
<1>2. kept' \in [Committers -> SUBSET Lines] /\ kept'[p] = {}
  BY DEF TypeOK, Through
<1>3. pc' \in [Committers -> PCs] /\ pc'[p] = l
  BY DEF TypeOK, Through, Goto, PCs
<1>4. copy' \in [Committers -> Records]
  BY NoRecordFacts DEF TypeOK, Through
<1>5. \A q \in Committers \ {p} :
        pc'[q] = pc[q] /\ job'[q] = job[q] /\ kept'[q] = kept[q] /\ copy'[q] = copy[q]
  BY DEF TypeOK, Through, Goto
<1> QED
  BY <1>1, <1>2, <1>3, <1>4, <1>5 DEF Left, Alone

LEMMA TookFacts ==
  ASSUME TypeOK, NEW p \in Committers, NEW j \in Lines, Goto(p, "read"),
         job' = [job EXCEPT ![p] = j], UNCHANGED <<kept, copy>>
  PROVE  Took(p, j)
BY DEF TypeOK, Goto, Took, Alone, PCs

AtRest(p) == IF p = Daemon THEN "idle" ELSE "gone"

LEMMA QuitFacts ==
  ASSUME TypeOK, NEW p \in Committers, Quit(p) PROVE Left(p, AtRest(p))
BY ThroughFacts DEF Quit, AtRest, PCs

\* A commit that fails is given up, or its line is to be a dead letter.
LEMMA NotCommittedFacts ==
  ASSUME TypeOK, NEW p \in Committers, NotCommitted(p)
  PROVE  /\ UNCHANGED <<turn, seen, batch, late>> /\ tries' \in [Tasks -> 0..MaxAttempts]
         /\ Left(p, AtRest(p)) \/ (Moved(p, "park") /\ job[p].child \in Tasks)
<1> DEFINE n == tries[job[p].child] + 1
<1>1. CASE p = Daemon /\ job[p].child \in Tasks
  <2>1. UNCHANGED <<turn, seen, batch, late>> /\ Unresolvable(job[p])
    BY <1>1 DEF NotCommitted
  <2>2. n \in Nat /\ MaxAttempts \in Nat
    BY <1>1, InboxAssumption DEF TypeOK
  <2>3. tries' \in [Tasks -> 0..MaxAttempts]
    <3>1. tries' = [tries EXCEPT ![job[p].child] = IF n <= MaxAttempts THEN n ELSE @]
      BY <2>1 DEF Unresolvable
    <3>2. (IF n <= MaxAttempts THEN n ELSE tries[job[p].child]) \in 0..MaxAttempts
      BY <1>1, <2>2 DEF TypeOK
    <3> QED
      BY <1>1, <3>1, <3>2 DEF TypeOK
  <2>4. CASE n = MaxAttempts
    <3>1. Goto(p, "park") /\ UNCHANGED <<job, kept, copy>>
      BY <1>1, <2>1, <2>4 DEF Unresolvable
    <3>2. Moved(p, "park")
      BY <3>1, GotoFacts DEF PCs
    <3> QED
      BY <1>1, <2>1, <2>3, <3>1, <3>2
  <2>5. CASE n # MaxAttempts
    <3>1. Quit(p)
      BY <1>1, <2>1, <2>5 DEF Unresolvable
    <3> QED
      BY <2>1, <2>3, <3>1, QuitFacts
  <2> QED
    BY <2>4, <2>5
<1>2. CASE ~(p = Daemon /\ job[p].child \in Tasks)
  <2>1. Quit(p) /\ UNCHANGED memory
    BY <1>2, Zenon DEF NotCommitted
  <2> QED
    BY <2>1, QuitFacts DEF memory, TypeOK
<1> QED
  BY <1>1, <1>2

-----------------------------------------------------------------------------
\* The steps of the committers and of what they commit, one side of the inbox, ...
CommitSide ==
  \/ \E t \in Tasks : Claim(t) \/ Finish(t) \/ WrapperDies(t)
  \/ \E c \in Talkers : TalkerFlips(c) \/ Observe(c) \/ ObserveDuplicate(c) \/ HookCandidate(c)
  \/ \E p \in Committers : Commit(p)
  \/ Replay \/ \E l \in Lines : Deliver(l)
  \/ DaemonDies \/ DaemonStarts
\* ... and those of the agent and of the parent's end, the other.
DrainSide == Heartbeat \/ Stop \/ Drain \/ RemoveParent \/ SweepParent

LEMMA Sides ==
  /\ Next => CommitSide \/ DrainSide
  /\ CommitSide => UNCHANGED <<wal, ledger, home, drains>>
  /\ DrainSide => UNCHANGED <<records, memory, commits, parked>>
<1>1. Next => CommitSide \/ DrainSide
  BY Names DEF Next, CommitSide, DrainSide, DaemonPass
<1>2. \A p \in Committers : Commit(p) => UNCHANGED <<wal, ledger, home, drains>>
  BY DEF Commit, ResolveFails, Read, Rename, Append, CommitFails, Park, AckRead, AckWrite,
     AckFails
<1>3. CommitSide => UNCHANGED <<wal, ledger, home, drains>>
  BY <1>2 DEF CommitSide, Claim, Finish, WrapperDies, Replay, Deliver, TalkerFlips, Observe,
     ObserveDuplicate, HookCandidate, DaemonDies, DaemonStarts
<1>4. DrainSide => UNCHANGED <<records, memory, commits, parked>>
  BY DEF DrainSide, Heartbeat, Stop, Drain, Stage, Write, RemoveInbox, Consume, Drop, DrainDies,
     RemoveParent, SweepParent
<1> QED
  BY <1>1, <1>3, <1>4

-----------------------------------------------------------------------------
\* What a step does to the records and to the last completions.

\* No other record, no other last completion changes.
OnlyRecord(t) == rec' \in [Tasks -> Records] /\ \A u \in Tasks \ {t} : rec'[u] = rec[u]
RecordIs(t, n, s) == OnlyRecord(t) /\ rec'[t] = [run |-> n, status |-> s]
LastIs(c, n) ==
  /\ last' \in [Children -> Nat] /\ last'[c] = n
  /\ \A d \in Children \ {c} : last'[d] = last[d]

LEMMA ClaimFacts ==
  ASSUME TypeOK, InboxInv, NEW t \in Tasks, Claim(t)
  PROVE  /\ pc[t] = "gone" /\ Moved(t, "run") /\ UNCHANGED <<last, memory, inbox, parked>>
         /\ runs' = [runs EXCEPT ![t] = @ + 1] /\ runs[t] < MaxRuns[t]
         /\ \/ rec' = rec
            \/ /\ RecordIs(t, runs[t] + 1, "claim")
               /\ \A l : rec[t].status = "finished" /\ l = Line(t, rec[t].run)
                        => Delivered(l)' \/ l \in lost'
         /\ lost \subseteq lost' /\ lost' \subseteq lost \cup {Line(t, rec[t].run)}
         /\ rec[t].status # "finished" => lost' = lost
         /\ faults' = faults \/ Fault
<1> USE Names
<1> DEFINE S == IF rec[t].status = "finished" THEN {Line(t, rec[t].run)} ELSE {}
<1>1. /\ pc[t] = "gone" /\ Goto(t, "run") /\ UNCHANGED <<last, memory, job, kept, copy, inbox, parked>>
      /\ runs' = [runs EXCEPT ![t] = @ + 1] /\ runs[t] < MaxRuns[t]
  BY DEF Claim
<1>2. Moved(t, "run")
  BY <1>1, GotoFacts DEF PCs
<1>3. \/ Fault /\ UNCHANGED <<rec, lost>>
      \/ /\ rec' = [rec EXCEPT ![t] = [run |-> runs[t] + 1, status |-> "claim"]]
         /\ Loses(S) /\ faults' = faults
  BY DEF Claim
<1>4. ASSUME rec' = [rec EXCEPT ![t] = [run |-> runs[t] + 1, status |-> "claim"]]
      PROVE  RecordIs(t, runs[t] + 1, "claim")
  <2>1. runs[t] + 1 \in Nat
    BY DEF TypeOK
  <2>2. [run |-> runs[t] + 1, status |-> "claim"] \in Records
    BY <2>1 DEF Records
  <2> QED
    BY <1>4, <2>2 DEF RecordIs, OnlyRecord, TypeOK
<1>5. /\ lost \subseteq lost' /\ lost' \subseteq lost \cup S
      /\ rec' = rec \/ \A l \in S : Delivered(l)' \/ l \in lost'
  <2>1. CASE UNCHANGED <<rec, lost>>
    BY <2>1
  <2>2. CASE Loses(S)
    <3> HIDE DEF S
    <3> QED
      BY <2>2, LosesFacts
  <2> QED
    BY <1>3, <2>1, <2>2
<1>6. rec[t].status # "finished" => lost' = lost
  BY <1>5
<1>7. \/ rec' = rec
      \/ /\ RecordIs(t, runs[t] + 1, "claim")
         /\ \A l : rec[t].status = "finished" /\ l = Line(t, rec[t].run)
                  => Delivered(l)' \/ l \in lost'
  BY <1>3, <1>4, <1>5
<1>8. lost' \subseteq lost \cup {Line(t, rec[t].run)}
  BY <1>5
<1> QED
  BY <1>1, <1>2, <1>3, <1>5, <1>6, <1>7, <1>8

LEMMA FinishFacts ==
  ASSUME TypeOK, InboxInv, NEW t \in Tasks, Finish(t)
  PROVE  /\ pc[t] = "run" /\ last[t] < runs[t] /\ runs[t] \in Nat /\ runs[t] <= MaxRuns[t]
         /\ Line(t, runs[t]) \in Lines /\ Took(t, Line(t, runs[t])) /\ LastIs(t, runs[t])
         /\ UNCHANGED <<runs, memory, inbox, parked>>
         /\ \/ RecordIs(t, runs[t], "finished") /\ UNCHANGED <<faults, lost>>
            \/ /\ rec' = rec /\ Fault /\ lost \subseteq lost'
               /\ lost' \subseteq lost \cup {Line(t, runs[t])}
               /\ \A l : l = Line(t, runs[t]) => Delivered(l)' \/ l \in lost'
<1> USE Names
<1>1. pc[t] = "run" /\ last[t] < runs[t] /\ runs[t] \in Nat /\ runs[t] <= MaxRuns[t]
      /\ last[t] \in Nat
  BY DEF Finish, InboxInv, Places, Counts, TypeOK
<1>2. Line(t, runs[t]) \in Lines
  BY <1>1, LineFacts
<1>3. Took(t, Line(t, runs[t]))
  BY <1>2, TookFacts DEF Finish
<1>4. LastIs(t, runs[t])
  BY <1>1 DEF Finish, LastIs, TypeOK
<1>5. ASSUME rec' = [rec EXCEPT ![t] = [run |-> runs[t], status |-> "finished"]]
      PROVE  RecordIs(t, runs[t], "finished")
  <2>1. [run |-> runs[t], status |-> "finished"] \in Records
    BY <1>1 DEF Records
  <2> QED
    BY <1>5, <2>1 DEF RecordIs, OnlyRecord, TypeOK
<1>6. ASSUME Loses({Line(t, runs[t])})
      PROVE  /\ lost \subseteq lost' /\ lost' \subseteq lost \cup {Line(t, runs[t])}
             /\ \A l : l = Line(t, runs[t]) => Delivered(l)' \/ l \in lost'
  BY <1>6, LosesFacts
<1> QED
  BY <1>1, <1>2, <1>3, <1>4, <1>5, <1>6 DEF Finish

\* The line of a committer.
LEMMA JobFacts ==
  ASSUME TypeOK, InboxInv, NEW p \in Committers, pc[p] \in Holding
  PROVE  /\ Job(p) /\ job[p] \in Lines /\ job[p].child \in Children /\ job[p].turn \in Nat
         /\ job[p].turn > 0 /\ job[p] = Line(job[p].child, job[p].turn)
BY LineFacts DEF InboxInv, Jobs, Job

LEMMA AckWriteFacts ==
  ASSUME TypeOK, InboxInv, NEW p \in Committers, AckWrite(p), NEW c, c = job[p].child
  PROVE  /\ pc[p] = "mark" /\ c \in Tasks /\ job[p].turn <= last[c] /\ job[p] \in Lines
         /\ Left(p, AtRest(p)) /\ UNCHANGED <<runs, last, memory, inbox, parked, faults>>
         /\ OnlyRecord(c) /\ rec'[c].status # "finished"
         /\ lost \subseteq lost' /\ lost' \subseteq lost \cup {Line(c, rec[c].run)}
         /\ rec[c].status # "finished" => lost' = lost
         /\ \A l : rec[c].status = "finished" /\ rec[c].run > job[p].turn /\ l = Line(c, rec[c].run)
                  => Delivered(l)' \/ l \in lost'
<1> USE Names
<1>1. pc[p] = "mark" /\ Quit(p) /\ UNCHANGED <<runs, last, memory, inbox, parked, faults>>
  BY DEF AckWrite
<1>2. c \in Tasks /\ job[p].turn <= last[c] /\ job[p] \in Lines
  BY <1>1, JobFacts DEF Holding, Job
<1>3. Left(p, AtRest(p))
  BY <1>1, QuitFacts
<1> DEFINE r == [copy[p] EXCEPT !.status = IF @ = "finished" THEN "acked" ELSE @]
<1>4. rec' = [rec EXCEPT ![c] = r]
  BY DEF AckWrite
<1>5. r \in Records /\ r.status # "finished"
  <2>1. copy[p] \in Records
    BY DEF TypeOK
  <2> QED
    BY <2>1 DEF Records
<1> HIDE DEF r
<1>6. OnlyRecord(c) /\ rec'[c].status # "finished"
  BY <1>2, <1>4, <1>5 DEF OnlyRecord, TypeOK
<1> DEFINE S == IF rec[c].status = "finished" /\ rec[c].run > job[p].turn
                  THEN {Line(c, rec[c].run)} ELSE {}
<1>7. Loses(S)
  BY DEF AckWrite
<1>8. lost \subseteq lost' /\ lost' \subseteq lost \cup S /\ \A l \in S : Delivered(l)' \/ l \in lost'
  <2> HIDE DEF S
  <2> QED
    BY <1>7, LosesFacts
<1>9. /\ lost' \subseteq lost \cup {Line(c, rec[c].run)}
      /\ rec[c].status # "finished" => lost' = lost
      /\ \A l : rec[c].status = "finished" /\ rec[c].run > job[p].turn /\ l = Line(c, rec[c].run)
               => Delivered(l)' \/ l \in lost'
  BY <1>8
<1> QED
  BY <1>1, <1>2, <1>3, <1>6, <1>8, <1>9

LEMMA AppendFacts ==
  ASSUME TypeOK, InboxInv, NEW p \in Committers, Append(p), NEW c, c = job[p].child
  PROVE  /\ pc[p] = "append" /\ Job(p) /\ c \in Children /\ job[p] = Line(c, job[p].turn)
         /\ job[p] \in Lines /\ job[p].turn \in Nat
         /\ UNCHANGED <<runs, rec, memory, parked, faults>>
         /\ inbox' = inbox \cup {job[p]} /\ lost' = lost \ {job[p]}
         /\ c \in Tasks => last' = last /\ Moved(p, "ack")
         /\ c \notin Tasks => LastIs(c, job[p].turn) /\ Left(p, AtRest(p)) /\ c \in Talkers
<1> USE Names
<1>1. /\ pc[p] = "append" /\ UNCHANGED <<runs, rec, memory, parked, faults>>
      /\ inbox' = inbox \cup {job[p]} /\ lost' = lost \ {job[p]}
  BY DEF Append
<1>2. /\ Job(p) /\ job[p] \in Lines /\ c \in Children /\ job[p].turn \in Nat
      /\ job[p] = Line(c, job[p].turn)
  BY <1>1, JobFacts DEF Holding
<1>3. ASSUME c \in Tasks PROVE last' = last /\ Moved(p, "ack")
  BY <1>3, GotoFacts DEF Append, PCs
<1>4. ASSUME c \notin Tasks PROVE LastIs(c, job[p].turn) /\ Left(p, AtRest(p)) /\ c \in Talkers
  <2>1. c \in Talkers /\ Quit(p) /\ last' = [last EXCEPT ![c] = job[p].turn]
    BY <1>2, <1>4 DEF Append
  <2> QED
    BY <1>2, <2>1, QuitFacts DEF LastIs, TypeOK
<1> QED
  BY <1>1, <1>2, <1>3, <1>4

\* The other steps leave both alone.
LEMMA RecordsStay ==
  ASSUME CommitSide \/ DrainSide \/ UNCHANGED vars
  PROVE  \/ UNCHANGED <<runs, rec, last>>
         \/ \E t \in Tasks : Claim(t) \/ Finish(t)
         \/ \E p \in Committers : Append(p) \/ AckWrite(p)
BY Sides DEF CommitSide, Commit, ResolveFails, Read, Rename, CommitFails, Park, AckRead, AckFails,
   WrapperDies, Replay, Deliver, TalkerFlips, Observe, ObserveDuplicate, HookCandidate,
   DaemonDies, DaemonStarts, vars, records

LEMMA TurnGrows ==
  ASSUME TypeOK, [Next]_vars
  PROVE  \/ turn' = turn
         \/ \E c \in Talkers : TalkerFlips(c) /\ turn' = [turn EXCEPT ![c] = @ + 1]
                               /\ turn[c] < MaxRuns[c] /\ UNCHANGED <<runs, rec, last>>
<1>1. CommitSide \/ DrainSide \/ UNCHANGED vars
  BY Sides
<1>2. turn' = turn \/ \E c \in Talkers : TalkerFlips(c)
  BY <1>1, Sides, NotCommittedFacts DEF CommitSide, Claim, Finish, Commit, ResolveFails, Read,
     Rename, Append, CommitFails, Park, AckRead, AckWrite, AckFails, WrapperDies, Replay, Deliver,
     Observe, ObserveDuplicate, HookCandidate, DaemonDies, DaemonStarts, vars, memory
<1> QED
  BY <1>2 DEF TalkerFlips, records

\* Last completions only ever get later.
LEMMA LastGrows ==
  ASSUME TypeOK, InboxInv, [Next]_vars
  PROVE  \A c \in Children : last[c] \in Nat /\ last'[c] \in Nat /\ last[c] <= last'[c]
<1> USE Names
<1> DEFINE Grows == \A c \in Children : last[c] \in Nat /\ last'[c] \in Nat /\ last[c] <= last'[c]
<1>1. ASSUME last' = last PROVE Grows
  BY <1>1 DEF TypeOK
<1>2. ASSUME NEW c \in Children, NEW n \in Nat, last[c] <= n, LastIs(c, n) PROVE Grows
  BY <1>2 DEF LastIs, TypeOK
<1> HIDE DEF Grows
<1>3. ASSUME NEW t \in Tasks, Finish(t) PROVE Grows
  <2>1. last[t] <= runs[t] /\ runs[t] \in Nat /\ LastIs(t, runs[t])
    <3>1. last[t] \in Nat
      BY DEF TypeOK
    <3> QED
      BY <1>3, <3>1, FinishFacts
  <2> QED
    BY <1>2, <2>1
<1>4. ASSUME NEW p \in Committers, Append(p) PROVE Grows
  <2>1. CASE job[p].child \in Tasks
    BY <1>1, <1>4, <2>1, AppendFacts
  <2>2. CASE job[p].child \notin Tasks
    <3>1. /\ Job(p) /\ LastIs(job[p].child, job[p].turn) /\ job[p].child \in Talkers
          /\ job[p].turn \in Nat
      BY <1>4, <2>2, AppendFacts
    <3> QED
      BY <1>2, <3>1 DEF Job
  <2> QED
    BY <2>1, <2>2
<1>5. Grows
  BY <1>1, <1>3, <1>4, RecordsStay, Sides, ClaimFacts, AckWriteFacts
<1> QED
  BY <1>5 DEF Grows

LEMMA CountsNext == ASSUME TypeOK, InboxInv, [Next]_vars PROVE Counts'
<1> USE Names
<1>0. Counts /\ (CommitSide \/ DrainSide \/ UNCHANGED vars)
  BY Sides DEF InboxInv
<1>1. ASSUME UNCHANGED <<turn, runs, rec, last>> PROVE Counts'
  BY <1>0, <1>1 DEF Counts
<1>2. ASSUME NEW c \in Talkers, turn' = [turn EXCEPT ![c] = @ + 1], turn[c] < MaxRuns[c],
             UNCHANGED <<runs, rec, last>>
      PROVE  Counts'
  BY <1>0, <1>2 DEF Counts, TypeOK
<1>3. ASSUME turn' = turn, NEW t \in Tasks, Claim(t) PROVE Counts'
  <2>1. /\ runs' = [runs EXCEPT ![t] = @ + 1] /\ runs[t] < MaxRuns[t] /\ last' = last
        /\ rec' = rec \/ RecordIs(t, runs[t] + 1, "claim")
    BY <1>3, ClaimFacts
  <2>2. \A u \in Tasks : runs'[u] <= MaxRuns[u] /\ last[u] <= runs'[u]
    BY <1>0, <2>1 DEF Counts, TypeOK
  <2>3. \A u \in Tasks : rec'[u].status = "finished" => rec'[u] = rec[u]
    BY <2>1 DEF RecordIs, OnlyRecord
  <2> QED
    BY <1>0, <1>3, <2>1, <2>2, <2>3 DEF Counts
<1>4. ASSUME turn' = turn, NEW t \in Tasks, Finish(t) PROVE Counts'
  <2>1. /\ runs' = runs /\ LastIs(t, runs[t]) /\ last[t] < runs[t] /\ runs[t] <= MaxRuns[t]
        /\ RecordIs(t, runs[t], "finished") \/ rec' = rec
    BY <1>4, FinishFacts
  <2>2. \A u \in Tasks \ {t} : last'[u] = last[u] /\ rec'[u] = rec[u]
    BY <2>1 DEF LastIs, RecordIs, OnlyRecord
  <2>3. \A c \in Talkers : last'[c] = last[c]
    BY <2>1 DEF LastIs
  <2>4. last'[t] = runs[t]
    BY <2>1 DEF LastIs
  <2>5. last[t] \in Nat /\ runs[t] \in Nat
    BY DEF TypeOK
  <2>6. rec'[t].status = "finished" => 0 < rec'[t].run /\ rec'[t].run <= last'[t]
    <3>1. CASE rec' = rec
      <4>1. rec[t].run \in Nat
        BY DEF TypeOK, Records
      <4> QED
        BY <1>0, <2>1, <2>4, <2>5, <3>1, <4>1 DEF Counts
    <3>2. CASE RecordIs(t, runs[t], "finished")
      BY <2>1, <2>4, <2>5, <3>2 DEF RecordIs
    <3> QED
      BY <2>1, <3>1, <3>2
  <2> QED
    BY <1>0, <1>4, <2>1, <2>2, <2>3, <2>4, <2>5, <2>6 DEF Counts
<1>5. ASSUME turn' = turn, NEW p \in Committers, Append(p) PROVE Counts'
  <2> DEFINE c == job[p].child
  <2>1. CASE c \in Tasks
    BY <1>1, <1>5, <2>1, AppendFacts
  <2>2. CASE c \notin Tasks
    <3>1. Job(p) /\ UNCHANGED <<runs, rec>> /\ LastIs(c, job[p].turn) /\ c \in Talkers
      BY <1>5, <2>2, AppendFacts
    <3>2. last'[c] <= turn[c] /\ \A d \in Children \ {c} : last'[d] = last[d]
      BY <3>1 DEF Job, LastIs
    <3> QED
      BY <1>0, <1>5, <3>1, <3>2 DEF Counts
  <2> QED
    BY <2>1, <2>2
<1>6. ASSUME turn' = turn, NEW p \in Committers, AckWrite(p) PROVE Counts'
  <2> DEFINE c == job[p].child
  <2>1. /\ c \in Tasks /\ UNCHANGED <<runs, last>> /\ OnlyRecord(c)
        /\ rec'[c].status # "finished"
    BY <1>6, AckWriteFacts
  <2>2. \A u \in Tasks : rec'[u].status = "finished" => rec'[u] = rec[u]
    BY <2>1 DEF OnlyRecord
  <2> QED
    BY <1>0, <1>6, <2>1, <2>2 DEF Counts
<1> QED
  BY <1>0, <1>1, <1>2, <1>3, <1>4, <1>5, <1>6, RecordsStay, TurnGrows

-----------------------------------------------------------------------------
\* A step of a committer: where it goes and what it holds then.

LEMMA ReadMoves ==
  ASSUME TypeOK, NEW p \in Committers, Read(p)
  PROVE  /\ Alone(p) /\ pc[p] = "read" /\ pc'[p] \in {"rename", "append"} /\ job' = job
         /\ kept'[p] \subseteq inbox \/ kept'[p] = kept[p]
<1> DEFINE others == {l \in inbox : l.child # job[p].child}
<1>1. CASE others = inbox
  BY <1>1, GotoFacts DEF Read, Moved, PCs
<1>2. CASE others # inbox
  <2>1. /\ Goto(p, "rename") /\ kept' = [kept EXCEPT ![p] = others] /\ job' = job /\ copy' = copy
        /\ pc[p] = "read"
    BY <1>2 DEF Read
  <2>2. others \subseteq Lines /\ others \subseteq inbox
    BY DEF TypeOK
  <2> QED
    BY <2>1, <2>2 DEF Goto, Alone, TypeOK, PCs
<1> QED
  BY <1>1, <1>2

LEMMA AckReadMoves ==
  ASSUME TypeOK, InboxInv, NEW p \in Committers, AckRead(p)
  PROVE  pc[p] = "ack" /\ job[p].child \in Tasks /\ (Moved(p, "mark") \/ Left(p, AtRest(p)))
<1> USE Names
<1> DEFINE r == rec[job[p].child]
<1>1. pc[p] = "ack" /\ job[p].child \in Tasks
  BY JobFacts DEF AckRead, Holding, Job
<1>2. r \in Records
  BY <1>1 DEF TypeOK
<1>3. CASE r.status \in {"claim", "finished"}
  <2>1. copy' = [copy EXCEPT ![p] = r] /\ Goto(p, "mark") /\ UNCHANGED <<job, kept>>
    BY <1>3 DEF AckRead
  <2> HIDE DEF r
  <2>2. Moved(p, "mark")
    BY <1>2, <2>1 DEF Moved, Alone, Goto, TypeOK, PCs
  <2> QED
    BY <1>1, <2>2
<1>4. CASE r.status \notin {"claim", "finished"}
  <2>1. Quit(p)
    BY <1>4 DEF AckRead
  <2> QED
    BY <1>1, <2>1, QuitFacts
<1> QED
  BY <1>3, <1>4

LEMMA DeliverMoves ==
  ASSUME TypeOK, InboxInv, NEW l \in Lines, Deliver(l)
  PROVE  /\ pc[Daemon] = "idle" /\ l \in batch /\ Took(Daemon, l)
         /\ l.child \in Tasks /\ l.turn <= last[l.child]
         /\ UNCHANGED <<runs, rec, last, turn, inbox, parked, lost>>
         /\ batch' = batch \ {l} /\ late' \subseteq late \cup {l} /\ late \subseteq late'
BY Names, TookFacts DEF Deliver, records, InboxInv, Jobs

LEMMA NotifyMoves ==
  ASSUME TypeOK, InboxInv, NEW c \in Talkers, Observe(c) \/ HookCandidate(c)
  PROVE  /\ pc[Daemon] = "idle" /\ Line(c, turn[c]) \in Lines /\ Took(Daemon, Line(c, turn[c]))
         /\ UNCHANGED <<runs, rec, last, turn, batch, late, inbox, parked, lost>>
<1> USE Names
<1>1. turn[c] > 0 /\ turn[c] \in Nat /\ turn[c] <= MaxRuns[c]
  BY DEF Observe, HookCandidate, InboxInv, Counts, TypeOK
<1>2. Line(c, turn[c]) \in Lines
  BY <1>1, LineFacts
<1>3. pc[Daemon] = "idle" /\ Goto(Daemon, "read")
      /\ job' = [job EXCEPT ![Daemon] = Line(c, turn[c])] /\ UNCHANGED <<kept, copy>>
  BY DEF Observe, HookCandidate, Notify, Idle
<1>4. UNCHANGED <<runs, rec, last, turn, batch, late, inbox, parked, lost>>
  BY DEF Observe, HookCandidate, records, memory
<1> QED
  BY <1>2, <1>3, <1>4, TookFacts

\* Where a committer can go with a commit.
Goes(p) ==
  \/ Left(p, AtRest(p))
  \/ /\ Alone(p) /\ pc[p] \in Holding /\ pc'[p] \in Holding /\ job'[p] = job[p]
     /\ pc'[p] \in {"park", "ack", "mark"} => job[p].child \in Tasks

LEMMA CommitMoves ==
  ASSUME TypeOK, InboxInv, NEW p \in Committers, Commit(p)
  PROVE  Goes(p) /\ pc[p] \in Holding
<1> USE Names DEF Holding
<1>1. CASE ResolveFails(p) \/ CommitFails(p)
  <2>1. pc[p] \in Holding /\ NotCommitted(p)
    BY <1>1 DEF ResolveFails, CommitFails
  <2> QED
    BY <2>1, NotCommittedFacts DEF Goes, Moved
<1>2. CASE Read(p)
  BY <1>2, ReadMoves DEF Goes
<1>3. CASE Rename(p)
  BY <1>3 DEF Rename, Goto, Goes, Alone, TypeOK, PCs
<1>4. CASE Append(p)
  BY <1>4, AppendFacts DEF Goes, Moved
<1>5. CASE Park(p)
  <2>1. pc[p] = "park" /\ Moved(p, "ack") /\ job[p].child \in Tasks
    BY <1>5, GotoFacts, JobFacts DEF Park, PCs, Job
  <2> QED
    BY <2>1 DEF Goes, Moved
<1>6. CASE AckRead(p)
  BY <1>6, AckReadMoves DEF Goes, Moved
<1>7. CASE AckWrite(p)
  BY <1>7, AckWriteFacts DEF Goes
<1>8. CASE AckFails(p)
  BY <1>8, QuitFacts DEF AckFails, Goes
<1> QED
  BY <1>1, <1>2, <1>3, <1>4, <1>5, <1>6, <1>7, <1>8 DEF Commit

LEMMA OtherMoves ==
  ASSUME TypeOK
  PROVE  /\ \A t \in Tasks : WrapperDies(t) => Left(t, "gone")
         /\ DaemonDies => Left(Daemon, "down")
         /\ DaemonStarts => Moved(Daemon, "idle") /\ pc[Daemon] = "down"
         /\ Replay \/ (\E c \in Talkers : TalkerFlips(c) \/ ObserveDuplicate(c))
              => UNCHANGED commits
         /\ DrainSide \/ UNCHANGED vars => UNCHANGED commits
<1> USE Names
<1>1. \A t \in Tasks : WrapperDies(t) => Left(t, "gone")
  BY QuitFacts DEF WrapperDies, AtRest
<1>2. DaemonDies => Left(Daemon, "down")
  BY ThroughFacts DEF DaemonDies, PCs
<1>3. DaemonStarts => Moved(Daemon, "idle") /\ pc[Daemon] = "down"
  BY GotoFacts DEF DaemonStarts, PCs
<1>4. Replay \/ (\E c \in Talkers : TalkerFlips(c) \/ ObserveDuplicate(c)) => UNCHANGED commits
  BY DEF Replay, TalkerFlips, ObserveDuplicate
<1>5. DrainSide \/ UNCHANGED vars => UNCHANGED commits
  BY Sides DEF vars
<1> QED
  BY <1>1, <1>2, <1>3, <1>4, <1>5

\* A step of one committer, or none, and what it leads to.
Begins(p) ==
  \/ p \in Tasks /\ Claim(p) /\ Moved(p, "run")
  \/ p \in Tasks /\ Finish(p) /\ Took(p, Line(p, runs[p]))
  \/ \E l \in Lines : p = Daemon /\ Deliver(l) /\ Took(p, l)
  \/ \E c \in Talkers : p = Daemon /\ (Observe(c) \/ HookCandidate(c)) /\ Took(p, Line(c, turn[c]))
Ends(p) == \/ p \in Tasks /\ Left(p, "gone")
           \/ p = Daemon /\ Left(p, "down")
           \/ p = Daemon /\ Moved(p, "idle") /\ pc[p] = "down"

OneMove == UNCHANGED commits \/ \E p \in Committers : Begins(p) \/ Goes(p) \/ Ends(p)

LEMMA OneMoves ==
  ASSUME TypeOK, InboxInv, [Next]_vars
  PROVE  UNCHANGED commits \/ \E p \in Committers : Begins(p) \/ Goes(p) \/ Ends(p)
<1> USE Names
<1>1. ASSUME NEW t \in Tasks, Claim(t) \/ Finish(t) \/ WrapperDies(t) PROVE OneMove
  <2>1. CASE Claim(t)
    BY <2>1, ClaimFacts DEF Begins, OneMove
  <2>2. CASE Finish(t)
    BY <2>2, FinishFacts DEF Begins, OneMove
  <2>3. CASE WrapperDies(t)
    BY <2>3, OtherMoves DEF Ends, OneMove
  <2> QED
    BY <1>1, <2>1, <2>2, <2>3
<1>2. ASSUME NEW c \in Talkers,
             TalkerFlips(c) \/ Observe(c) \/ ObserveDuplicate(c) \/ HookCandidate(c)
      PROVE  OneMove
  <2>1. CASE TalkerFlips(c) \/ ObserveDuplicate(c)
    BY <2>1, OtherMoves DEF OneMove
  <2>2. CASE Observe(c) \/ HookCandidate(c)
    BY <2>2, NotifyMoves DEF Begins, OneMove
  <2> QED
    BY <1>2, <2>1, <2>2
<1>3. ASSUME NEW p \in Committers, Commit(p) PROVE OneMove
  BY <1>3, CommitMoves DEF OneMove
<1>4. ASSUME NEW l \in Lines, Deliver(l) PROVE OneMove
  BY <1>4, DeliverMoves DEF Begins, OneMove
<1>5. ASSUME Replay \/ DaemonDies \/ DaemonStarts \/ DrainSide \/ UNCHANGED vars PROVE OneMove
  BY <1>5, OtherMoves DEF Ends, OneMove
<1>6. ASSUME CommitSide PROVE OneMove
  BY Zenon, <1>1, <1>2, <1>3, <1>4, <1>5, <1>6 DEF CommitSide
<1>7. OneMove
  BY <1>5, <1>6, Sides
<1> QED
  BY <1>7 DEF OneMove

LEMMA MoverAlone ==
  ASSUME NEW p \in Committers, Begins(p) \/ Goes(p) \/ Ends(p) PROVE Alone(p)
BY DEF Begins, Goes, Ends, Moved, Took, Left

LEMMA PlacesNext == ASSUME TypeOK, InboxInv, [Next]_vars PROVE Places'
<1> USE Names DEF Holding
<1>0. Places
  BY DEF InboxInv
<1>1. ASSUME NEW t \in Tasks, pc'[t] = "run" PROVE last'[t] < runs'[t]
  <2>1. CASE Claim(t)
    <3>1. last' = last /\ runs'[t] = runs[t] + 1 /\ last[t] <= runs[t]
      BY <2>1, ClaimFacts DEF TypeOK, InboxInv, Counts
    <3> QED
      BY <3>1 DEF TypeOK
  <2>2. CASE ~Claim(t)
    <3>1. pc[t] = "run" /\ \A p \in Committers : Begins(p) \/ Goes(p) \/ Ends(p) => p # t
      <4>1. ASSUME NEW p \in Committers, Begins(p) \/ Goes(p) \/ Ends(p) PROVE p # t
        <5>1. CASE Begins(p)
          BY <1>1, <2>2, <5>1 DEF Begins, Took
        <5>2. CASE Goes(p)
          BY <1>1, <5>2 DEF Goes, Left, AtRest
        <5>3. CASE Ends(p)
          BY <1>1, <5>3 DEF Ends, Left, Moved
        <5> QED
          BY <4>1, <5>1, <5>2, <5>3
      <4>2. CASE UNCHANGED commits
        BY <1>1, <4>1, <4>2 DEF commits
      <4>3. ASSUME NEW p \in Committers, Begins(p) \/ Goes(p) \/ Ends(p) PROVE pc[t] = "run"
        BY <1>1, <4>1, <4>3, MoverAlone DEF Alone
      <4> QED
        BY <4>1, <4>2, <4>3, OneMoves
    <3>2. last[t] < runs[t]
      BY <1>0, <3>1 DEF Places
    <3>3. last'[t] = last[t] /\ runs'[t] = runs[t]
      <4>1. ASSUME NEW u \in Tasks, Claim(u) PROVE last'[t] = last[t] /\ runs'[t] = runs[t]
        BY <2>2, <4>1, ClaimFacts DEF TypeOK
      <4>2. ASSUME NEW u \in Tasks, Finish(u) PROVE last'[t] = last[t] /\ runs'[t] = runs[t]
        <5>1. u # t /\ runs' = runs /\ LastIs(u, runs[u])
          BY <1>1, <4>2, FinishFacts DEF Took
        <5> QED
          BY <5>1 DEF LastIs
      <4>3. ASSUME NEW p \in Committers, Append(p) PROVE last'[t] = last[t] /\ runs'[t] = runs[t]
        <5>1. \/ UNCHANGED <<runs, last>>
              \/ runs' = runs /\ LastIs(job[p].child, job[p].turn) /\ job[p].child \in Talkers
          BY <4>3, AppendFacts
        <5> QED
          BY <5>1 DEF LastIs
      <4>4. ASSUME NEW p \in Committers, AckWrite(p) PROVE last'[t] = last[t] /\ runs'[t] = runs[t]
        BY <4>4, AckWriteFacts
      <4> QED
        BY <4>1, <4>2, <4>3, <4>4, RecordsStay, Sides
    <3> QED
      BY <3>2, <3>3
  <2> QED
    BY <2>1, <2>2
<1>2. ASSUME NEW p \in Committers, Begins(p) \/ Goes(p) \/ Ends(p)
      PROVE  /\ p = Daemon => pc'[p] \in {"idle", "down"} \cup Holding
             /\ p \in Tasks => pc'[p] \in {"gone", "run"} \cup Holding
  BY <1>2 DEF Begins, Goes, Ends, Moved, Took, Left, AtRest
<1>3. /\ pc'[Daemon] \in {"idle", "down"} \cup Holding
      /\ \A t \in Tasks : pc'[t] \in {"gone", "run"} \cup Holding
  <2>1. CASE UNCHANGED commits
    BY <1>0, <2>1 DEF Places, commits
  <2>2. ASSUME NEW p \in Committers, Begins(p) \/ Goes(p) \/ Ends(p)
        PROVE  /\ pc'[Daemon] \in {"idle", "down"} \cup Holding
               /\ \A t \in Tasks : pc'[t] \in {"gone", "run"} \cup Holding
    <3>1. Alone(p)
      BY <2>2, MoverAlone
    <3> QED
      BY <1>0, <1>2, <2>2, <3>1 DEF Places, Alone
  <2> QED
    BY <2>1, <2>2, OneMoves
<1> QED
  BY <1>1, <1>3 DEF Places

\* The lines that are being committed, and those that are to be, keep their place
\* before the last.
LEMMA TalkersLast ==
  ASSUME TypeOK, InboxInv, [Next]_vars, NEW c \in Talkers
  PROVE  \/ last'[c] = last[c]
         \/ Append(Daemon) /\ job[Daemon].child = c /\ Left(Daemon, "idle")
<1> USE Names
<1>1. ASSUME NEW t \in Tasks, Finish(t) PROVE last'[c] = last[c]
  <2>1. LastIs(t, runs[t])
    BY <1>1, FinishFacts
  <2> QED
    BY <2>1 DEF LastIs
<1>2. ASSUME NEW p \in Committers, Append(p)
      PROVE  \/ last'[c] = last[c]
             \/ Append(Daemon) /\ job[Daemon].child = c /\ Left(Daemon, "idle")
  <2> DEFINE d == job[p].child
  <2>1. CASE d \in Tasks
    BY <1>2, <2>1, AppendFacts
  <2>2. CASE d \notin Tasks
    <3>1. Job(p) /\ LastIs(d, job[p].turn) /\ Left(p, AtRest(p))
      BY <1>2, <2>2, AppendFacts
    <3>2. p = Daemon
      BY <2>2, <3>1 DEF Job
    <3> QED
      BY <1>2, <3>1, <3>2 DEF LastIs, AtRest
  <2> QED
    BY <2>1, <2>2
<1> QED
  BY <1>1, <1>2, RecordsStay, Sides, ClaimFacts, AckWriteFacts

LEMMA JobsNext == ASSUME TypeOK, InboxInv, [Next]_vars PROVE Jobs'
<1> USE Names
<1>1. \A c \in Talkers : turn[c] \in Nat /\ turn'[c] \in Nat /\ turn[c] <= turn'[c]
  <2>1. turn' = turn \/ \E c \in Talkers : turn' = [turn EXCEPT ![c] = @ + 1]
    BY TurnGrows
  <2> QED
    BY <2>1 DEF TypeOK
\* One that holds its line on.
<1>2. ASSUME NEW q \in Committers, pc[q] \in Holding, pc'[q] \in Holding, job'[q] = job[q],
             pc'[q] \in {"park", "ack", "mark"} => pc'[q] = pc[q] \/ job[q].child \in Tasks
      PROVE  Job(q)'
  <2> DEFINE c == job[q].child
  <2>1. Job(q) /\ job[q] \in Lines /\ c \in Children /\ job[q].turn \in Nat
    BY <1>2, JobFacts
  <2>2. c \in Tasks => job[q].turn <= last'[c]
    BY <2>1, LastGrows DEF Job
  <2>3. c \in Talkers => job[q].turn <= turn'[c]
    BY <1>1, <2>1 DEF Job
  <2>4. c \in Talkers => last'[c] <= job[q].turn
    <3>1. ASSUME c \in Talkers, Append(Daemon), Left(Daemon, "idle") PROVE FALSE
      <4>1. q = Daemon
        BY <2>1, <3>1 DEF Job
      <4> QED
        BY <1>2, <3>1, <4>1 DEF Left, Holding
    <3> QED
      BY <2>1, <3>1, TalkersLast DEF Job
  <2>5. c \in Talkers => pc'[q] \in {"read", "rename", "append"}
    BY <1>2, <2>1 DEF Job, Holding
  <2> QED
    BY <1>2, <2>1, <2>2, <2>3, <2>4, <2>5 DEF Job
<1>3. ASSUME NEW p \in Committers, Begins(p) \/ Goes(p) \/ Ends(p), pc'[p] \in Holding
      PROVE  Job(p)'
  <2>1. CASE p \in Tasks /\ Finish(p) /\ Took(p, Line(p, runs[p]))
    <3>1. job'[p] = Line(p, runs[p]) /\ Line(p, runs[p]) \in Lines /\ last'[p] = runs[p]
          /\ runs[p] \in Nat
      BY <2>1, FinishFacts DEF Took, LastIs
    <3> QED
      BY <2>1, <3>1, LineFacts DEF Job
  <2>2. ASSUME NEW l \in Lines, p = Daemon, Deliver(l), Took(p, l) PROVE Job(p)'
    <3>1. job'[p] = l /\ l.child \in Tasks /\ l.turn <= last[l.child] /\ last' = last
      BY <2>2, DeliverMoves DEF Took
    <3> QED
      BY <2>2, <3>1 DEF Job
  <2>3. ASSUME NEW c \in Talkers, p = Daemon, Observe(c) \/ HookCandidate(c),
               Took(p, Line(c, turn[c]))
        PROVE  Job(p)'
    <3>1. /\ job'[p] = Line(c, turn[c]) /\ Line(c, turn[c]) \in Lines /\ pc'[p] = "read"
          /\ UNCHANGED <<last, turn>>
      BY <2>3, NotifyMoves DEF Took
    <3>2. last[c] <= turn[c] /\ turn[c] \in Nat
      BY DEF InboxInv, Counts, TypeOK
    <3> QED
      BY <2>3, <3>1, <3>2, LineFacts DEF Job
  <2>4. CASE Goes(p)
    BY <1>2, <1>3, <2>4 DEF Goes, Left, AtRest, Holding
  <2>5. CASE Ends(p) \/ (Claim(p) /\ Moved(p, "run"))
    BY <1>3, <2>5 DEF Ends, Left, Moved, Holding
  <2> QED
    BY <1>3, <2>1, <2>2, <2>3, <2>4, <2>5 DEF Begins
<1>4. ASSUME NEW q \in Committers, pc'[q] \in Holding PROVE Job(q)'
  <2>1. CASE pc'[q] = pc[q] /\ job'[q] = job[q]
    BY <1>2, <1>4, <2>1
  <2>2. CASE UNCHANGED commits
    BY <2>1, <2>2 DEF commits
  <2>3. ASSUME NEW p \in Committers, Begins(p) \/ Goes(p) \/ Ends(p) PROVE Job(q)'
    <3>1. CASE p = q
      BY <1>3, <1>4, <2>3, <3>1
    <3>2. CASE p # q
      BY <2>1, <2>3, <3>2, MoverAlone DEF Alone
    <3> QED
      BY <3>1, <3>2
  <2> QED
    BY <2>2, <2>3, OneMoves
<1>5. \A l \in batch' : l.child \in Tasks /\ l.turn <= last'[l.child]
  <2>1. ASSUME batch' \subseteq batch
        PROVE  \A l \in batch' : l.child \in Tasks /\ l.turn <= last'[l.child]
    <3> SUFFICES ASSUME NEW l \in batch' PROVE l.child \in Tasks /\ l.turn <= last'[l.child]
      OBVIOUS
    <3>1. l \in Lines /\ l.child \in Tasks /\ l.turn <= last[l.child] /\ l.turn \in Nat
      BY <2>1, LineFacts DEF TypeOK, InboxInv, Jobs
    <3> QED
      BY <3>1, LastGrows
  <2>2. CASE Replay
    <3> SUFFICES ASSUME NEW l \in batch' PROVE l.child \in Tasks /\ l.turn <= last'[l.child]
      OBVIOUS
    <3>1. batch' = Unacked(Tasks) /\ last' = last
      BY <2>2 DEF Replay, records
    <3>2. PICK t \in Tasks : rec[t].status = "finished" /\ l = Line(t, rec[t].run)
      BY <3>1 DEF Unacked
    <3> QED
      BY <3>1, <3>2, LineFacts DEF InboxInv, Counts
  <2>3. batch' \subseteq batch \/ Replay
    <3>1. ASSUME NEW p \in Committers, Commit(p) PROVE batch' = batch
      <4>1. CASE ResolveFails(p) \/ CommitFails(p)
        BY <4>1, NotCommittedFacts DEF ResolveFails, CommitFails
      <4>2. CASE ~(ResolveFails(p) \/ CommitFails(p))
        BY <3>1, <4>2 DEF Commit, Read, Rename, Append, Park, AckRead, AckWrite, AckFails, memory
      <4> QED
        BY <4>1, <4>2
    <3>2. CASE DrainSide \/ UNCHANGED vars
      BY <3>2, Sides DEF vars, memory
    <3>3. CASE CommitSide
      BY <3>1, <3>3 DEF CommitSide, Claim, Finish, WrapperDies, Deliver, TalkerFlips, Observe,
         ObserveDuplicate, HookCandidate, DaemonDies, DaemonStarts, memory
    <3> QED
      BY <3>2, <3>3, Sides
  <2> QED
    BY <2>1, <2>2, <2>3
<1> QED
  BY <1>4, <1>5 DEF Jobs

-----------------------------------------------------------------------------
\* Types.

LEMMA FaultFacts == ASSUME TypeOK, Fault PROVE faults' \in 0..MaxFaults
BY InboxAssumption DEF TypeOK, Fault

\* A record of a run that finished is of a line.
LEMMA RecordLine ==
  ASSUME TypeOK, InboxInv, NEW t \in Tasks, rec[t].status = "finished"
  PROVE  /\ rec[t].run \in Nat /\ rec[t].run > 0 /\ rec[t].run <= last[t]
         /\ Line(t, rec[t].run) \in Lines
<1>1. rec[t].run \in Nat /\ last[t] \in Nat /\ runs[t] \in Nat /\ MaxRuns[t] \in Nat /\ t \in Children
  BY Names DEF TypeOK, Records
<1>2. 0 < rec[t].run /\ rec[t].run <= last[t] /\ last[t] <= runs[t] /\ runs[t] <= MaxRuns[t]
  BY DEF InboxInv, Counts
<1>3. rec[t].run > 0 /\ rec[t].run <= MaxRuns[t]
  BY <1>1, <1>2
<1> QED
  BY <1>1, <1>2, <1>3, LineFacts

LEMMA TornFacts ==
  ASSUME TypeOK, InboxInv, NEW p \in Committers PROVE TornBy(p) \subseteq Lines
<1> DEFINE c == job[p].child
<1> SUFFICES ASSUME pc[p] = "append", 0 < last[c], last[c] <= job[p].turn
             PROVE  Line(c, last[c]) \in Lines
  BY DEF TornBy
<1>1. c \in Children /\ job[p].turn \in 1..MaxRuns[c] /\ job[p].turn \in Nat
  BY JobFacts, LineFacts DEF Holding
<1>2. last[c] \in Nat /\ MaxRuns[c] \in Nat
  BY <1>1, Names DEF TypeOK
<1>3. last[c] > 0 /\ last[c] <= MaxRuns[c]
  BY <1>1, <1>2
<1> QED
  BY <1>1, <1>2, <1>3, LineFacts

\* What the commits leave in the files, and the daemon's memory.
Good ==
  /\ turn' \in [Talkers -> Nat] /\ seen' \in [Talkers -> Nat]
  /\ tries' \in [Tasks -> 0..MaxAttempts]
  /\ batch' \subseteq Lines /\ late' \subseteq Lines
  /\ inbox' \subseteq Lines /\ parked' \subseteq Lines
  /\ faults' \in 0..MaxFaults /\ lost' \subseteq Lines

LEMMA CommitTypes == ASSUME TypeOK, InboxInv, CommitSide PROVE Good
<1> USE Names
<1>1. ASSUME UNCHANGED <<memory, inbox, parked>>, lost' \subseteq Lines,
             faults' = faults \/ Fault
      PROVE  Good
  <2>1. faults' \in 0..MaxFaults
    BY <1>1, FaultFacts DEF TypeOK
  <2> QED
    BY <1>1, <2>1 DEF TypeOK, memory, Good
<1>2. ASSUME NEW t \in Tasks, Claim(t) PROVE Good
  <2>1. lost' \subseteq Lines
    BY <1>2, ClaimFacts, RecordLine DEF TypeOK
  <2> QED
    BY <1>1, <1>2, <2>1, ClaimFacts
<1>3. ASSUME NEW t \in Tasks, Finish(t) PROVE Good
  <2>1. lost' \subseteq Lines
    BY <1>3, FinishFacts DEF TypeOK
  <2> QED
    BY <1>1, <1>3, <2>1, FinishFacts
<1>4. ASSUME NEW p \in Committers, Read(p) \/ AckRead(p) \/ AckFails(p) PROVE Good
  <2>1. lost' \subseteq Lines
    BY <1>4 DEF Read, AckRead, AckFails, TypeOK
  <2> QED
    BY <1>1, <1>4, <2>1 DEF Read, AckRead, AckFails
<1>5. ASSUME NEW p \in Committers, AckWrite(p) PROVE Good
  <2>1. lost' \subseteq Lines
    BY <1>5, AckWriteFacts, RecordLine DEF TypeOK
  <2> QED
    BY <1>1, <1>5, <2>1, AckWriteFacts
<1>6. ASSUME NEW c \in Talkers,
             TalkerFlips(c) \/ Observe(c) \/ ObserveDuplicate(c) \/ HookCandidate(c)
      PROVE  Good
  <2>1. CASE TalkerFlips(c)
    BY <2>1 DEF TalkerFlips, TypeOK, Good
  <2>2. CASE Observe(c) \/ ObserveDuplicate(c)
    BY <2>2 DEF Observe, ObserveDuplicate, TypeOK, Good
  <2>3. CASE HookCandidate(c)
    BY <1>1, <2>3 DEF HookCandidate, TypeOK
  <2> QED
    BY <1>6, <2>1, <2>2, <2>3
<1>7. ASSUME NEW p \in Committers, ResolveFails(p) \/ CommitFails(p) PROVE Good
  <2>1. UNCHANGED <<turn, seen, batch, late>> /\ tries' \in [Tasks -> 0..MaxAttempts]
    BY <1>7, NotCommittedFacts DEF ResolveFails, CommitFails
  <2>2. UNCHANGED <<inbox, parked>>
    BY <1>7 DEF ResolveFails, CommitFails
  <2>3. faults' \in 0..MaxFaults
    BY <1>7, FaultFacts DEF ResolveFails, CommitFails, TypeOK
  <2>4. lost' \subseteq Lines
    BY <1>7, TornFacts, LosesFacts DEF ResolveFails, CommitFails, TypeOK
  <2> QED
    BY <2>1, <2>2, <2>3, <2>4 DEF TypeOK, Good
<1>8. ASSUME NEW p \in Committers, Rename(p) PROVE Good
  <2> DEFINE S == {l \in inbox : l.child = job[p].child => l.turn > job[p].turn}
  <2>1. Loses(S) /\ inbox' = kept[p] /\ UNCHANGED <<memory, parked, faults>>
    BY <1>8 DEF Rename
  <2>2. S \subseteq Lines
    BY DEF TypeOK
  <2> HIDE DEF S
  <2>3. lost' \subseteq Lines
    BY <2>1, <2>2, LosesFacts DEF TypeOK
  <2> QED
    BY <2>1, <2>3 DEF TypeOK, memory, Good
<1>9. ASSUME NEW p \in Committers, Append(p) PROVE Good
  BY <1>9, AppendFacts DEF TypeOK, memory, Good
<1>10. ASSUME NEW p \in Committers, Park(p) PROVE Good
  <2>1. job[p] \in Lines /\ UNCHANGED <<memory, inbox>>
    BY <1>10, JobFacts DEF Park, Holding
  <2>2. parked' \subseteq Lines
    BY <1>10, <2>1 DEF Park, TypeOK
  <2>3. lost' \subseteq Lines
    BY <1>10, <2>1, LosesFacts DEF Park, TypeOK
  <2>4. faults' \in 0..MaxFaults
    BY <1>10, FaultFacts DEF Park, TypeOK
  <2> QED
    BY <2>1, <2>2, <2>3, <2>4 DEF TypeOK, memory, Good
<1>11. ASSUME NEW t \in Tasks, WrapperDies(t) PROVE Good
  <2>1. lost' \subseteq Lines
    BY <1>11, TornFacts, LosesFacts DEF WrapperDies, TypeOK
  <2> QED
    BY <1>1, <1>11, <2>1 DEF WrapperDies
<1>12. CASE DaemonDies
  <2>1. tries' \in [Tasks -> 0..MaxAttempts] /\ batch' = {}
    BY <1>12, InboxAssumption DEF DaemonDies
  <2>2. lost' \subseteq Lines
    BY <1>12, TornFacts, LosesFacts DEF DaemonDies, TypeOK
  <2>3. faults' \in 0..MaxFaults
    BY <1>12, FaultFacts DEF DaemonDies
  <2>4. UNCHANGED <<turn, seen, late, inbox, parked>>
    BY <1>12 DEF DaemonDies
  <2> QED
    BY <2>1, <2>2, <2>3, <2>4 DEF TypeOK, Good
<1>13. CASE DaemonStarts
  BY <1>13 DEF DaemonStarts, TypeOK, Good
<1>14. CASE Replay
  <2>1. batch' \subseteq Lines
    <3> SUFFICES ASSUME NEW l \in batch' PROVE l \in Lines
      OBVIOUS
    <3>1. PICK t \in Tasks : rec[t].status = "finished" /\ l = Line(t, rec[t].run)
      BY <1>14 DEF Replay, Unacked
    <3> QED
      BY <3>1, RecordLine
  <2> QED
    BY <1>14, <2>1 DEF Replay, TypeOK, Good
<1>15. ASSUME NEW l \in Lines, Deliver(l) PROVE Good
  BY <1>15 DEF Deliver, TypeOK, Good
<1>16. ASSUME NEW p \in Committers, Commit(p) PROVE Good
  BY Zenon, <1>4, <1>5, <1>7, <1>8, <1>9, <1>10, <1>16 DEF Commit
<1> QED
  BY Zenon, <1>2, <1>3, <1>6, <1>11, <1>12, <1>13, <1>14, <1>15, <1>16 DEF CommitSide

\* What is handed out.
LEMMA ReturnFacts ==
  ASSUME TypeOK, NEW m, NEW S \in SUBSET Lines, Return(m, S)
  PROVE  /\ drain' = "no" /\ mode' = "beat" /\ staged' = {} /\ fresh' = {}
         /\ agent' \in {"user", "more"} /\ blocks' \in 0..MaxBlocks
         /\ acted' \in [Fps -> Nat]
         /\ \A f \in Fps : acted'[f] = IF \E l \in S : Fp(l) = f THEN acted[f] + 1 ELSE acted[f]
<1>1. blocks' \in 0..MaxBlocks /\ agent' \in {"user", "more"}
  BY InboxAssumption DEF Return, Rest, TypeOK
<1>2. acted' = [f \in Fps |-> IF f \in {Fp(l) : l \in S} THEN acted[f] + 1 ELSE acted[f]]
  BY DEF Return
<1>3. \A f \in Fps : f \in {Fp(l) : l \in S} <=> \E l \in S : Fp(l) = f
  OBVIOUS
<1> QED
  BY <1>1, <1>2, <1>3 DEF Return, Leave, TypeOK

LEMMA LoadFacts ==
  ASSUME TypeOK, NEW m \in {"beat", "hook"}, Load(m)
  PROVE  /\ agent' \in {"user", "more"} /\ blocks' \in 0..MaxBlocks /\ acted' = acted
         /\ wal' = wal
         /\ \/ /\ wal = {} /\ drain' = "no" /\ mode' = "beat" /\ staged' = {} /\ fresh' = {}
            \/ drain' = "write" /\ mode' = m /\ staged' = wal \cup inbox /\ fresh' = fresh
<1>1. CASE wal \cup inbox = {}
  <2>1. Return(m, {}) /\ wal' = {} /\ wal = {}
    BY <1>1 DEF Load
  <2>2. acted' = acted
    BY <2>1, ReturnFacts DEF TypeOK
  <2> QED
    BY <2>1, <2>2, ReturnFacts
<1>2. CASE wal \cup inbox # {}
  BY <1>2 DEF Load, TypeOK
<1> QED
  BY <1>1, <1>2

LEMMA DrainTypes ==
  ASSUME TypeOK, InboxInv, DrainSide
  PROVE  /\ inbox' \subseteq Lines /\ wal' \subseteq Lines
         /\ ledger' \subseteq Fps /\ home' \in {"yes", "removed", "swept"}
         /\ agent' \in {"user", "more"} /\ blocks' \in 0..MaxBlocks
         /\ drain' \in {"no", "stage", "write", "remove", "ledger", "drop"}
         /\ mode' \in {"beat", "hook"} /\ staged' \subseteq Lines /\ fresh' \subseteq staged'
         /\ faults' \in 0..MaxFaults /\ acted' \in [Fps -> Nat]
         /\ undone' \subseteq Fps /\ lost' \subseteq Lines
<1> DEFINE Fine == /\ inbox' \subseteq Lines /\ wal' \subseteq Lines
                   /\ ledger' \subseteq Fps /\ home' \in {"yes", "removed", "swept"}
                   /\ agent' \in {"user", "more"} /\ blocks' \in 0..MaxBlocks
                   /\ drain' \in {"no", "stage", "write", "remove", "ledger", "drop"}
                   /\ mode' \in {"beat", "hook"} /\ staged' \subseteq Lines /\ fresh' \subseteq staged'
                   /\ faults' \in 0..MaxFaults /\ acted' \in [Fps -> Nat]
                   /\ undone' \subseteq Fps /\ lost' \subseteq Lines
<1>0. drain # "drop" => fresh = {}
  BY DEF InboxInv, Draining
<1>1. ASSUME NEW m \in {"beat", "hook"}, Load(m), drain # "drop",
             UNCHANGED <<inbox, ledger, home, undone, faults, lost>>
      PROVE  Fine
  BY <1>0, <1>1, LoadFacts DEF TypeOK
<1>2. CASE Heartbeat
  BY <1>1, <1>2 DEF Heartbeat
<1>3. CASE Stop
  <2>1. blocks' \in 0..MaxBlocks
    BY <1>3, InboxAssumption DEF Stop, Budget, TypeOK
  <2> QED
    BY <1>0, <1>3, <2>1 DEF Stop, Rest, TypeOK
<1>4. CASE Stage
  BY <1>1, <1>4 DEF Stage
<1>5. CASE Write
  BY <1>5 DEF Write, TypeOK
<1>6. CASE RemoveInbox
  <2>1. inbox \ staged \subseteq Lines
    BY DEF TypeOK
  <2>2. lost' \subseteq Lines
    BY <1>6, <2>1, LosesFacts DEF RemoveInbox, TypeOK
  <2> QED
    BY <1>6, <2>2 DEF RemoveInbox, TypeOK
<1>7. CASE Consume
  <2>1. fresh' \subseteq staged /\ staged \subseteq Lines /\ ledger' = ledger \cup {Fp(l) : l \in fresh'}
    BY <1>7 DEF Consume, CollapseLastWins, TypeOK
  <2>2. ledger' \subseteq Fps
    BY <2>1, FpFacts DEF TypeOK
  <2> QED
    BY <1>7, <2>1, <2>2 DEF Consume, TypeOK
<1>8. CASE Drop
  <2> DEFINE S == {l \in staged : \E w \in staged \cap late : w.child = l.child /\ w.turn < l.turn}
  <2>1. fresh \in SUBSET Lines /\ Return(mode, fresh) /\ S \subseteq Lines /\ Loses(S)
    BY <1>8 DEF Drop, TypeOK
  <2>2. lost' \subseteq Lines
    <3> HIDE DEF S
    <3> QED
      BY <2>1, LosesFacts DEF TypeOK
  <2>3. UNCHANGED <<inbox, ledger, home, undone, faults>> /\ wal' = {}
    BY <1>8 DEF Drop
  <2> QED
    BY <2>1, <2>2, <2>3, ReturnFacts DEF TypeOK
<1>9. CASE DrainDies
  <2>1. {Fp(l) : l \in fresh} \subseteq Fps
    BY FpFacts DEF TypeOK
  <2> QED
    BY <1>9, <2>1, FaultFacts DEF DrainDies, Leave, Rest, TypeOK
<1>10. CASE RemoveParent \/ SweepParent
  BY <1>10, InboxAssumption DEF RemoveParent, SweepParent, Rest, TypeOK
<1> QED
  BY <1>2, <1>3, <1>4, <1>5, <1>6, <1>7, <1>8, <1>9, <1>10 DEF DrainSide, Drain

\* The records of the runs stay what they are.
LEMMA RecordTypes ==
  ASSUME TypeOK, InboxInv, [Next]_vars
  PROVE  runs' \in [Tasks -> Nat] /\ rec' \in [Tasks -> Records] /\ last' \in [Children -> Nat]
<1>1. ASSUME NEW t \in Tasks, Claim(t)
      PROVE  runs' \in [Tasks -> Nat] /\ rec' \in [Tasks -> Records] /\ last' \in [Children -> Nat]
  <2>1. runs' \in [Tasks -> Nat]
    BY <1>1, ClaimFacts DEF TypeOK
  <2> QED
    BY <1>1, <2>1, ClaimFacts DEF RecordIs, OnlyRecord, TypeOK
<1>2. ASSUME NEW t \in Tasks, Finish(t)
      PROVE  runs' \in [Tasks -> Nat] /\ rec' \in [Tasks -> Records] /\ last' \in [Children -> Nat]
  BY <1>2, FinishFacts DEF RecordIs, OnlyRecord, LastIs, TypeOK
<1>3. ASSUME NEW p \in Committers, Append(p)
      PROVE  runs' \in [Tasks -> Nat] /\ rec' \in [Tasks -> Records] /\ last' \in [Children -> Nat]
  BY <1>3, AppendFacts DEF LastIs, TypeOK
<1>4. ASSUME NEW p \in Committers, AckWrite(p)
      PROVE  runs' \in [Tasks -> Nat] /\ rec' \in [Tasks -> Records] /\ last' \in [Children -> Nat]
  BY <1>4, AckWriteFacts DEF OnlyRecord, TypeOK
<1> QED
  BY <1>1, <1>2, <1>3, <1>4, RecordsStay, Sides DEF TypeOK

LEMMA TypeNext == ASSUME TypeOK, InboxInv, [Next]_vars PROVE TypeOK'
<1> USE Names
<1>1. /\ pc' \in [Committers -> PCs] /\ job' \in [Committers -> Lines \cup {None}]
      /\ kept' \in [Committers -> SUBSET Lines] /\ copy' \in [Committers -> Records]
  BY OneMoves, MoverAlone DEF Alone, TypeOK, commits, PCs
<1>2. CASE CommitSide
  <2>1. Good
    BY <1>2, CommitTypes
  <2>2. UNCHANGED <<wal, ledger, home, drains>>
    BY <1>2, Sides
  <2> QED
    BY <1>1, <2>1, <2>2, RecordTypes DEF TypeOK, PCs, drains, Good
<1>3. CASE DrainSide
  <2>1. UNCHANGED <<turn, seen, tries, batch, late, parked>>
    BY <1>3, Sides DEF memory
  <2> QED
    BY <1>1, <1>3, <2>1, RecordTypes, DrainTypes DEF TypeOK, PCs
<1>4. CASE UNCHANGED vars
  BY <1>4 DEF TypeOK, vars, records, memory, commits, drains
<1> QED
  BY <1>2, <1>3, <1>4, Sides

-----------------------------------------------------------------------------
\* No line is of a later turn than the last.

\* Where the lines of the files and of the rewrites come from.
LEMMA LinesFrom ==
  ASSUME TypeOK, InboxInv, [Next]_vars
  PROVE  /\ \/ inbox' \cup wal' \cup staged' \subseteq inbox \cup wal \cup staged
            \/ \E p \in Committers :
                 \/ Rename(p) /\ inbox' \cup wal' \cup staged' \subseteq kept[p] \cup wal \cup staged
                 \/ /\ Append(p)
                    /\ inbox' \cup wal' \cup staged' \subseteq inbox \cup wal \cup staged \cup {job[p]}
         /\ \A p \in Committers : kept'[p] \subseteq kept[p] \cup inbox
<1> USE Names
<1>1. CASE DrainSide
  <2>1. ASSUME NEW m \in {"beat", "hook"}, Load(m), UNCHANGED inbox
        PROVE  inbox' \cup wal' \cup staged' \subseteq inbox \cup wal \cup staged
    BY <2>1, LoadFacts
  <2>2. inbox' \cup wal' \cup staged' \subseteq inbox \cup wal \cup staged
    <3>1. CASE Heartbeat \/ Stage
      BY <2>1, <3>1 DEF Heartbeat, Stage
    <3>2. CASE Stop \/ Write \/ RemoveInbox \/ Consume \/ RemoveParent \/ SweepParent
      BY <3>2 DEF Stop, Write, RemoveInbox, Consume, RemoveParent, SweepParent
    <3>3. CASE Drop \/ DrainDies
      BY <3>3 DEF Drop, DrainDies, Return, Leave
    <3> QED
      BY <1>1, <3>1, <3>2, <3>3 DEF DrainSide, Drain
  <2>3. kept' = kept
    BY <1>1, Sides DEF commits
  <2> QED
    BY <2>2, <2>3
<1>2. CASE UNCHANGED vars
  BY <1>2 DEF vars, drains, commits
<1>3. CASE CommitSide
  <2>1. UNCHANGED <<wal, staged>>
    BY <1>3, Sides DEF drains
  <2>2. \/ inbox' = inbox
        \/ \E p \in Committers : \/ Rename(p) /\ inbox' = kept[p]
                                 \/ Append(p) /\ inbox' = inbox \cup {job[p]}
    BY <1>3 DEF CommitSide, Claim, Finish, WrapperDies, Replay, Deliver, TalkerFlips, Observe,
       ObserveDuplicate, HookCandidate, DaemonDies, DaemonStarts, Commit, ResolveFails, Read,
       Rename, Append, CommitFails, Park, AckRead, AckWrite, AckFails
  <2>3. ASSUME NEW q \in Committers PROVE kept'[q] \subseteq kept[q] \cup inbox
    <3>1. CASE UNCHANGED kept
      BY <3>1
    <3>2. ASSUME NEW p \in Committers, \E l : Left(p, l)
          PROVE  kept'[q] \subseteq kept[q] \cup inbox
      BY <3>2 DEF Left, Alone
    <3>3. ASSUME NEW p \in Committers, \E l : Moved(p, l) PROVE kept'[q] \subseteq kept[q] \cup inbox
      BY <3>3 DEF Moved, Alone
    <3>4. ASSUME NEW p \in Committers, Commit(p) PROVE kept'[q] \subseteq kept[q] \cup inbox
      <4>1. CASE Read(p)
        BY <4>1, ReadMoves DEF Alone
      <4>2. CASE Rename(p)
        BY <4>2 DEF Rename, TypeOK
      <4>3. CASE ResolveFails(p) \/ CommitFails(p)
        BY <3>2, <3>3, <4>3, NotCommittedFacts DEF ResolveFails, CommitFails
      <4>4. CASE Append(p)
        BY <3>2, <3>3, <4>4, AppendFacts
      <4>5. CASE Park(p)
        BY <4>5 DEF Park
      <4>6. CASE AckRead(p)
        BY <3>2, <3>3, <4>6, AckReadMoves
      <4>7. CASE AckWrite(p) \/ AckFails(p)
        BY <3>2, <4>7, QuitFacts DEF AckWrite, AckFails
      <4> QED
        BY <3>4, <4>1, <4>2, <4>3, <4>4, <4>5, <4>6, <4>7 DEF Commit
    <3>5. CASE DaemonDies \/ \E t \in Tasks : WrapperDies(t)
      BY <3>2, <3>5, OtherMoves
    <3>6. CASE \/ DaemonStarts \/ Replay \/ \E l \in Lines : Deliver(l)
               \/ \E t \in Tasks : Claim(t) \/ Finish(t)
               \/ \E c \in Talkers : \/ TalkerFlips(c) \/ Observe(c) \/ ObserveDuplicate(c)
                                     \/ HookCandidate(c)
      BY <3>1, <3>6 DEF DaemonStarts, Claim, Finish, Replay, Deliver, TalkerFlips, Observe,
         ObserveDuplicate, HookCandidate, commits
    <3> QED
      BY <1>3, <3>4, <3>5, <3>6 DEF CommitSide
  <2> QED
    BY <2>1, <2>2, <2>3
<1> QED
  BY <1>1, <1>2, <1>3, Sides

LEMMA PastNext == ASSUME TypeOK, InboxInv, [Next]_vars PROVE PastInv'
<1> USE Names
<1> DEFINE Files == inbox \cup wal \cup staged
<1>1. /\ Files \subseteq Lines /\ Past(Files)
      /\ \A p \in Committers : kept[p] \subseteq Lines /\ Past(kept[p])
  BY DEF TypeOK, InboxInv, PastInv
<1>2. \A l \in Lines : l.turn <= last[l.child] => l.turn <= last'[l.child]
  BY LastGrows, LineFacts
<1>3. \A l \in Files : l.turn <= last'[l.child]
  BY <1>1, <1>2 DEF Past
<1>4. \A p \in Committers : \A l \in kept[p] : l.turn <= last'[l.child]
  BY <1>1, <1>2 DEF Past
<1>5. \A p \in Committers : Append(p) => job[p].turn <= last'[job[p].child]
  <2> SUFFICES ASSUME NEW p \in Committers, Append(p) PROVE job[p].turn <= last'[job[p].child]
    OBVIOUS
  <2>1. CASE job[p].child \in Tasks
    BY <2>1, AppendFacts DEF Job
  <2>2. CASE job[p].child \notin Tasks
    BY <2>2, AppendFacts DEF LastIs
  <2> QED
    BY <2>1, <2>2
<1>6. \A l \in inbox' \cup wal' \cup staged' : l.turn <= last'[l.child]
  BY <1>3, <1>4, <1>5, LinesFrom
<1>7. \A p \in Committers : \A l \in kept'[p] : l.turn <= last'[l.child]
  BY <1>3, <1>4, LinesFrom
<1> QED
  BY <1>6, <1>7 DEF PastInv, Past

-----------------------------------------------------------------------------
\* The drain and its ledger.

\* What a committer does is nothing to the drain.
LEMMA DrainSame ==
  ASSUME CommitSide \/ UNCHANGED vars
  PROVE  UNCHANGED <<wal, ledger, home, agent, blocks, drain, mode, staged, fresh, acted, undone>>
BY Sides DEF vars, drains

\* What a replay has begun late stays late.
LEMMA LateGrows == ASSUME TypeOK, InboxInv, [Next]_vars PROVE late \subseteq late'
<1>1. ASSUME NEW p \in Committers, Commit(p) PROVE late' = late
  <2>1. CASE ResolveFails(p) \/ CommitFails(p)
    BY <2>1, NotCommittedFacts DEF ResolveFails, CommitFails
  <2>2. CASE ~(ResolveFails(p) \/ CommitFails(p))
    BY <1>1, <2>2 DEF Commit, Read, Rename, Append, Park, AckRead, AckWrite, AckFails, memory
  <2> QED
    BY <2>1, <2>2
<1>2. CASE DrainSide \/ UNCHANGED vars
  BY <1>2, Sides DEF vars, memory
<1>3. CASE CommitSide
  BY <1>1, <1>3, DeliverMoves DEF CommitSide, Claim, Finish, WrapperDies, Replay, TalkerFlips,
     Observe, ObserveDuplicate, HookCandidate, DaemonDies, DaemonStarts, memory
<1> QED
  BY <1>2, <1>3, Sides

\* The newest line of a child is what is left of its lines, unless a late one beats it.
LEMMA CollapseFacts ==
  ASSUME NEW S \in SUBSET Lines, NEW W \in CollapseLastWins(S), NEW l \in S, Newest(l, S)
  PROVE  l \in W \/ Beaten(l, S)
<1>1. PICK w \in W : w.child = l.child
  BY DEF CollapseLastWins
<1>2. w \in S
  BY DEF CollapseLastWins
<1>3. CASE w # l
  <2>1. l.turn < w.turn \/ w \in late
    BY <1>1, <1>3 DEF CollapseLastWins
  <2>2. w.turn <= l.turn /\ w.turn \in Nat /\ l.turn \in Nat
    BY <1>1, <1>2, LineFacts DEF Newest
  <2>3. w.turn # l.turn
    BY <1>1, <1>2, <1>3, LineFacts
  <2> QED
    BY <1>1, <1>2, <2>1, <2>2, <2>3 DEF Beaten
<1> QED
  BY <1>1, <1>3

LEMMA DrainingNext == ASSUME TypeOK, InboxInv, Marked, [Next]_vars PROVE Draining'
<1>0. Draining
  BY DEF InboxInv
<1>1. CASE CommitSide \/ UNCHANGED vars
  <2>1. late \subseteq late'
    BY LateGrows
  <2>2. UNCHANGED <<wal, ledger, home, drain, staged, fresh, acted>>
    BY <1>1, DrainSame
  <2>3. drain' = "drop" =>
          \A l \in staged : Newest(l, staged) => Fp(l) \in ledger \/ \E w \in staged \cap late' : w.child = l.child /\ w.turn < l.turn
    BY <1>0, <2>1, <2>2 DEF Draining, Beaten
  <2>4. \A l : Fp(l)' = Fp(l)
    BY DEF Fp
  <2> QED
    BY <1>0, <2>2, <2>3, <2>4 DEF Draining, Beaten, Newest
<1>2. ASSUME NEW m \in {"beat", "hook"}, Load(m), home = "yes", drain # "drop", home' = home
      PROVE  Draining'
  <2>1. fresh = {}
    BY <1>0, <1>2 DEF Draining
  <2> QED
    BY <1>2, <2>1, LoadFacts DEF Draining
<1>3. CASE Heartbeat \/ Stage
  BY <1>0, <1>2, <1>3 DEF Heartbeat, Stage, Draining
<1>4. CASE Stop
  BY <1>0, <1>4 DEF Stop, Draining
<1>5. CASE Write \/ RemoveInbox
  BY <1>0, <1>5 DEF Write, RemoveInbox, Draining
<1>6. CASE Consume
  <2>1. PICK W \in CollapseLastWins(staged) : fresh' = {l \in W : Fp(l) \notin ledger}
    BY <1>6 DEF Consume
  <2>2. /\ drain = "ledger" /\ drain' = "drop" /\ UNCHANGED <<wal, home, staged, acted, late>>
        /\ ledger' = ledger \cup {Fp(l) : l \in fresh'}
    BY <1>6 DEF Consume, memory
  <2>3. \A l \in W : Fp(l) \in ledger'
    BY <2>1, <2>2
  <2>4. \A l \in fresh' : Fp(l) \in ledger'
    BY <2>2
  <2>5. home = "yes"
    BY <1>0, <2>2 DEF Draining
  <2>6. ASSUME NEW l \in fresh' PROVE acted[Fp(l)] = 0
    <3>1. Fp(l) \in Fps /\ Fp(l) \notin ledger
      BY <2>1, FpFacts DEF CollapseLastWins, TypeOK
    <3> QED
      BY <2>5, <3>1 DEF Marked, TypeOK
  <2>7. \A l \in staged : Newest(l, staged) => Fp(l) \in ledger' \/ Beaten(l, staged)
    BY <2>1, <2>3, CollapseFacts DEF TypeOK
  <2>8. \A l : Fp(l)' = Fp(l)
    BY DEF Fp
  <2>9. \A l \in staged' : Newest(l, staged') => Fp(l) \in ledger' \/ Beaten(l, staged)'
    BY <2>2, <2>7 DEF Beaten
  <2> QED
    BY <1>0, <2>2, <2>4, <2>5, <2>6, <2>8, <2>9 DEF Draining, Newest
<1>7. CASE Drop \/ DrainDies
  BY <1>7 DEF Drop, DrainDies, Return, Leave, Draining
<1>8. CASE RemoveParent
  BY <1>0, <1>8 DEF RemoveParent, Draining
<1>9. CASE SweepParent
  <2>1. drain = "no"
    BY <1>0, <1>9 DEF SweepParent, Draining, TypeOK
  <2> QED
    BY <1>0, <1>9, <2>1 DEF SweepParent, Draining
<1> QED
  BY <1>1, <1>3, <1>4, <1>5, <1>6, <1>7, <1>8, <1>9, Sides DEF DrainSide, Drain

\* What Drop hands out was handed out never before.
LEMMA DropFacts ==
  ASSUME TypeOK, InboxInv, Drop
  PROVE  /\ home = "yes" /\ UNCHANGED <<home, ledger, undone>> /\ drain' = "no"
         /\ \A f \in Fps : /\ acted[f] \in Nat
                           /\ \/ acted'[f] = acted[f]
                              \/ f \in ledger /\ acted[f] = 0 /\ acted'[f] = 1
                           /\ (\E l \in fresh : Fp(l) = f) => acted'[f] = 1
<1>1. /\ drain = "drop" /\ Return(mode, fresh) /\ UNCHANGED <<home, ledger, undone>>
      /\ fresh \in SUBSET Lines
  BY DEF Drop, TypeOK
<1>2. home = "yes" /\ \A l \in fresh : Fp(l) \in ledger /\ acted[Fp(l)] = 0
  BY <1>1 DEF InboxInv, Draining
<1>3. \A f \in Fps : acted'[f] = IF \E l \in fresh : Fp(l) = f THEN acted[f] + 1 ELSE acted[f]
  BY <1>1, ReturnFacts
<1>4. \A f \in Fps : acted[f] \in Nat
  BY DEF TypeOK
<1>5. drain' = "no"
  BY <1>1, ReturnFacts
<1> QED
  BY <1>1, <1>2, <1>3, <1>4, <1>5

LEMMA MarkedNext == ASSUME TypeOK, InboxInv, Marked, ActedOnce, [Next]_vars PROVE Marked' /\ ActedOnce'
<1>1. CASE UNCHANGED <<acted, home>> /\ (ledger \subseteq ledger' \/ home # "yes")
  BY <1>1 DEF Marked, ActedOnce
<1>2. CASE CommitSide \/ UNCHANGED vars
  BY <1>1, <1>2, DrainSame
<1>3. CASE Heartbeat \/ Stage
  <2>1. acted' = acted
    BY <1>3, LoadFacts DEF Heartbeat, Stage
  <2> QED
    BY <1>1, <1>3, <2>1 DEF Heartbeat, Stage
<1>4. CASE Stop \/ Write \/ RemoveInbox \/ Consume \/ DrainDies
  BY <1>1, <1>4 DEF Stop, Write, RemoveInbox, Consume, DrainDies
<1>5. CASE Drop
  BY <1>5, DropFacts DEF Marked, ActedOnce
<1>6. CASE RemoveParent \/ SweepParent
  BY <1>6 DEF RemoveParent, SweepParent, Marked, ActedOnce
<1> QED
  BY <1>2, <1>3, <1>4, <1>5, <1>6, Sides DEF DrainSide, Drain

LEMMA HonestNext ==
  ASSUME TypeOK, InboxInv, LedgerIsHonest, [Next]_vars PROVE LedgerIsHonest'
<1>1. CASE CommitSide \/ UNCHANGED vars
  BY <1>1, DrainSame DEF LedgerIsHonest, Fp
<1>2. ASSUME UNCHANGED <<ledger, acted, undone>>, drain # "drop" PROVE LedgerIsHonest'
  BY <1>2 DEF LedgerIsHonest
<1>3. CASE Heartbeat \/ Stage
  <2>1. acted' = acted /\ drain # "drop"
    BY <1>3, LoadFacts DEF Heartbeat, Stage
  <2> QED
    BY <1>2, <1>3, <2>1 DEF Heartbeat, Stage
<1>4. CASE Stop \/ Write \/ RemoveInbox
  BY <1>2, <1>4 DEF Stop, Write, RemoveInbox
<1>5. CASE Consume
  <2>1. /\ drain = "ledger" /\ drain' = "drop" /\ UNCHANGED <<acted, undone>>
        /\ ledger' = ledger \cup {Fp(l) : l \in fresh'}
    BY <1>5 DEF Consume
  <2>2. \A l : Fp(l)' = Fp(l)
    BY DEF Fp
  <2> QED
    BY <2>1, <2>2 DEF LedgerIsHonest
<1>6. CASE Drop
  <2>1. ledger \subseteq Fps
    BY DEF TypeOK
  <2> QED
    BY <1>6, <2>1, DropFacts DEF LedgerIsHonest
<1>7. CASE DrainDies
  <2>1. /\ UNCHANGED <<ledger, acted>>
        /\ undone' = IF drain = "drop" THEN undone \cup {Fp(l) : l \in fresh} ELSE undone
    BY <1>7 DEF DrainDies
  <2> QED
    BY <2>1 DEF LedgerIsHonest
<1>8. CASE RemoveParent
  BY <1>2, <1>8 DEF RemoveParent
<1>9. CASE SweepParent
  BY <1>9 DEF SweepParent, LedgerIsHonest
<1> QED
  BY <1>1, <1>3, <1>4, <1>5, <1>6, <1>7, <1>8, <1>9, Sides DEF DrainSide, Drain

LEMMA InboxNext == ASSUME TypeOK, InboxInv, Marked, [Next]_vars PROVE InboxInv'
BY CountsNext, PlacesNext, JobsNext, PastNext, DrainingNext DEF InboxInv

-----------------------------------------------------------------------------
\* The last completion is held somewhere.

LEMMA DeliveredStays ==
  ASSUME inbox \subseteq inbox', wal \subseteq wal', ledger \subseteq ledger', parked \subseteq parked'
  PROVE  \A l : Delivered(l) => Delivered(l)'
BY DEF Delivered, Fp

\* What has to survive for a completion to be held on.
LEMMA StillHolds ==
  ASSUME NEW c \in Children, Held(c), last'[c] = last[c],
         \A l : l = Line(c, last[c]) /\ (Delivered(l) \/ l \in lost) => Delivered(l)' \/ l \in lost',
         \A p \in Committers :
           pc[p] = "append" /\ job[p].child = c /\ last[c] <= job[p].turn =>
             \/ pc'[p] = "append" /\ job'[p] = job[p]
             \/ \A l : l = Line(c, last[c]) => Delivered(l)' \/ l \in lost'
  PROVE  Held(c)'
<1>1. CASE Delivered(Line(c, last[c])) \/ Line(c, last[c]) \in lost
  <2>1. \A l : l = Line(c, last[c]) => Delivered(l)' \/ l \in lost'
    BY <1>1
  <2>2. \A l : l = Line(c, last'[c]) => Delivered(l)' \/ l \in lost'
    BY <2>1
  <2> QED
    BY <2>2 DEF Held, Delivered, Fp
<1>2. CASE Appending(c)
  <2>1. PICK p \in Committers : pc[p] = "append" /\ job[p].child = c /\ last[c] <= job[p].turn
    BY <1>2 DEF Appending
  <2>2. CASE pc'[p] = "append" /\ job'[p] = job[p]
    BY <2>1, <2>2 DEF Held, Appending
  <2>3. CASE \A l : l = Line(c, last[c]) => Delivered(l)' \/ l \in lost'
    <3>1. \A l : l = Line(c, last'[c]) => Delivered(l)' \/ l \in lost'
      BY <2>3
    <3> QED
      BY <3>1 DEF Held, Delivered, Fp
  <2> QED
    BY <2>1, <2>2, <2>3
<1> QED
  BY <1>1, <1>2 DEF Held

\* The line of a completion that is still there, or is named as lost, is enough.
LEMMA NamedHolds ==
  ASSUME NEW c, NEW l, l = Line(c, last'[c]), Delivered(l)' \/ l \in lost'
  PROVE  Held(c)'
BY DEF Held, Delivered, Fp

\* The committer that appends makes the completion of its child a line.
LEMMA AppendHolds ==
  ASSUME TypeOK, InboxInv, NEW p \in Committers, Append(p), NEW c, c = job[p].child,
         c \in Tasks => last[c] <= job[p].turn
  PROVE  Held(c)'
<1> USE Names
<1>1. /\ Job(p) /\ c \in Children /\ job[p] = Line(c, job[p].turn) /\ job[p].turn \in Nat
      /\ inbox' = inbox \cup {job[p]}
  BY AppendFacts
<1>2. last'[c] = job[p].turn
  <2>1. CASE c \in Tasks
    <3>1. last' = last /\ last[c] \in Nat /\ job[p].turn <= last[c]
      BY <1>1, <2>1, AppendFacts DEF Job, TypeOK
    <3> QED
      BY <1>1, <2>1, <3>1
  <2>2. CASE c \notin Tasks
    BY <2>2, AppendFacts DEF LastIs
  <2> QED
    BY <2>1, <2>2
<1>3. job[p] = Line(c, last'[c]) /\ job[p] \in inbox'
  BY <1>1, <1>2
<1>4. \A l : l \in inbox' => Delivered(l)'
  BY DEF Delivered
<1>5. \A l : l = job[p] => Delivered(l)' \/ l \in lost'
  BY <1>3, <1>4
<1> QED
  BY <1>3, <1>5, NamedHolds

\* A committer that stops before its append names the line it took.
LEMMA TornHolds ==
  ASSUME TypeOK, NEW c \in Children, last[c] > 0, last'[c] = last[c], Held(c),
         NEW p \in Committers, Alone(p), Loses(TornBy(p)),
         UNCHANGED <<inbox, wal, ledger, parked>>
  PROVE  Held(c)'
<1>1. lost \subseteq lost' /\ \A l \in TornBy(p) : Delivered(l)' \/ l \in lost'
  BY LosesFacts
<1>2. \A l : l = Line(c, last[c]) /\ (Delivered(l) \/ l \in lost) => Delivered(l)' \/ l \in lost'
  BY <1>1, DeliveredStays
<1>3. ASSUME NEW q \in Committers, pc[q] = "append", job[q].child = c, last[c] <= job[q].turn
      PROVE  \/ pc'[q] = "append" /\ job'[q] = job[q]
             \/ \A l : l = Line(c, last[c]) => Delivered(l)' \/ l \in lost'
  <2>1. CASE q = p
    <3>1. Line(c, last[c]) \in TornBy(p)
      BY <1>3, <2>1 DEF TornBy
    <3> QED
      BY <1>1, <3>1
  <2>2. CASE q # p
    BY <1>3, <2>2 DEF Alone
  <2> QED
    BY <2>1, <2>2
<1> QED
  BY <1>2, <1>3, StillHolds

\* A step that takes no line out of the files.
LEMMA QuietHolds ==
  ASSUME NEW c \in Children, Held(c), last'[c] = last[c], NEW p \in Committers, Alone(p),
         pc[p] # "append", inbox \subseteq inbox', UNCHANGED <<wal, ledger>>,
         parked \subseteq parked', lost \subseteq lost'
  PROVE  Held(c)'
<1>1. \A l : l = Line(c, last[c]) /\ (Delivered(l) \/ l \in lost) => Delivered(l)' \/ l \in lost'
  BY DeliveredStays
<1>2. \A q \in Committers :
        pc[q] = "append" /\ job[q].child = c /\ last[c] <= job[q].turn =>
          \/ pc'[q] = "append" /\ job'[q] = job[q]
          \/ \A l : l = Line(c, last[c]) => Delivered(l)' \/ l \in lost'
  BY DEF Alone
<1> QED
  BY <1>1, <1>2, StillHolds

LEMMA RenameHolds ==
  ASSUME TypeOK, InboxInv, NEW p \in Committers, Rename(p), NEW c \in Children, Held(c)
  PROVE  Held(c)'
<1> USE Names
<1> DEFINE d == job[p].child
           S == {l \in inbox : l.child = d => l.turn > job[p].turn}
<1>1. /\ pc[p] = "rename" /\ inbox' = kept[p] /\ Goto(p, "append") /\ Loses(S)
      /\ UNCHANGED <<records, job, copy, wal, ledger, parked>>
  BY DEF Rename
<1>2. pc'[p] = "append" /\ \A q \in Committers \ {p} : pc'[q] = pc[q]
  BY <1>1 DEF Goto, TypeOK
<1>3. last' = last /\ last[c] \in Nat /\ job[p].turn \in Nat /\ job' = job
  BY <1>1, JobFacts DEF records, TypeOK, Holding
<1>4. lost \subseteq lost' /\ \A l \in S : Delivered(l)' \/ l \in lost'
  <2> HIDE DEF S
  <2> QED
    BY <1>1, LosesFacts
<1>5. CASE d = c /\ last[c] <= job[p].turn
  <2>1. Appending(c)'
    BY <1>2, <1>3, <1>5 DEF Appending
  <2> QED
    BY <2>1 DEF Held
<1>6. CASE ~(d = c /\ last[c] <= job[p].turn)
  <2>1. ASSUME NEW l, l = Line(c, last[c]), Delivered(l) \/ l \in lost
        PROVE  Delivered(l)' \/ l \in lost'
    <3>1. CASE l \in inbox
      <4>1. l.child = c /\ l.turn = last[c]
        BY <2>1, LineFacts
      <4>2. l \in S
        BY <1>3, <1>6, <3>1, <4>1
      <4> QED
        BY <1>4, <4>2
    <3>2. CASE l \notin inbox
      BY <1>1, <1>4, <2>1, <3>2 DEF Delivered, Fp
    <3> QED
      BY <3>1, <3>2
  <2>2. \A q \in Committers : pc[q] = "append" => pc'[q] = "append" /\ job'[q] = job[q]
    BY <1>2, <1>3
  <2> HIDE DEF S, d
  <2> QED
    BY <1>3, <2>1, <2>2, StillHolds
<1> QED
  BY <1>5, <1>6

LEMMA CommitHolds ==
  ASSUME TypeOK, InboxInv, NEW p \in Committers, Commit(p), NEW c \in Children, last[c] > 0,
         last'[c] = last[c], Held(c)
  PROVE  Held(c)'
<1> USE Names
<1>0. UNCHANGED <<wal, ledger>>
  BY Sides DEF CommitSide
<1>1. ASSUME Alone(p), pc[p] # "append", inbox \subseteq inbox', parked \subseteq parked',
             lost \subseteq lost'
      PROVE  Held(c)'
  BY <1>0, <1>1, QuietHolds
<1>2. ASSUME NotCommitted(p) PROVE Alone(p)
  BY <1>2, NotCommittedFacts DEF Left, Moved
<1>3. CASE ResolveFails(p)
  BY <1>1, <1>2, <1>3 DEF ResolveFails
<1>4. CASE CommitFails(p)
  BY <1>2, <1>4, TornHolds DEF CommitFails
<1>5. CASE Read(p)
  <2>1. UNCHANGED <<inbox, parked, lost>>
    BY <1>5 DEF Read
  <2> QED
    BY <1>1, <1>5, <2>1, ReadMoves
<1>6. CASE Rename(p)
  BY <1>6, RenameHolds
<1>7. CASE Append(p)
  <2> DEFINE d == job[p].child
  <2>1. /\ Alone(p) /\ inbox' = inbox \cup {job[p]} /\ lost' = lost \ {job[p]} /\ parked' = parked
        /\ job[p] \in Lines /\ job[p].turn \in Nat /\ last[c] \in Nat
    BY <1>7, AppendFacts DEF Left, Moved, TypeOK
  <2>2. CASE d = c /\ (c \in Tasks => last[c] <= job[p].turn)
    BY <1>7, <2>2, AppendHolds
  <2>3. CASE d = c /\ c \in Tasks /\ job[p].turn < last[c]
    <3>1. Line(c, last[c]) # job[p]
      BY <2>1, <2>3, LineFacts
    <3>2. \A l : l = Line(c, last[c]) /\ (Delivered(l) \/ l \in lost) => Delivered(l)' \/ l \in lost'
      BY <1>0, <2>1, <3>1, DeliveredStays
    <3>3. \A q \in Committers :
            pc[q] = "append" /\ job[q].child = c /\ last[c] <= job[q].turn =>
              \/ pc'[q] = "append" /\ job'[q] = job[q]
              \/ \A l : l = Line(c, last[c]) => Delivered(l)' \/ l \in lost'
      BY <2>1, <2>3 DEF Alone
    <3> QED
      BY <3>2, <3>3, StillHolds
  <2>4. CASE d # c
    <3>1. Line(c, last[c]) # job[p]
      BY <2>4, LineFacts
    <3>2. \A l : l = Line(c, last[c]) /\ (Delivered(l) \/ l \in lost) => Delivered(l)' \/ l \in lost'
      BY <1>0, <2>1, <3>1, DeliveredStays
    <3>3. \A q \in Committers :
            pc[q] = "append" /\ job[q].child = c /\ last[c] <= job[q].turn =>
              \/ pc'[q] = "append" /\ job'[q] = job[q]
              \/ \A l : l = Line(c, last[c]) => Delivered(l)' \/ l \in lost'
      BY <2>1, <2>4 DEF Alone
    <3> QED
      BY <3>2, <3>3, StillHolds
  <2> QED
    BY <2>1, <2>2, <2>3, <2>4
<1>8. CASE Park(p)
  <2>1. pc[p] = "park" /\ Alone(p)
    BY <1>8, GotoFacts DEF Park, PCs, Moved
  <2>2. inbox' = inbox /\ parked \subseteq parked' /\ lost \subseteq lost'
    BY <1>8, LosesFacts DEF Park
  <2> QED
    BY <1>1, <2>1, <2>2
<1>9. CASE AckRead(p)
  <2>1. UNCHANGED <<inbox, parked, lost>>
    BY <1>9 DEF AckRead
  <2> QED
    BY <1>1, <1>9, <2>1, AckReadMoves DEF Moved, Left
<1>10. CASE AckWrite(p)
  BY <1>1, <1>10, AckWriteFacts DEF Left
<1>11. CASE AckFails(p)
  BY <1>1, <1>11, QuitFacts DEF AckFails, Left
<1> QED
  BY Zenon, <1>3, <1>4, <1>5, <1>6, <1>7, <1>8, <1>9, <1>10, <1>11 DEF Commit

LEMMA OthersHold ==
  ASSUME TypeOK, InboxInv, CommitSide, \A p \in Committers : ~Commit(p), NEW c \in Children,
         last[c] > 0, last'[c] = last[c], Held(c)
  PROVE  Held(c)'
<1> USE Names
<1>0. UNCHANGED <<wal, ledger>>
  BY Sides
<1>1. ASSUME NEW p \in Committers, Alone(p), pc[p] # "append", UNCHANGED <<inbox, parked>>,
             lost \subseteq lost'
      PROVE  Held(c)'
  BY <1>0, <1>1, QuietHolds
<1>2. ASSUME NEW t \in Tasks, Claim(t) PROVE Held(c)'
  BY <1>1, <1>2, ClaimFacts DEF Moved
<1>3. ASSUME NEW t \in Tasks, Finish(t) PROVE Held(c)'
  <2>1. lost \subseteq lost' /\ UNCHANGED <<inbox, parked>> /\ Alone(t) /\ pc[t] = "run"
    BY <1>3, FinishFacts DEF Took
  <2> QED
    BY <1>1, <2>1
<1>4. ASSUME NEW t \in Tasks, WrapperDies(t) PROVE Held(c)'
  <2>1. Alone(t)
    BY <1>4, OtherMoves DEF Left
  <2> QED
    BY <1>4, <2>1, TornHolds DEF WrapperDies
<1>5. ASSUME NEW d \in Talkers, Observe(d) \/ HookCandidate(d) PROVE Held(c)'
  BY <1>1, <1>5, NotifyMoves DEF Took
<1>6. ASSUME UNCHANGED <<commits, inbox, parked, lost>> PROVE Held(c)'
  <2>1. \A l : l = Line(c, last[c]) /\ (Delivered(l) \/ l \in lost) => Delivered(l)' \/ l \in lost'
    BY <1>0, <1>6, DeliveredStays
  <2>2. \A q \in Committers : pc[q] = "append" => pc'[q] = "append" /\ job'[q] = job[q]
    BY <1>6 DEF commits
  <2> QED
    BY <2>1, <2>2, StillHolds
<1>7. ASSUME NEW d \in Talkers, TalkerFlips(d) \/ ObserveDuplicate(d) PROVE Held(c)'
  BY <1>6, <1>7 DEF TalkerFlips, ObserveDuplicate
<1>8. CASE Replay
  BY <1>6, <1>8 DEF Replay
<1>9. ASSUME NEW l \in Lines, Deliver(l) PROVE Held(c)'
  BY <1>1, <1>9, DeliverMoves DEF Took
<1>10. CASE DaemonDies
  <2>1. Alone(Daemon)
    BY <1>10, OtherMoves DEF Left
  <2> QED
    BY <1>10, <2>1, TornHolds DEF DaemonDies
<1>11. CASE DaemonStarts
  <2>1. Alone(Daemon) /\ pc[Daemon] = "down"
    BY <1>11, OtherMoves DEF Moved
  <2> QED
    BY <1>1, <1>11, <2>1 DEF DaemonStarts
<1> QED
  BY <1>2, <1>3, <1>4, <1>5, <1>7, <1>8, <1>9, <1>10, <1>11 DEF CommitSide

LEMMA DrainHolds ==
  ASSUME TypeOK, InboxInv, DrainSide, home' = "yes", NEW c \in Children, last[c] > 0, Held(c)
  PROVE  Held(c)'
<1> DEFINE l == Line(c, last[c])
<1>0. UNCHANGED <<last, pc, job, parked>> /\ last[c] \in Nat
  BY Sides DEF records, commits, TypeOK
<1>1. ASSUME Delivered(l) \/ l \in lost => \A m : m = l => Delivered(m)' \/ m \in lost' PROVE Held(c)'
  <2>1. \A m : m = Line(c, last[c]) /\ (Delivered(m) \/ m \in lost) => Delivered(m)' \/ m \in lost'
    BY <1>1
  <2> QED
    BY <1>0, <2>1, StillHolds
<1>2. ASSUME inbox \subseteq inbox', wal \subseteq wal', ledger \subseteq ledger', lost' = lost
      PROVE  Held(c)'
  <2>1. Delivered(l) \/ l \in lost => \A m : m = l => Delivered(m)' \/ m \in lost'
    BY <1>0, <1>2, DeliveredStays
  <2> QED
    BY <1>1, <2>1
<1>3. CASE Heartbeat \/ Stage
  <2>1. wal' = wal
    BY <1>3, LoadFacts DEF Heartbeat, Stage
  <2> QED
    BY <1>2, <1>3, <2>1 DEF Heartbeat, Stage
<1>4. CASE Stop \/ Consume \/ DrainDies \/ RemoveParent
  BY <1>2, <1>4 DEF Stop, Consume, DrainDies, RemoveParent
<1>5. CASE Write
  BY <1>2, <1>5 DEF Write, InboxInv, Draining
<1>6. CASE RemoveInbox
  <2>1. wal = staged /\ UNCHANGED <<wal, ledger>> /\ Loses(inbox \ staged)
    BY <1>6 DEF RemoveInbox, InboxInv, Draining
  <2>2. lost \subseteq lost' /\ \A m \in inbox \ staged : Delivered(m)' \/ m \in lost'
    BY <2>1, LosesFacts
  <2>3. \A m : Delivered(m) => Delivered(m)' \/ m \in inbox \ staged
    BY <1>0, <2>1 DEF Delivered, Fp
  <2>4. Delivered(l) \/ l \in lost => \A m : m = l => Delivered(m)' \/ m \in lost'
    BY <2>2, <2>3
  <2> QED
    BY <1>1, <2>4
<1>7. CASE Drop
  <2> DEFINE S == {m \in staged : \E w \in staged \cap late : w.child = m.child /\ w.turn < m.turn}
  <2>1. /\ drain = "drop" /\ wal = staged /\ UNCHANGED <<inbox, ledger>> /\ Loses(S)
        /\ \A m \in staged : Newest(m, staged) => Fp(m) \in ledger \/ Beaten(m, staged)
    BY <1>7 DEF Drop, InboxInv, Draining
  <2>2. lost \subseteq lost' /\ \A m \in S : Delivered(m)' \/ m \in lost'
    <3> HIDE DEF S
    <3> QED
      BY <2>1, LosesFacts
  <2>3. ASSUME l \in wal PROVE Fp(l) \in ledger \/ l \in S
    <3>1. l.child = c /\ l.turn = last[c]
      BY LineFacts
    <3>2. \A m \in staged : m.child = c => m.turn <= last[c]
      BY DEF InboxInv, PastInv, Past
    <3>3. Newest(l, staged)
      BY <3>1, <3>2 DEF Newest
    <3> QED
      BY <2>1, <2>3, <3>3 DEF Beaten
  <2>4. \A m : (m \in inbox \cup parked \/ Fp(m) \in ledger) => Delivered(m)'
    BY <1>0, <2>1 DEF Delivered, Fp
  <2>5. Delivered(l) => l \in wal \/ l \in inbox \cup parked \/ Fp(l) \in ledger
    BY DEF Delivered
  <2>6. Delivered(l) \/ l \in lost => \A m : m = l => Delivered(m)' \/ m \in lost'
    <3> HIDE DEF S, l
    <3> QED
      BY <2>2, <2>3, <2>4, <2>5
  <2> QED
    BY <1>1, <2>6
<1>8. CASE SweepParent
  BY <1>8 DEF SweepParent
<1> QED
  BY <1>3, <1>4, <1>5, <1>6, <1>7, <1>8 DEF DrainSide, Drain

LEMMA HoldsOn ==
  ASSUME TypeOK, InboxInv, [Next]_vars, home' = "yes", NEW c \in Children, last[c] > 0,
         last'[c] = last[c], Held(c)
  PROVE  Held(c)'
<1>1. CASE UNCHANGED vars
  BY <1>1 DEF Held, Appending, Delivered, Fp, vars, records, commits
<1>2. CASE CommitSide
  BY <1>2, CommitHolds, OthersHold
<1>3. CASE DrainSide
  BY <1>3, DrainHolds
<1> QED
  BY <1>1, <1>2, <1>3, Sides

\* A record is acked for a line that was appended or parked.
LEMMA AckFrom ==
  ASSUME TypeOK, InboxInv, [Next]_vars, NEW p \in Committers, pc'[p] \in {"ack", "mark"}
  PROVE  \/ pc[p] \in {"ack", "mark"} /\ job'[p] = job[p]
         \/ (Append(p) \/ Park(p)) /\ job'[p] = job[p]
<1> USE Names
<1>1. CASE pc[p] \in {"ack", "mark"} /\ job'[p] = job[p]
  BY <1>1
<1>2. ASSUME ~(pc[p] \in {"ack", "mark"} /\ job'[p] = job[p])
      PROVE  (Append(p) \/ Park(p)) /\ job'[p] = job[p]
  <2>1. ASSUME NEW q \in Committers, q # p, Alone(q) PROVE FALSE
    BY <1>2, <2>1 DEF Alone
  <2>2. ASSUME NEW q \in Committers, NEW l, l \in {"idle", "gone", "down", "run", "park"},
               Left(q, l) \/ Moved(q, l)
        PROVE  FALSE
    BY <2>1, <2>2 DEF Left, Moved
  <2>3. ASSUME NEW q \in Committers, NEW j, Took(q, j) PROVE FALSE
    BY <2>1, <2>3 DEF Took
  <2>4. ASSUME UNCHANGED commits PROVE FALSE
    BY <1>2, <2>4 DEF commits
  <2>5. ASSUME NEW q \in Committers, Left(q, AtRest(q)) PROVE FALSE
    BY <2>2, <2>5 DEF AtRest
  <2>6. ASSUME NEW q \in Committers, Commit(q) PROVE (Append(p) \/ Park(p)) /\ job'[p] = job[p]
    <3>1. q = p
      BY <2>1, <2>6, CommitMoves, MoverAlone
    <3>2. CASE ResolveFails(q) \/ CommitFails(q)
      BY <2>2, <2>5, <3>2, NotCommittedFacts DEF ResolveFails, CommitFails
    <3>3. CASE Read(q)
      BY <3>1, <3>3, ReadMoves
    <3>4. CASE Rename(q)
      BY <3>1, <3>4 DEF Rename, Goto, TypeOK
    <3>5. CASE Append(q)
      <4>1. Moved(p, "ack")
        BY <2>5, <3>1, <3>5, AppendFacts
      <4> QED
        BY <3>1, <3>5, <4>1 DEF Moved
    <3>6. CASE Park(q)
      BY <3>1, <3>6 DEF Park
    <3>7. CASE AckRead(q)
      <4>1. Moved(p, "mark") /\ pc[p] = "ack"
        BY <2>5, <3>1, <3>7, AckReadMoves
      <4> QED
        BY <1>2, <4>1 DEF Moved
    <3>8. CASE AckWrite(q) \/ AckFails(q)
      BY <2>5, <3>8, QuitFacts DEF AckWrite, AckFails
    <3> QED
      BY Zenon, <2>6, <3>1, <3>2, <3>3, <3>4, <3>5, <3>6, <3>7, <3>8 DEF Commit
  <2>7. ASSUME NEW t \in Tasks, Claim(t) \/ Finish(t) \/ WrapperDies(t) PROVE FALSE
    BY <2>2, <2>3, <2>7, ClaimFacts, FinishFacts, OtherMoves
  <2>8. ASSUME NEW c \in Talkers,
               TalkerFlips(c) \/ Observe(c) \/ ObserveDuplicate(c) \/ HookCandidate(c)
        PROVE  FALSE
    BY <2>3, <2>4, <2>8, OtherMoves, NotifyMoves
  <2>9. ASSUME Replay \/ DaemonDies \/ DaemonStarts \/ (\E l \in Lines : Deliver(l)) PROVE FALSE
    BY <2>2, <2>3, <2>4, <2>9, OtherMoves, DeliverMoves
  <2>10. ASSUME DrainSide \/ UNCHANGED vars PROVE FALSE
    BY <2>4, <2>10, OtherMoves
  <2> QED
    BY <2>6, <2>7, <2>8, <2>9, <2>10, Sides DEF CommitSide
<1> QED
  BY <1>1, <1>2

\* A record that is being acked for the last completion is not the only one that
\* knows of it.
LEMMA AckedIsHeld ==
  ASSUME TypeOK, InboxInv, [Next]_vars, home' = "yes", NEW p \in Committers,
         pc'[p] \in {"ack", "mark"}, NEW c, c = job'[p].child, job'[p].turn = last'[c],
         pc[p] \in {"ack", "mark"} /\ job[p].turn = last[job[p].child] => Held(job[p].child)
  PROVE  Held(c)'
<1> USE Names
<1>1. CASE pc[p] \in {"ack", "mark"} /\ job'[p] = job[p]
  <2>1. /\ Job(p) /\ c \in Children /\ c = job[p].child /\ c \in Tasks /\ job[p].turn \in Nat
        /\ job[p].turn > 0
    BY <1>1, JobFacts DEF Holding, Job
  <2>2. /\ job[p].turn <= last[c] /\ job[p].turn = last'[c]
        /\ last[c] \in Nat /\ last'[c] \in Nat /\ last[c] <= last'[c]
    BY <1>1, <2>1, LastGrows DEF Job
  <2>3. last'[c] = last[c] /\ job[p].turn = last[c] /\ last[c] > 0
    BY <2>1, <2>2
  <2> QED
    BY <1>1, <2>1, <2>3, HoldsOn
<1>2. CASE Append(p) /\ job'[p] = job[p]
  <2>1. c \in Tasks => last' = last /\ last[c] \in Nat
    BY <1>2, AppendFacts DEF TypeOK
  <2> QED
    BY <1>2, <2>1, AppendHolds
<1>3. CASE Park(p) /\ job'[p] = job[p]
  <2>1. job[p] = Line(c, job[p].turn) /\ last' = last
    BY <1>3, JobFacts DEF Park, Holding, records
  <2>2. \A l : l = job[p] => Delivered(l)' \/ l \in lost'
    <3>1. \A l : l \in parked' => Delivered(l)'
      BY DEF Delivered
    <3> QED
      BY <1>3, <3>1, LosesFacts DEF Park
  <2>3. job[p] = Line(c, last'[c])
    BY <1>3, <2>1
  <2> QED
    BY <2>2, <2>3, NamedHolds
<1> QED
  BY <1>1, <1>2, <1>3, AckFrom

\* A completion that is to be replayed stays so, unless something else holds it.
LEMMA ReplayHolds ==
  ASSUME TypeOK, InboxInv, [Next]_vars, home' = "yes", NEW c \in Children, last[c] > 0,
         last'[c] = last[c], ToReplay(Line(c, last[c])),
         \A p \in Committers : pc[p] \in {"ack", "mark"} /\ job[p].turn = last[job[p].child]
                                 => Held(job[p].child)
  PROVE  Held(c)' \/ ToReplay(Line(c, last[c]))'
<1> USE Names
<1>1. c \in Tasks /\ rec[c].run = last[c] /\ rec[c].status = "finished" /\ last[c] \in Nat
  BY LineFacts DEF ToReplay, TypeOK
<1>2. CASE rec'[c] = rec[c]
  BY <1>1, <1>2, LineFacts DEF ToReplay
<1>3. ASSUME \A l : l = Line(c, rec[c].run) => Delivered(l)' \/ l \in lost' PROVE Held(c)'
  <2>1. \A l : l = Line(c, last'[c]) => Delivered(l)' \/ l \in lost'
    BY <1>1, <1>3
  <2> QED
    BY <2>1, NamedHolds
<1>4. ASSUME NEW t \in Tasks, Claim(t) PROVE rec'[c] = rec[c] \/ Held(c)'
  <2>1. CASE t # c
    BY <1>1, <1>4, <2>1, ClaimFacts DEF RecordIs, OnlyRecord
  <2>2. CASE t = c
    BY <1>1, <1>3, <1>4, <2>2, ClaimFacts
  <2> QED
    BY <2>1, <2>2
<1>5. ASSUME NEW t \in Tasks, Finish(t) PROVE rec'[c] = rec[c]
  <2>1. t # c
    <3>1. LastIs(t, runs[t]) /\ last[t] < runs[t] /\ runs[t] \in Nat
      BY <1>5, FinishFacts
    <3> QED
      BY <1>1, <3>1 DEF LastIs
  <2> QED
    BY <1>1, <1>5, <2>1, FinishFacts DEF RecordIs, OnlyRecord
<1>6. ASSUME NEW p \in Committers, Append(p) PROVE rec'[c] = rec[c]
  BY <1>6, AppendFacts
<1>7. ASSUME NEW p \in Committers, AckWrite(p) PROVE rec'[c] = rec[c] \/ Held(c)'
  <2> DEFINE d == job[p].child
  <2>1. /\ pc[p] = "mark" /\ job[p].turn <= last[d] /\ OnlyRecord(d) /\ job[p].turn \in Nat
        /\ \A l : rec[d].status = "finished" /\ rec[d].run > job[p].turn /\ l = Line(d, rec[d].run)
                 => Delivered(l)' \/ l \in lost'
    BY <1>7, AckWriteFacts, LineFacts
  <2>2. CASE d # c
    BY <1>1, <2>1, <2>2 DEF OnlyRecord
  <2>3. CASE d = c /\ job[p].turn < last[c]
    BY <1>1, <1>3, <2>1, <2>3
  <2>4. CASE d = c /\ job[p].turn = last[c]
    <3>1. Held(c)
      BY <2>1, <2>4
    <3> QED
      BY <3>1, HoldsOn
  <2> QED
    BY <1>1, <2>1, <2>2, <2>3, <2>4
<1>8. rec'[c] = rec[c] \/ Held(c)'
  BY <1>4, <1>5, <1>6, <1>7, RecordsStay, Sides
<1> QED
  BY <1>2, <1>8

\* A new completion is in its record, or in the line of who tells of it.
LEMMA NewHolds ==
  ASSUME TypeOK, InboxInv, [Next]_vars, NEW c \in Children, last'[c] # last[c]
  PROVE  Held(c)' \/ ToReplay(Line(c, last[c]))'
<1> USE Names
<1>1. ASSUME NEW t \in Tasks, Finish(t) PROVE Held(c)' \/ ToReplay(Line(c, last[c]))'
  <2>1. LastIs(t, runs[t])
    BY <1>1, FinishFacts
  <2>2. c = t /\ last'[c] = runs[t]
    BY <2>1 DEF LastIs
  <2>3. CASE RecordIs(t, runs[t], "finished")
    BY <2>2, <2>3, LineFacts DEF ToReplay, RecordIs
  <2>4. CASE \A l : l = Line(t, runs[t]) => Delivered(l)' \/ l \in lost'
    BY <2>2, <2>4, NamedHolds
  <2> QED
    BY <1>1, <2>3, <2>4, FinishFacts
<1>2. ASSUME NEW p \in Committers, Append(p) PROVE Held(c)'
  <2>1. job[p].child \notin Tasks /\ LastIs(job[p].child, job[p].turn)
    BY <1>2, AppendFacts
  <2>2. c = job[p].child
    BY <2>1 DEF LastIs
  <2> QED
    BY <1>2, <2>1, <2>2, AppendHolds
<1>3. ASSUME (\E t \in Tasks : Claim(t)) \/ \E p \in Committers : AckWrite(p) PROVE FALSE
  BY <1>3, ClaimFacts, AckWriteFacts
<1> QED
  BY <1>1, <1>2, <1>3, RecordsStay, Sides

LEMMA HeldNext == ASSUME TypeOK, InboxInv, HeldInv, [Next]_vars PROVE HeldInv'
<1> USE Names
<1>1. ASSUME home' = "yes"
      PROVE  /\ \A c \in Children : last'[c] > 0 => Held(c)' \/ ToReplay(Line(c, last[c]))'
             /\ \A p \in Committers :
                  pc'[p] \in {"ack", "mark"} /\ job'[p].turn = last'[job'[p].child] =>
                    \A c : c = job'[p].child => Held(c)'
  <2>1. home = "yes"
    BY <1>1, DrainSame, Sides DEF DrainSide, Heartbeat, Stop, Drain, Stage, Write, RemoveInbox,
       Consume, Drop, DrainDies, RemoveParent, SweepParent
  <2>2. /\ \A c \in Children : last[c] > 0 => Held(c) \/ ToReplay(Line(c, last[c]))
        /\ \A p \in Committers : pc[p] \in {"ack", "mark"} /\ job[p].turn = last[job[p].child]
                                   => Held(job[p].child)
    BY <2>1 DEF HeldInv
  <2>3. ASSUME NEW c \in Children, last'[c] > 0
        PROVE  Held(c)' \/ ToReplay(Line(c, last[c]))'
    <3>1. CASE last'[c] = last[c]
      <4>1. last[c] > 0
        BY <2>3, <3>1
      <4>2. CASE Held(c)
        BY <1>1, <3>1, <4>1, <4>2, HoldsOn
      <4>3. CASE ToReplay(Line(c, last[c]))
        BY <1>1, <2>2, <3>1, <4>1, <4>3, ReplayHolds
      <4> QED
        BY <2>2, <4>1, <4>2, <4>3
    <3>2. CASE last'[c] # last[c]
      BY <3>2, NewHolds
    <3> QED
      BY <3>1, <3>2
  <2>4. ASSUME NEW p \in Committers, pc'[p] \in {"ack", "mark"},
               job'[p].turn = last'[job'[p].child], NEW c, c = job'[p].child
        PROVE  Held(c)'
    BY <1>1, <2>2, <2>4, AckedIsHeld
  <2> QED
    BY <2>3, <2>4
<1> QED
  BY <1>1 DEF HeldInv

-----------------------------------------------------------------------------
\* The theorems.

LEMMA InboxInit == ASSUME Init PROVE TypeOK /\ InboxInv /\ Marked /\ ActedOnce /\ HeldInv
<1> USE Names
<1>1. TypeOK
  BY InboxAssumption, NoRecordFacts DEF Init, TypeOK
<1>2. Counts /\ Places /\ Jobs
  BY InboxAssumption, NoRecordFacts DEF Init, Counts, Places, Jobs, Holding
<1>3. PastInv /\ Draining
  BY DEF Init, PastInv, Past, Draining
<1>4. Marked /\ ActedOnce
  BY DEF Init, Marked, ActedOnce
<1>5. HeldInv
  BY DEF Init, HeldInv
<1> QED
  BY <1>1, <1>2, <1>3, <1>4, <1>5 DEF InboxInv

LEMMA InboxInvariant == Spec => [](TypeOK /\ InboxInv /\ Marked /\ ActedOnce)
<1>1. Init => TypeOK /\ InboxInv /\ Marked /\ ActedOnce
  BY InboxInit
<1>2. TypeOK /\ InboxInv /\ Marked /\ ActedOnce /\ [Next]_vars
        => (TypeOK /\ InboxInv /\ Marked /\ ActedOnce)'
  BY TypeNext, InboxNext, MarkedNext
<1> QED
  BY <1>1, <1>2, PTL DEF Spec

\* The variables keep their types; no child has a line beyond its runs.
THEOREM TypeCorrect == Spec => []TypeOK
BY InboxInvariant, PTL

\* The agent is handed a turn once at most, however often its line is committed,
\* staged, recovered and drained (inbox_consumer.go 30, 149-186).
THEOREM TurnsAreActedOnce == Spec => []ActedOnce
BY InboxInvariant, PTL

\* What the ledger calls consumed was handed to the agent, or is about to be, unless
\* the drain died right after it saved the ledger (inbox_consumer.go 149-186).
THEOREM LedgerHonest == Spec => []LedgerIsHonest
<1>1. Init => LedgerIsHonest
  BY DEF Init, LedgerIsHonest
<1>2. TypeOK /\ InboxInv /\ LedgerIsHonest /\ [Next]_vars => LedgerIsHonest'
  BY HonestNext
<1> QED
  BY <1>1, <1>2, InboxInvariant, PTL DEF Spec

\* While its parent is registered, the last completion of each child is on disk
\* through every interleaving of the wrappers, of a daemon that delivers copies of
\* its records and of the drain, and every death of one of them, but for the losses
\* that the actions name with Loses: one takes a line it has not read, a rewrite
\* ends before its append, an older copy replaces or beats or acks it, a claim or a
\* write that fails leaves no record (inbox_outbox.go 106-151, 245-252,
\* inbox_consumer.go 111-186, transition_daemon.go 143-175, taskworker.go 80-103,
\* 167-177, 213-250).
THEOREM CompletionIsKept == Spec => []CompletionKept
<1>1. Init => HeldInv
  BY InboxInit
<1>2. TypeOK /\ InboxInv /\ HeldInv /\ [Next]_vars => HeldInv'
  BY HeldNext
<1>3. HeldInv => CompletionKept
  BY DEF HeldInv, Held, CompletionKept
<1> QED
  BY <1>1, <1>2, <1>3, InboxInvariant, PTL DEF Spec
=============================================================================
