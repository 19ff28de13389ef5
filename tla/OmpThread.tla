------------------------------ MODULE OmpThread ------------------------------
(***************************************************************************)
(* The OMP adapter, internal/runtime/omp.go, together with the part of     *)
(* Pool.runJob that uses it: launch an agent process, register it, wait    *)
(* for "ready", send the turn, follow the event stream.  Each user starts  *)
(* at most one process, so the ompThread of user u is called u as well.    *)
(*                                                                         *)
(* All users share one entry of OmpAdapter.threads: the registry is keyed  *)
(* by session and workspace directory (fake.go threadKey), and users with  *)
(* different keys do not meet.  They are the jobs of one gk thread, or the *)
(* attempts of one job, run in place.                                      *)
(*                                                                         *)
(* sendMu of an ompThread is held by its reader in "send" and "write" and  *)
(* by a user in "write"; closing takes it for one step only.               *)
(***************************************************************************)
EXTENDS Naturals, Sequences

CONSTANTS
  Users,       \* goroutines that run a turn, and the processes they launch
  None,        \* no process
  ChanCap,     \* capacity of the event channel (64 in the code)
  InCap,       \* commands that fit into the agent's stdin pipe
  MaxFrames,   \* bound on the frames that each process writes
  Said,        \* the kinds of frames that the processes write
  Closers      \* users that call Shutdown after their turn

\* What the frames of dispatchFrame come to: "call" stands for host_tool_call,
\* host_uri_request and what else the user does not wait for, "end" for
\* turn_end and prompt_result, "long" for a line over the scanner's 4 MB.
Frames == {"ready", "call", "end", "error", "long"}

ASSUME OmpAssumption ==
  /\ None \notin Users
  /\ ChanCap \in Nat \ {0}
  /\ InCap \in Nat \ {0}
  /\ MaxFrames \in [Users -> Nat]
  /\ Said \subseteq Frames
  /\ Closers \subseteq Users

VARIABLES
  registered,  \* OmpAdapter.threads[key]
  proc,        \* state of the agent process
  stdin,       \* commands in the pipe to the agent
  prompted,    \* turns the agent has read and not ended
  written,     \* every frame the agent wrote (history)
  stdout,      \* frames in the pipe from the agent
  buf,         \* frames in the scanner of readLoop; the head is being handled
  reader,      \* program counter of readLoop
  reaper,      \* program counter of reapLoop
  events,      \* the event channel
  sent,        \* every event sent on it (history)
  closed,      \* ompThread.closed: done and events are closed with it
  panic,       \* was a closed channel sent on or closed again?
  pc,          \* program counter of the user
  source,      \* the thread whose channel the user reads
  target,      \* the thread the user's command goes to
  down,        \* program counter of the user's call of Shutdown
  victim,      \* the thread that Shutdown found
  met          \* turns that ran at the same time as each turn (history)

procVars == <<proc, stdin, prompted, written, stdout>>
readVars == <<buf, reader>>
chanVars == <<events, sent, closed, panic>>
userVars == <<pc, source, target>>
downVars == <<down, victim>>
vars == <<registered, procVars, readVars, reaper, chanVars, userVars, downVars, met>>

Answered(f) == f \in {"ready", "call"}   \* writeCommand follows the emit

Running == {"launched", "start", "ready", "prompt", "lock", "write", "turn"}
Waiting == {"ready", "turn"}             \* waitForReady, waitForCompletion
Over == {"left", "done"}

Held(t) == \/ reader[t] \in {"send", "write"}
           \/ \E u \in Users : pc[u] = "write" /\ target[u] = t

Init ==
  /\ registered = None
  /\ proc = [t \in Users |-> "none"]
  /\ stdin = [t \in Users |-> <<>>]
  /\ prompted = [t \in Users |-> 0]
  /\ written = [t \in Users |-> <<>>]
  /\ stdout = [t \in Users |-> <<>>]
  /\ buf = [t \in Users |-> <<>>]
  /\ reader = [t \in Users |-> "none"]
  /\ reaper = [t \in Users |-> "none"]
  /\ events = [t \in Users |-> <<>>]
  /\ sent = [t \in Users |-> <<>>]
  /\ closed = [t \in Users |-> FALSE]
  /\ panic = FALSE
  /\ pc = [u \in Users |-> "idle"]
  /\ source = [u \in Users |-> None]
  /\ target = [u \in Users |-> None]
  /\ down = [u \in Users |-> "no"]
  /\ victim = [u \in Users |-> None]
  /\ met = [u \in Users |-> {}]

-----------------------------------------------------------------------------
(* The agent process, from how the adapter and the pool use it.            *)

AgentWrites(t, f) ==
  /\ proc[t] = "alive"
  /\ Len(written[t]) < MaxFrames[t]
  /\ (f = "ready") <=> (written[t] = <<>>)
  /\ f = "end" => prompted[t] > 0
  /\ written' = [written EXCEPT ![t] = Append(@, f)]
  /\ stdout' = [stdout EXCEPT ![t] = Append(@, f)]
  /\ prompted' = [prompted EXCEPT ![t] = IF f = "end" THEN @ - 1 ELSE @]
  /\ UNCHANGED <<registered, proc, stdin, readVars, reaper, chanVars, userVars, downVars, met>>

AgentReads(t) ==
  /\ proc[t] = "alive"
  /\ stdin[t] # <<>>
  /\ stdin' = [stdin EXCEPT ![t] = Tail(@)]
  /\ prompted' = [prompted EXCEPT ![t] = IF Head(stdin[t]) = "prompt" THEN @ + 1 ELSE @]
  /\ UNCHANGED <<registered, proc, written, stdout, readVars, reaper, chanVars, userVars, downVars, met>>

AgentExits(t) ==
  /\ proc[t] = "alive"
  /\ proc' = [proc EXCEPT ![t] = "dead"]
  /\ UNCHANGED <<registered, stdin, prompted, written, stdout, readVars, reaper, chanVars, userVars, downVars, met>>

\* exec.CommandContext: runJob's deferred cancel kills the process.
CancelKills(t) == pc[t] \in Over /\ AgentExits(t)

-----------------------------------------------------------------------------
(* readLoop                                                                *)

\* The scanner takes all there is in the pipe; taking a part of it comes to
\* the same as taking all of it before the rest was written.
Scan(t) ==
  /\ reader[t] = "scan" /\ stdout[t] # <<>>
  /\ buf' = [buf EXCEPT ![t] = stdout[t]]
  /\ stdout' = [stdout EXCEPT ![t] = <<>>]
  /\ reader' = [reader EXCEPT ![t] = "emit"]
  /\ UNCHANGED <<registered, proc, stdin, prompted, written, reaper, chanVars, userVars, downVars, met>>

\* A line over the limit ends the loop while the process lives: nothing reads
\* its stdout any more, and nobody is told.
ScanFails(t) ==
  /\ reader[t] = "emit" /\ Head(buf[t]) = "long"
  /\ reader' = [reader EXCEPT ![t] = "gone"]
  /\ buf' = [buf EXCEPT ![t] = <<>>]
  /\ UNCHANGED <<registered, procVars, reaper, chanVars, userVars, downVars, met>>

ReaderEnds(t) ==
  /\ reader[t] = "scan" /\ stdout[t] = <<>>
  /\ proc[t] = "dead"
  /\ reader' = [reader EXCEPT ![t] = "gone"]
  /\ UNCHANGED <<registered, procVars, buf, reaper, chanVars, userVars, downVars, met>>

\* The reader is through with the head of buf.
NextFrame(t) ==
  /\ buf' = [buf EXCEPT ![t] = Tail(@)]
  /\ reader' = [reader EXCEPT ![t] = IF Len(buf[t]) > 1 THEN "emit" ELSE "scan"]

AfterEmit(t) ==
  IF Answered(Head(buf[t]))
    THEN reader' = [reader EXCEPT ![t] = "reply"] /\ UNCHANGED buf
    ELSE NextFrame(t)

\* emit: take sendMu, give up when closed.
EmitLock(t) ==
  /\ reader[t] = "emit" /\ Head(buf[t]) # "long" /\ ~Held(t)
  /\ IF closed[t] THEN AfterEmit(t)
                  ELSE reader' = [reader EXCEPT ![t] = "send"] /\ UNCHANGED buf
  /\ UNCHANGED <<registered, procVars, reaper, chanVars, userVars, downVars, met>>

\* Mutant: the select has a default branch, and a full channel loses the event.
EmitSend_Drops(t) ==
  /\ reader[t] = "send"
  /\ IF Len(events[t]) < ChanCap
       THEN /\ events' = [events EXCEPT ![t] = Append(@, Head(buf[t]))]
            /\ sent' = [sent EXCEPT ![t] = Append(@, Head(buf[t]))]
       ELSE UNCHANGED <<events, sent>>
  /\ AfterEmit(t)
  /\ UNCHANGED <<registered, procVars, reaper, closed, panic, userVars, downVars, met>>

\* emit: the select.  It waits for room with sendMu held; its other branch,
\* done, is closed under sendMu only.
EmitSend(t) ==
  /\ reader[t] = "send"
  /\ closed[t] \/ Len(events[t]) < ChanCap
  /\ events' = [events EXCEPT ![t] = Append(@, Head(buf[t]))]
  /\ sent' = [sent EXCEPT ![t] = Append(@, Head(buf[t]))]
  /\ panic' = (panic \/ closed[t])
  /\ AfterEmit(t)
  /\ UNCHANGED <<registered, procVars, reaper, closed, userVars, downVars, met>>

\* dispatchFrame: writeCommand after the emit, its error ignored.
ReplyLock(t) ==
  /\ reader[t] = "reply" /\ ~Held(t)
  /\ IF closed[t] THEN NextFrame(t)
                  ELSE reader' = [reader EXCEPT ![t] = "write"] /\ UNCHANGED buf
  /\ UNCHANGED <<registered, procVars, reaper, chanVars, userVars, downVars, met>>

\* Mutant: a write to a process that is gone waits for it.
PipeWrite_Waits(t, c) ==
  /\ proc[t] = "alive" /\ Len(stdin[t]) < InCap
  /\ stdin' = [stdin EXCEPT ![t] = Append(@, c)]

\* stdin.Write: waits for room in the pipe, fails when the process is gone.
PipeWrite(t, c) ==
  \/ /\ proc[t] = "alive" /\ Len(stdin[t]) < InCap
     /\ stdin' = [stdin EXCEPT ![t] = Append(@, c)]
  \/ proc[t] = "dead" /\ UNCHANGED stdin

ReplyWrite(t) ==
  /\ reader[t] = "write"
  /\ PipeWrite(t, "result")
  /\ NextFrame(t)
  /\ UNCHANGED <<registered, proc, prompted, written, stdout, reaper, chanVars, userVars, downVars, met>>

-----------------------------------------------------------------------------
(* Closing: reapLoop and Shutdown                                          *)

\* close(ft.done), close(ft.events).
Close(t) ==
  /\ panic' = (panic \/ closed[t])
  /\ closed' = [closed EXCEPT ![t] = TRUE]
  /\ UNCHANGED <<events, sent>>

\* Both closers, under sendMu: if !ft.closed.
CloseOnce(t) == IF closed[t] THEN UNCHANGED chanVars ELSE Close(t)

\* cmd.Wait closes the read end of the stdout pipe: what is in it is lost.
Wait(t) ==
  /\ reaper[t] = "wait" /\ proc[t] = "dead"
  /\ stdout' = [stdout EXCEPT ![t] = <<>>]
  /\ reaper' = [reaper EXCEPT ![t] = "lock"]
  /\ UNCHANGED <<registered, proc, stdin, prompted, written, readVars, chanVars, userVars, downVars, met>>

\* Mutant: the reaper closes nothing.
Reap_LeavesOpen(t) ==
  /\ reaper[t] = "lock" /\ ~Held(t)
  /\ reaper' = [reaper EXCEPT ![t] = "gone"]
  /\ UNCHANGED <<registered, procVars, readVars, chanVars, userVars, downVars, met>>

Reap(t) ==
  /\ reaper[t] = "lock" /\ ~Held(t)
  /\ CloseOnce(t)
  /\ reaper' = [reaper EXCEPT ![t] = "gone"]
  /\ UNCHANGED <<registered, procVars, readVars, userVars, downVars, met>>

-----------------------------------------------------------------------------
(* The user: Pool.startWorker, Pool.runJob                                 *)

Goto(u, l) == pc' = [pc EXCEPT ![u] = l]
UserOnly == UNCHANGED <<procVars, readVars, reaper, chanVars, downVars, met>>

\* The process runs and its two goroutines are started, whatever other turns of
\* the thread are under way: the claim lets a second one through (JobStore).
Launch(u) ==
  /\ pc[u] = "idle"
  /\ proc' = [proc EXCEPT ![u] = "alive"]
  /\ reader' = [reader EXCEPT ![u] = "scan"]
  /\ reaper' = [reaper EXCEPT ![u] = "wait"]
  /\ Goto(u, "launched")
  /\ met' = LET others == {v \in Users : pc[v] \in Running} IN
              [v \in Users |-> IF v = u THEN others
                               ELSE IF v \in others THEN met[v] \cup {u} ELSE met[v]]
  /\ UNCHANGED <<registered, stdin, prompted, written, stdout, buf, chanVars, source, target, downVars>>

LaunchFails(u) ==
  /\ pc[u] = "idle"
  /\ Goto(u, "left")
  /\ UNCHANGED <<registered, source, target>> /\ UserOnly

\* Mutant: ResumeThread leaves the new handle in its temporary adapter.
Register_Tmp(u) ==
  /\ pc[u] = "launched"
  /\ registered' = IF registered = None THEN u ELSE registered
  /\ Goto(u, "start")
  /\ UNCHANGED <<source, target>> /\ UserOnly

\* a.threads[key] = ft.  StartThread does it before it starts the goroutines,
\* ResumeThread after: this is the wider window.
Register(u) ==
  /\ pc[u] = "launched"
  /\ registered' = u
  /\ Goto(u, "start")
  /\ UNCHANGED <<source, target>> /\ UserOnly

\* StreamEvents: a thread that is not registered has a closed stream.
StreamEvents(u) ==
  /\ pc[u] = "start"
  /\ source' = [source EXCEPT ![u] = registered]
  /\ Goto(u, IF registered = None THEN "left" ELSE "ready")
  /\ UNCHANGED <<registered, target>> /\ UserOnly

\* Mutant: the frame that ends a turn is not taken for its end.
AfterEvent_MissesEnd(l, e) ==
  IF l = "ready" THEN (IF e = "ready" THEN "prompt" ELSE l)
  ELSE IF e = "error" THEN "left" ELSE l

\* What the loops of waitForReady and waitForCompletion do with an event.
AfterEvent(l, e) ==
  IF l = "ready" THEN (IF e = "ready" THEN "prompt" ELSE l)
  ELSE IF e = "end" THEN "done" ELSE IF e = "error" THEN "left" ELSE l

ReadEvent(u) ==
  LET t == source[u] IN
  /\ pc[u] \in Waiting
  /\ events[t] # <<>>
  /\ Goto(u, AfterEvent(pc[u], Head(events[t])))
  /\ events' = [events EXCEPT ![t] = Tail(@)]
  /\ UNCHANGED <<registered, procVars, readVars, reaper, sent, closed, panic, source, target, downVars, met>>

StreamCloses(u) ==
  /\ pc[u] \in Waiting
  /\ closed[source[u]] /\ events[source[u]] = <<>>
  /\ Goto(u, "left")
  /\ UNCHANGED <<registered, source, target>> /\ UserOnly

\* ctx.Done() or the turn timeout.
GiveUp(u) ==
  /\ pc[u] \in Waiting
  /\ Goto(u, "left")
  /\ UNCHANGED <<registered, source, target>> /\ UserOnly

\* SendTurn
Lookup(u) ==
  /\ pc[u] = "prompt"
  /\ target' = [target EXCEPT ![u] = registered]
  /\ Goto(u, IF registered = None THEN "left" ELSE "lock")
  /\ UNCHANGED <<registered, source>> /\ UserOnly

SendLock(u) ==
  /\ pc[u] = "lock" /\ ~Held(target[u])
  /\ Goto(u, IF closed[target[u]] THEN "left" ELSE "write")
  /\ UNCHANGED <<registered, source, target>> /\ UserOnly

SendWrite(u) ==
  LET t == target[u] IN
  /\ pc[u] = "write"
  /\ PipeWrite(t, "prompt")
  /\ Goto(u, IF proc[t] = "alive" THEN "turn" ELSE "left")
  /\ UNCHANGED <<registered, proc, prompted, written, stdout, readVars, reaper, chanVars, source, target, downVars, met>>

-----------------------------------------------------------------------------
(* Shutdown.  The pool never calls it; the tests do, after their turn.     *)

DownOnly == UNCHANGED <<stdin, prompted, written, stdout, readVars, reaper, userVars, met>>

ShutdownLookup(u) ==
  /\ u \in Closers /\ pc[u] \in Over /\ down[u] = "no"
  /\ victim' = [victim EXCEPT ![u] = registered]
  /\ down' = [down EXCEPT ![u] = IF registered = None THEN "returned" ELSE "lock"]
  /\ UNCHANGED <<registered, proc, chanVars>> /\ DownOnly

ShutdownCloses(u) ==
  /\ down[u] = "lock" /\ ~Held(victim[u])
  /\ CloseOnce(victim[u])
  /\ down' = [down EXCEPT ![u] = "kill"]
  /\ UNCHANGED <<registered, proc, victim>> /\ DownOnly

ShutdownKills(u) ==
  /\ down[u] = "kill"
  /\ proc' = [proc EXCEPT ![victim[u]] = "dead"]
  /\ down' = [down EXCEPT ![u] = "delete"]
  /\ UNCHANGED <<registered, chanVars, victim>> /\ DownOnly

ShutdownDeletes(u) ==
  /\ down[u] = "delete"
  /\ registered' = None
  /\ down' = [down EXCEPT ![u] = "returned"]
  /\ UNCHANGED <<proc, chanVars, victim>> /\ DownOnly

-----------------------------------------------------------------------------
Agent(t) == \/ \E f \in Said : AgentWrites(t, f)
            \/ AgentReads(t) \/ AgentExits(t) \/ CancelKills(t)
Reader(t) == \/ Scan(t) \/ ScanFails(t) \/ ReaderEnds(t) \/ EmitLock(t) \/ EmitSend(t)
             \/ ReplyLock(t) \/ ReplyWrite(t)
Reaper(t) == Wait(t) \/ Reap(t)
Turn(u) == \/ Register(u) \/ StreamEvents(u) \/ ReadEvent(u) \/ StreamCloses(u)
           \/ Lookup(u) \/ SendLock(u) \/ SendWrite(u)
Shutdown(u) == \/ ShutdownLookup(u) \/ ShutdownCloses(u)
               \/ ShutdownKills(u) \/ ShutdownDeletes(u)

Next == \E u \in Users : \/ Agent(u) \/ Reader(u) \/ Reaper(u) \/ Turn(u)
                         \/ Shutdown(u) \/ GiveUp(u) \/ Launch(u) \/ LaunchFails(u)

Spec == Init /\ [][Next]_vars

\* Goroutines run, the context of a turn that is over kills its process, and
\* sync.Mutex lets nobody starve.  The agent owes nothing.
Fairness == \A u \in Users :
  /\ WF_vars(Reader(u)) /\ SF_vars(EmitLock(u)) /\ SF_vars(ReplyLock(u))
  /\ WF_vars(Wait(u)) /\ SF_vars(Reap(u))
  /\ WF_vars(Turn(u)) /\ SF_vars(SendLock(u))
  /\ SF_vars(ShutdownCloses(u)) /\ WF_vars(ShutdownKills(u)) /\ WF_vars(ShutdownDeletes(u))
  /\ WF_vars(CancelKills(u))

FairSpec == Spec /\ Fairness

-----------------------------------------------------------------------------
(* Properties                                                              *)

TypeOK ==
  /\ registered \in Users \cup {None}
  /\ proc \in [Users -> {"none", "alive", "dead"}]
  /\ stdin \in [Users -> Seq({"prompt", "result"})]
  /\ prompted \in [Users -> Nat]
  /\ written \in [Users -> Seq(Frames)]
  /\ stdout \in [Users -> Seq(Frames)]
  /\ buf \in [Users -> Seq(Frames)]
  /\ reader \in [Users -> {"none", "scan", "emit", "send", "reply", "write", "gone"}]
  /\ \A t \in Users : reader[t] \in {"emit", "send", "reply", "write"} => buf[t] # <<>>
  /\ reaper \in [Users -> {"none", "wait", "lock", "gone"}]
  /\ events \in [Users -> Seq(Frames)]
  /\ sent \in [Users -> Seq(Frames)]
  /\ closed \in [Users -> BOOLEAN]
  /\ panic \in BOOLEAN
  /\ pc \in [Users -> {"idle"} \cup Running \cup Over]
  /\ source \in [Users -> Users \cup {None}]
  /\ target \in [Users -> Users \cup {None}]
  /\ down \in [Users -> {"no", "lock", "kill", "delete", "returned"}]
  /\ victim \in [Users -> Users \cup {None}]
  /\ met \in [Users -> SUBSET Users]

\* omp.go 289-313, 402-423: two goroutines close the channel and one sends on
\* it.  Neither a send nor a second close ever meets a closed channel.
NoPanic == ~panic

\* omp.go 316-412: whatever is lost when an agent exits or a stream is closed,
\* the events of a process are its frames in order and without a gap, so that
\* an "end" never comes without what was said before it.
StreamIsPrefix == \A t \in Users :
  /\ Len(sent[t]) <= Len(written[t])
  /\ sent[t] = SubSeq(written[t], 1, Len(sent[t]))

\* pool.go 212-250, omp.go 250-257: runJob looks its thread up by directory
\* twice, for the events and for the prompt, and never by the process it
\* launched.  Still a turn is done only by an "end" of its own process, or of one
\* whose turn ran at the same time, and that process got its prompt: never by one
\* that an earlier turn left behind.
CompletionIsOwn == \A u \in Users :
  pc[u] = "done" => {source[u], target[u]} \subseteq {u} \cup met[u]

\* pool.go 294-355, omp.go 414-423: who waits on the stream of a process that
\* is gone does not wait for ever, whatever the process wrote before.
ExitIsHeard == \A u, t \in Users :
  pc[u] \in Waiting /\ source[u] = t /\ proc[t] = "dead" ~> pc[u] \notin Waiting

\* omp.go 402-412, 431-445: who waits for sendMu to send a turn gets it, unless
\* the reader waits for room in the event channel, or for room in the stdin of
\* an agent that does not read, with sendMu held.
Jammed(t) == \/ reader[t] = "send" /\ Len(events[t]) >= ChanCap
             \/ reader[t] = "write" /\ Len(stdin[t]) >= InCap
             \/ \E v \in Users : pc[v] = "write" /\ target[v] = t /\ Len(stdin[t]) >= InCap
LockWaitEnds == \A u, t \in Users :
  pc[u] = "lock" /\ target[u] = t ~> pc[u] # "lock" \/ Jammed(t)

\* pool.go 310-355, omp.go 316-423: once the agent has written the end of its
\* turn, whoever waits for it stops waiting, be it because the process exits
\* first and the end is lost, unless the stream is jammed, or the reader has given
\* up on a long line of a process that lives.
Deaf(t) == reader[t] = "gone" /\ proc[t] = "alive"
EndIsHeard == \A u, t \in Users :
  pc[u] = "turn" /\ source[u] = t /\ (\E i \in DOMAIN written[t] : written[t][i] = "end")
    ~> pc[u] # "turn" \/ Jammed(t) \/ Deaf(t)
=============================================================================
