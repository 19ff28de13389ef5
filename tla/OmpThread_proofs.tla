-------------------------- MODULE OmpThread_proofs --------------------------
(***************************************************************************)
(* What the OMP adapter guarantees for any number of turns, any capacity   *)
(* of the channel and of the pipe, and any length of the agents' output.   *)
(* sendMu alone keeps a closed channel from being used (NoPanic).  That    *)
(* the events are the frames in order needs where each frame is: the ones  *)
(* sent, those in the scanner and those in the pipe follow one another in  *)
(* what the agent wrote, as long as the reader reads.  Whose completion a  *)
(* turn takes follows from who ran when: the registry never holds a thread *)
(* older than every turn that runs.                                        *)
(***************************************************************************)
EXTENDS OmpThread, SequenceTheorems, TLAPS

-----------------------------------------------------------------------------
\* Types.

\* The head of a sequence that is not empty, what is left without it, and one
\* more element at its end.
LEMMA Pieces ==
  ASSUME NEW S, NEW s \in Seq(S)
  PROVE  /\ \A e \in S : Append(s, e) \in Seq(S) /\ Append(s, e) # <<>>
         /\ s # <<>> => Head(s) \in S /\ Tail(s) \in Seq(S) /\ Len(s) > 0
         /\ s # <<>> /\ Len(s) > 1 => Tail(s) # <<>>
<1>1. \A e \in S : Append(s, e) \in Seq(S) /\ Append(s, e) # <<>>
  BY AppendProperties
<1>2. ASSUME s # <<>>
      PROVE  Head(s) \in S /\ Tail(s) \in Seq(S) /\ Len(s) > 0 /\ (Len(s) > 1 => Tail(s) # <<>>)
  <2>1. Head(s) \in S /\ Tail(s) \in Seq(S) /\ Len(Tail(s)) = Len(s) - 1
    BY <1>2, HeadTailProperties
  <2>2. Len(s) \in Nat /\ Len(s) # 0
    BY <1>2, EmptySeq
  <2>3. Tail(s) = <<>> => Len(Tail(s)) = 0
    BY EmptySeq
  <2> QED
    BY <2>1, <2>2, <2>3
<1> QED
  BY <1>1, <1>2

LEMMA Sets ==
  /\ Running \subseteq {"launched", "start", "ready", "prompt", "lock", "write", "turn"}
  /\ \A l \in {"launched", "start", "ready", "prompt", "lock", "write", "turn", "left", "done"} :
       l \in {"idle"} \cup Running \cup Over
BY DEF Running, Over

LEMMA TypeInit == ASSUME Init PROVE TypeOK
<1>1. <<>> \in Seq(Frames) /\ <<>> \in Seq({"prompt", "result"})
  OBVIOUS
<1> QED
  BY <1>1, OmpAssumption DEF Init, TypeOK

\* A step of the reader from one frame to what comes after it.
Moved(t) ==
  /\ buf' \in [Users -> Seq(Frames)]
  /\ reader' \in [Users -> {"none", "scan", "emit", "send", "reply", "write", "gone"}]
  /\ \A x \in Users \ {t} : buf'[x] = buf[x] /\ reader'[x] = reader[x]
  /\ reader'[t] \in {"scan", "emit", "reply"}
  /\ reader'[t] # "scan" => buf'[t] # <<>>

LEMMA NextFrameMoves ==
  ASSUME TypeOK, NEW t \in Users, buf[t] # <<>>, NextFrame(t)
  PROVE  Moved(t)
<1>1. /\ Tail(buf[t]) \in Seq(Frames) /\ Len(buf[t]) > 0
      /\ Len(buf[t]) > 1 => Tail(buf[t]) # <<>>
  BY Pieces DEF TypeOK
<1> QED
  BY <1>1 DEF NextFrame, TypeOK, Moved

LEMMA AfterEmitMoves ==
  ASSUME TypeOK, NEW t \in Users, buf[t] # <<>>, AfterEmit(t)
  PROVE  Moved(t)
<1>1. CASE Answered(Head(buf[t]))
  BY <1>1 DEF AfterEmit, TypeOK, Moved
<1>2. CASE ~Answered(Head(buf[t]))
  BY <1>2, NextFrameMoves DEF AfterEmit
<1> QED
  BY <1>1, <1>2

LEMMA PipeWriteTypes ==
  ASSUME TypeOK, NEW t, NEW c \in {"prompt", "result"}, PipeWrite(t, c)
  PROVE  stdin' \in [Users -> Seq({"prompt", "result"})]
<1>1. t \in Users => Append(stdin[t], c) \in Seq({"prompt", "result"})
  BY Pieces DEF TypeOK
<1> QED
  BY <1>1 DEF PipeWrite, TypeOK

LEMMA CloseOnceTypes ==
  ASSUME TypeOK, NEW t, CloseOnce(t)
  PROVE  closed' \in [Users -> BOOLEAN] /\ panic' \in BOOLEAN /\ UNCHANGED <<events, sent>>
<1>1. panic' \in BOOLEAN /\ UNCHANGED <<events, sent>>
  BY Zenon DEF CloseOnce, Close, TypeOK, chanVars
<1>2. closed' = closed \/ closed' = [closed EXCEPT ![t] = TRUE]
  BY DEF CloseOnce, Close, chanVars
<1> QED
  BY <1>1, <1>2 DEF TypeOK

LEMMA TypeNext == ASSUME TypeOK, [Next]_vars PROVE TypeOK'
<1> USE OmpAssumption DEF TypeOK
<1>1. CASE UNCHANGED vars
  BY <1>1 DEF vars, procVars, readVars, chanVars, userVars, downVars
<1> USE DEF procVars, readVars, chanVars, userVars, downVars
<1>2. ASSUME NEW t \in Users, NEW f \in Said, AgentWrites(t, f) PROVE TypeOK'
  <2>1. Append(written[t], f) \in Seq(Frames) /\ Append(stdout[t], f) \in Seq(Frames)
    BY Pieces, OmpAssumption
  <2>2. f = "end" => prompted[t] > 0
    BY <1>2, Zenon DEF AgentWrites
  <2>3. prompted' \in [Users -> Nat]
    <3>1. prompted' = [prompted EXCEPT ![t] = IF f = "end" THEN @ - 1 ELSE @]
      BY <1>2, Zenon DEF AgentWrites
    <3> QED
      BY <2>2, <3>1
  <2>4. written' \in [Users -> Seq(Frames)] /\ stdout' \in [Users -> Seq(Frames)]
    BY <1>2, <2>1 DEF AgentWrites
  <2> QED
    BY <1>2, <2>3, <2>4 DEF AgentWrites
<1>3. ASSUME NEW t \in Users, AgentReads(t) PROVE TypeOK'
  <2>1. Tail(stdin[t]) \in Seq({"prompt", "result"})
    BY <1>3, Pieces DEF AgentReads
  <2>2. stdin' \in [Users -> Seq({"prompt", "result"})]
    BY <1>3, <2>1 DEF AgentReads
  <2>3. prompted' \in [Users -> Nat]
    BY SMTT(30), <1>3 DEF AgentReads
  <2> QED
    BY <1>3, <2>2, <2>3 DEF AgentReads
<1>4. ASSUME NEW t \in Users, AgentExits(t) PROVE TypeOK'
  BY <1>4 DEF AgentExits
<1>5. ASSUME NEW t \in Users, Scan(t) PROVE TypeOK'
  BY SMTT(30), <1>5 DEF Scan
<1>6. ASSUME NEW t \in Users, ReaderEnds(t) PROVE TypeOK'
  BY <1>6 DEF ReaderEnds
<1>23. ASSUME NEW t \in Users, ScanFails(t) PROVE TypeOK'
  <2>1. <<>> \in Seq(Frames)
    OBVIOUS
  <2> QED
    BY <1>23, <2>1 DEF ScanFails
<1>7. ASSUME NEW t \in Users, EmitLock(t) PROVE TypeOK'
  <2>1. buf[t] # <<>>
    BY <1>7 DEF EmitLock
  <2>2. AfterEmit(t) => Moved(t)
    BY <2>1, AfterEmitMoves
  <2>3. UNCHANGED <<registered, procVars, reaper, chanVars, userVars, downVars, met>>
    BY <1>7 DEF EmitLock
  <2>4. Moved(t) \/ (reader' = [reader EXCEPT ![t] = "send"] /\ UNCHANGED buf)
    BY <1>7, <2>2 DEF EmitLock
  <2> QED
    BY ZenonT(60), <2>1, <2>3, <2>4 DEF Moved
<1>8. ASSUME NEW t \in Users, EmitSend(t) PROVE TypeOK'
  <2>1. buf[t] # <<>>
    BY <1>8 DEF EmitSend
  <2>2. Moved(t)
    BY <1>8, <2>1, AfterEmitMoves DEF EmitSend
  <2>3. Append(events[t], Head(buf[t])) \in Seq(Frames) /\ Append(sent[t], Head(buf[t])) \in Seq(Frames)
    BY <2>1, Pieces
  <2>4. /\ events' \in [Users -> Seq(Frames)] /\ sent' \in [Users -> Seq(Frames)]
        /\ UNCHANGED <<registered, procVars, reaper, closed, userVars, downVars, met>>
    BY <1>8, <2>3 DEF EmitSend
  <2>5. panic' \in BOOLEAN
    BY <1>8, Zenon DEF EmitSend
  <2> QED
    BY <2>1, <2>2, <2>4, <2>5 DEF Moved
<1>9. ASSUME NEW t \in Users, ReplyLock(t) PROVE TypeOK'
  <2>1. buf[t] # <<>>
    BY <1>9 DEF ReplyLock
  <2>2. NextFrame(t) => Moved(t)
    BY <2>1, NextFrameMoves
  <2>3. UNCHANGED <<registered, procVars, reaper, chanVars, userVars, downVars, met>>
    BY <1>9 DEF ReplyLock
  <2>4. Moved(t) \/ (reader' = [reader EXCEPT ![t] = "write"] /\ UNCHANGED buf)
    BY <1>9, <2>2 DEF ReplyLock
  <2> QED
    BY ZenonT(60), <2>1, <2>3, <2>4 DEF Moved
<1>10. ASSUME NEW t \in Users, ReplyWrite(t) PROVE TypeOK'
  <2>1. buf[t] # <<>>
    BY <1>10 DEF ReplyWrite
  <2>2. Moved(t)
    BY <1>10, <2>1, NextFrameMoves DEF ReplyWrite
  <2>3. stdin' \in [Users -> Seq({"prompt", "result"})]
    BY <1>10, PipeWriteTypes DEF ReplyWrite
  <2>4. UNCHANGED <<registered, proc, prompted, written, stdout, reaper, chanVars, userVars, downVars, met>>
    BY <1>10 DEF ReplyWrite
  <2> QED
    BY <2>1, <2>2, <2>3, <2>4 DEF Moved
<1>11. ASSUME NEW t \in Users, Wait(t) PROVE TypeOK'
  <2>1. <<>> \in Seq(Frames)
    OBVIOUS
  <2> QED
    BY <1>11, <2>1 DEF Wait
<1>12. ASSUME NEW t \in Users, Reap(t) PROVE TypeOK'
  <2>1. closed' \in [Users -> BOOLEAN] /\ panic' \in BOOLEAN /\ UNCHANGED <<events, sent>>
    BY <1>12, CloseOnceTypes DEF Reap
  <2> QED
    BY <1>12, <2>1 DEF Reap
<1>13. ASSUME NEW u \in Users, Launch(u) PROVE TypeOK'
  <2>1. met' \in [Users -> SUBSET Users]
    BY <1>13, Zenon DEF Launch
  <2>2. pc' \in [Users -> {"idle"} \cup Running \cup Over]
    BY <1>13, Sets DEF Launch, Goto
  <2> QED
    BY <1>13, <2>1, <2>2 DEF Launch
<1>14. ASSUME NEW u \in Users, LaunchFails(u) PROVE TypeOK'
  BY <1>14 DEF LaunchFails, Goto, UserOnly, Over
<1>15. ASSUME NEW u \in Users, Register(u) \/ StreamEvents(u) PROVE TypeOK'
  <2>1. CASE Register(u)
    BY <1>15, <2>1, Sets DEF Register, Goto, UserOnly
  <2>2. CASE StreamEvents(u)
    BY <1>15, <2>2, Sets DEF StreamEvents, Goto, UserOnly
  <2> QED
    BY <1>15, <2>1, <2>2
<1>16. ASSUME NEW u \in Users, ReadEvent(u) PROVE TypeOK'
  <2>1. pc' = [pc EXCEPT ![u] = AfterEvent(pc[u], Head(events[source[u]]))]
    BY <1>16 DEF ReadEvent, Goto
  <2>2. AfterEvent(pc[u], Head(events[source[u]])) \in {"ready", "prompt", "turn", "left", "done"}
    BY <1>16 DEF ReadEvent, AfterEvent, Waiting
  <2>3. events' \in [Users -> Seq(Frames)]
    <3>1. CASE source[u] \in Users
      <4>1. Tail(events[source[u]]) \in Seq(Frames)
        BY <1>16, <3>1, Pieces DEF ReadEvent
      <4> QED
        BY <1>16, <3>1, <4>1 DEF ReadEvent
    <3>2. CASE source[u] = None
      BY ZenonT(60), <1>16, <3>2 DEF ReadEvent
    <3> QED
      BY <3>1, <3>2
  <2>4. UNCHANGED <<registered, procVars, readVars, reaper, sent, closed, panic, source, target, downVars, met>>
    BY <1>16 DEF ReadEvent
  <2>5. pc' \in [Users -> {"idle"} \cup Running \cup Over]
    BY SMTT(30), <2>1, <2>2, Sets
  <2> QED
    BY <2>3, <2>4, <2>5
<1>17. ASSUME NEW u \in Users, StreamCloses(u) \/ GiveUp(u) PROVE TypeOK'
  <2>1. pc' = [pc EXCEPT ![u] = "left"] /\ UNCHANGED <<registered, source, target>> /\ UserOnly
    BY <1>17, Zenon DEF StreamCloses, GiveUp, Goto
  <2> QED
    BY <2>1, Sets DEF UserOnly
<1>18. ASSUME NEW u \in Users, Lookup(u) \/ SendLock(u) PROVE TypeOK'
  <2>1. CASE Lookup(u)
    BY <2>1, Sets DEF Lookup, Goto, UserOnly
  <2>2. CASE SendLock(u)
    BY <2>2, Sets DEF SendLock, Goto, UserOnly
  <2> QED
    BY <1>18, <2>1, <2>2
<1>19. ASSUME NEW u \in Users, SendWrite(u) PROVE TypeOK'
  <2>1. stdin' \in [Users -> Seq({"prompt", "result"})]
    BY <1>19, PipeWriteTypes DEF SendWrite
  <2>2. /\ UNCHANGED <<registered, proc, prompted, written, stdout, readVars, reaper, chanVars, source, target, downVars, met>>
        /\ pc' = [pc EXCEPT ![u] = IF proc[target[u]] = "alive" THEN "turn" ELSE "left"]
    BY <1>19 DEF SendWrite, Goto
  <2> QED
    BY <2>1, <2>2, Sets
<1>20. ASSUME NEW u \in Users, ShutdownLookup(u) \/ ShutdownDeletes(u) PROVE TypeOK'
  <2>1. CASE ShutdownLookup(u)
    BY <2>1 DEF ShutdownLookup, DownOnly
  <2>2. CASE ShutdownDeletes(u)
    BY <2>2 DEF ShutdownDeletes, DownOnly
  <2> QED
    BY <1>20, <2>1, <2>2
<1>21. ASSUME NEW u \in Users, ShutdownCloses(u) PROVE TypeOK'
  <2>1. closed' \in [Users -> BOOLEAN] /\ panic' \in BOOLEAN /\ UNCHANGED <<events, sent>>
    BY <1>21, CloseOnceTypes DEF ShutdownCloses
  <2> QED
    BY <1>21, <2>1 DEF ShutdownCloses, DownOnly
<1>22. ASSUME NEW u \in Users, ShutdownKills(u) PROVE TypeOK'
  BY <1>22 DEF ShutdownKills, DownOnly
<1> QED
  BY <1>1, <1>2, <1>3, <1>4, <1>5, <1>6, <1>7, <1>8, <1>9, <1>10, <1>11, <1>12, <1>13,
     <1>14, <1>15, <1>16, <1>17, <1>18, <1>19, <1>20, <1>21, <1>22, <1>23
     DEF Next, Agent, CancelKills, Reader, Reaper, Turn, Shutdown

\* The processes, their streams and the program counters stay well typed.
THEOREM TypeCorrect == Spec => []TypeOK
<1>1. Init => TypeOK
  BY TypeInit
<1>2. TypeOK /\ [Next]_vars => TypeOK'
  BY TypeNext
<1> QED
  BY <1>1, <1>2, PTL DEF Spec

-----------------------------------------------------------------------------
\* sendMu and the two closers.

\* A reader that is about to send holds sendMu of a channel that is open.
OpenInv ==
  /\ \A t \in Users : reader[t] = "send" => ~closed[t]
  /\ ~panic

LEMMA CloseOnceOpens ==
  ASSUME TypeOK, OpenInv, NEW t, ~Held(t), CloseOnce(t), UNCHANGED reader
  PROVE  OpenInv'
<1>1. CASE closed[t]
  BY <1>1, Zenon DEF CloseOnce, chanVars, OpenInv
<1>2. CASE ~closed[t]
  <2>1. ~panic'
    BY <1>2, Zenon DEF CloseOnce, Close, OpenInv
  <2>2. closed' = [closed EXCEPT ![t] = TRUE] /\ reader[t] # "send"
    BY <1>2 DEF CloseOnce, Close, Held
  <2>3. \A x \in Users : reader'[x] = "send" => ~closed'[x]
    BY <2>2, Zenon DEF OpenInv, TypeOK
  <2> QED
    BY <2>1, <2>3 DEF OpenInv
<1> QED
  BY <1>1, <1>2

\* A step that lets nobody reach the select and closes nothing.
LEMMA OpenKept ==
  ASSUME TypeOK, OpenInv, UNCHANGED <<closed, panic>>,
         \A t \in Users : reader'[t] = "send" => reader[t] = "send" \/ ~closed[t]
  PROVE  OpenInv'
BY Zenon DEF OpenInv

LEMMA OpenNext == ASSUME TypeOK, OpenInv, [Next]_vars PROVE OpenInv'
<1> USE DEF procVars, readVars, chanVars, userVars, downVars
<1>1. CASE UNCHANGED vars
  BY <1>1, OpenKept DEF vars
<1>2. ASSUME NEW t \in Users, Agent(t) PROVE OpenInv'
  BY <1>2, OpenKept DEF Agent, AgentWrites, AgentReads, AgentExits, CancelKills
<1>3. ASSUME NEW t \in Users, Reader(t) PROVE OpenInv'
  <2>1. CASE Scan(t) \/ ScanFails(t) \/ ReaderEnds(t)
    BY <2>1, OpenKept DEF Scan, ScanFails, ReaderEnds, TypeOK
  <2>2. CASE EmitLock(t)
    <3>1. buf[t] # <<>>
      BY <2>2 DEF EmitLock, TypeOK
    <3>2. CASE closed[t]
      BY <2>2, <3>1, <3>2, AfterEmitMoves, OpenKept DEF EmitLock, Moved
    <3>3. CASE ~closed[t]
      BY <2>2, <3>3, OpenKept DEF EmitLock, TypeOK
    <3> QED
      BY <3>2, <3>3
  <2>3. CASE EmitSend(t)
    <3>1. buf[t] # <<>> /\ ~closed[t] /\ ~panic
      BY <2>3 DEF EmitSend, TypeOK, OpenInv
    <3>2. Moved(t) /\ UNCHANGED closed
      BY <2>3, <3>1, AfterEmitMoves DEF EmitSend
    <3>3. ~panic'
      BY <2>3, <3>1, Zenon DEF EmitSend
    <3> QED
      BY <3>1, <3>2, <3>3 DEF OpenInv, Moved
  <2>4. CASE ReplyLock(t)
    <3>1. buf[t] # <<>>
      BY <2>4 DEF ReplyLock, TypeOK
    <3>2. Moved(t) \/ reader' = [reader EXCEPT ![t] = "write"]
      BY <2>4, <3>1, NextFrameMoves DEF ReplyLock
    <3> QED
      BY <2>4, <3>2, OpenKept DEF ReplyLock, Moved, TypeOK
  <2>5. CASE ReplyWrite(t)
    <3>1. buf[t] # <<>>
      BY <2>5 DEF ReplyWrite, TypeOK
    <3>2. Moved(t)
      BY <2>5, <3>1, NextFrameMoves DEF ReplyWrite
    <3> QED
      BY <2>5, <3>2, OpenKept DEF ReplyWrite, Moved, TypeOK
  <2> QED
    BY <1>3, <2>1, <2>2, <2>3, <2>4, <2>5 DEF Reader
<1>4. ASSUME NEW t \in Users, Reaper(t) PROVE OpenInv'
  <2>1. CASE Wait(t)
    BY <2>1, OpenKept DEF Wait
  <2>2. CASE Reap(t)
    BY <2>2, CloseOnceOpens DEF Reap
  <2> QED
    BY <1>4, <2>1, <2>2 DEF Reaper
<1>5. ASSUME NEW u \in Users, Turn(u) \/ GiveUp(u) \/ LaunchFails(u) PROVE OpenInv'
  BY <1>5, OpenKept DEF Turn, Register, StreamEvents, ReadEvent, StreamCloses, Lookup, SendLock,
                        SendWrite, GiveUp, LaunchFails, UserOnly
<1>6. ASSUME NEW u \in Users, Launch(u) PROVE OpenInv'
  BY <1>6, OpenKept DEF Launch, TypeOK
<1>7. ASSUME NEW u \in Users, Shutdown(u) PROVE OpenInv'
  <2>1. CASE ShutdownCloses(u)
    BY <2>1, CloseOnceOpens DEF ShutdownCloses, DownOnly
  <2>2. CASE ShutdownLookup(u) \/ ShutdownKills(u) \/ ShutdownDeletes(u)
    BY <2>2, OpenKept DEF ShutdownLookup, ShutdownKills, ShutdownDeletes, DownOnly
  <2> QED
    BY <1>7, <2>1, <2>2 DEF Shutdown
<1> QED
  BY <1>1, <1>2, <1>3, <1>4, <1>5, <1>6, <1>7 DEF Next

\* However many goroutines close a thread and whenever, no event is sent on a
\* closed channel and no channel is closed twice.
THEOREM NeverPanics == Spec => []NoPanic
<1>1. Init => TypeOK /\ OpenInv
  BY TypeInit DEF Init, OpenInv
<1>2. TypeOK /\ OpenInv /\ [Next]_vars => TypeOK' /\ OpenInv'
  BY TypeNext, OpenNext
<1>3. OpenInv => NoPanic
  BY DEF OpenInv, NoPanic
<1> QED
  BY <1>1, <1>2, <1>3, PTL DEF Spec
-----------------------------------------------------------------------------
\* Whose turn is done.

\* The turn itself and the turns that run or ran at the same time.
Own(u) == {u} \cup met[u]

\* Turns that run know of each other; from the time a turn registers, the
\* registry holds its thread, or that of a turn it met, or nothing after a
\* Shutdown, and so do both lookups.
OwnInv ==
  /\ \A u, v \in Users : pc[u] \in Running /\ pc[v] \in Running => v \in Own(u)
  /\ \A u \in Users : pc[u] \in Running \ {"launched"} => registered \in Own(u) \cup {None}
  /\ \A u \in Users : pc[u] \in {"ready", "prompt", "lock", "write", "turn", "done"} => source[u] \in Own(u)
  /\ \A u \in Users : pc[u] \in {"lock", "write", "turn", "done"} => target[u] \in Own(u)

\* A step of a turn that runs to l.
LEMMA OwnMove ==
  ASSUME TypeOK, OwnInv, NEW u \in Users, pc[u] \in Running, UNCHANGED met,
         NEW l, pc' = [pc EXCEPT ![u] = l],
         registered' \in {registered, u},
         l \in Running \ {"launched"} => registered' \in Own(u) \cup {None},
         l \in {"ready", "prompt", "lock", "write", "turn", "done"} => source'[u] \in Own(u),
         l \in {"lock", "write", "turn", "done"} => target'[u] \in Own(u),
         \A x \in Users \ {u} : source'[x] = source[x] /\ target'[x] = target[x]
  PROVE  OwnInv'
<1>1. /\ pc'[u] = l
      /\ \A x \in Users \ {u} : pc'[x] = pc[x]
      /\ \A x \in Users : pc'[x] \in Running => pc[x] \in Running
  BY DEF TypeOK, OwnInv
<1>2. \A x, v \in Users : pc'[x] \in Running /\ pc'[v] \in Running => v \in Own(x)'
  BY <1>1 DEF OwnInv, Own
<1>3. ASSUME NEW x \in Users, pc'[x] \in Running \ {"launched"}
      PROVE  registered' \in Own(x)' \cup {None}
  <2>1. CASE x = u
    BY <1>1, <1>3, <2>1 DEF Own
  <2>2. CASE x # u
    <3>1. pc[x] \in Running \ {"launched"}
      BY <1>1, <1>3, <2>2
    <3>2. registered \in Own(x) \cup {None} /\ u \in Own(x)
      BY <3>1 DEF OwnInv
    <3> QED
      BY <3>2 DEF Own
  <2> QED
    BY <2>1, <2>2
<1>4. \A x \in Users : pc'[x] \in {"ready", "prompt", "lock", "write", "turn", "done"} => source'[x] \in Own(x)'
  BY <1>1 DEF OwnInv, Own
<1>5. \A x \in Users : pc'[x] \in {"lock", "write", "turn", "done"} => target'[x] \in Own(x)'
  BY <1>1 DEF OwnInv, Own
<1> QED
  BY <1>2, <1>3, <1>4, <1>5 DEF OwnInv

LEMMA OwnNext ==
  ASSUME TypeOK, OwnInv, [Next]_vars
  PROVE  OwnInv'
<1> USE OmpAssumption DEF procVars, readVars, chanVars, userVars, downVars
<1>1. ASSUME UNCHANGED <<registered, pc, source, target, met>> PROVE OwnInv'
  BY <1>1 DEF OwnInv, Own
<1>2. CASE UNCHANGED vars
  BY <1>1, <1>2 DEF vars
<1>3. ASSUME NEW t \in Users, Agent(t) \/ Reader(t) \/ Reaper(t) PROVE OwnInv'
  <2>1. CASE Agent(t)
    BY <1>1, <2>1 DEF Agent, AgentWrites, AgentReads, AgentExits, CancelKills
  <2>2. CASE Reader(t)
    BY <1>1, <2>2 DEF Reader, Scan, ScanFails, ReaderEnds, EmitLock, EmitSend, ReplyLock, ReplyWrite
  <2>3. CASE Reaper(t)
    BY <1>1, <2>3 DEF Reaper, Wait, Reap
  <2> QED
    BY <1>3, <2>1, <2>2, <2>3
<1>4. ASSUME NEW u \in Users, Shutdown(u) PROVE OwnInv'
  <2>1. CASE ShutdownDeletes(u)
    BY <2>1 DEF ShutdownDeletes, DownOnly, OwnInv, Own
  <2>2. CASE ShutdownLookup(u) \/ ShutdownCloses(u) \/ ShutdownKills(u)
    BY <1>1, <2>2 DEF ShutdownLookup, ShutdownCloses, ShutdownKills, DownOnly
  <2> QED
    BY <1>4, <2>1, <2>2 DEF Shutdown
<1>5. ASSUME NEW u \in Users, Launch(u) PROVE OwnInv'
  <2> DEFINE others == {v \in Users : pc[v] \in Running}
  <2>1. /\ pc[u] = "idle" /\ pc' = [pc EXCEPT ![u] = "launched"]
        /\ UNCHANGED <<registered, source, target>>
        /\ met' = [v \in Users |-> IF v = u THEN others
                                  ELSE IF v \in others THEN met[v] \cup {u} ELSE met[v]]
    BY <1>5 DEF Launch, Goto
  <2>2. u \notin others
    BY <2>1 DEF Running
  <2>3. /\ pc'[u] = "launched" /\ Own(u)' = {u} \cup others
        /\ \A x \in Users \ {u} : pc'[x] = pc[x] /\ Own(x) \subseteq Own(x)'
        /\ \A x \in others : u \in Own(x)'
    BY <2>1, <2>2, Zenon DEF Own, TypeOK
  <2>4. \A x, v \in Users : pc'[x] \in Running /\ pc'[v] \in Running => v \in Own(x)'
    BY <2>3 DEF OwnInv
  <2>5. \A x \in Users : pc'[x] \in Running \ {"launched"} => registered' \in Own(x)' \cup {None}
    BY <2>1, <2>3 DEF OwnInv
  <2>6. \A x \in Users :
          /\ pc'[x] \in {"ready", "prompt", "lock", "write", "turn", "done"} => source'[x] \in Own(x)'
          /\ pc'[x] \in {"lock", "write", "turn", "done"} => target'[x] \in Own(x)'
    BY <2>1, <2>3 DEF OwnInv
  <2> QED
    BY <2>4, <2>5, <2>6 DEF OwnInv
<1>6. ASSUME NEW u \in Users, LaunchFails(u) PROVE OwnInv'
  BY <1>6 DEF LaunchFails, OwnInv, Own, TypeOK, Running, Goto, UserOnly
<1>7. ASSUME NEW u \in Users, GiveUp(u) \/ StreamCloses(u) PROVE OwnInv'
  <2>1. /\ pc' = [pc EXCEPT ![u] = "left"] /\ UNCHANGED <<registered, source, target, met>>
        /\ pc[u] \in Running
    BY <1>7 DEF GiveUp, StreamCloses, Goto, Waiting, Running, UserOnly
  <2> QED
    BY <2>1, OwnMove DEF Running
<1>8. ASSUME NEW u \in Users, Register(u) PROVE OwnInv'
  <2>1. /\ pc' = [pc EXCEPT ![u] = "start"] /\ registered' = u /\ UNCHANGED <<source, target, met>>
        /\ pc[u] \in Running
    BY <1>8 DEF Register, Goto, Running, UserOnly
  <2> QED
    BY <2>1, OwnMove DEF Own
<1>9. ASSUME NEW u \in Users, StreamEvents(u) PROVE OwnInv'
  <2> DEFINE l == IF registered = None THEN "left" ELSE "ready"
  <2>1. /\ pc' = [pc EXCEPT ![u] = l] /\ UNCHANGED <<registered, target, met>>
        /\ source' = [source EXCEPT ![u] = registered] /\ pc[u] \in Running \ {"launched"}
    BY <1>9 DEF StreamEvents, Goto, Running, UserOnly
  <2>2. registered \in Own(u) \cup {None} /\ (l = "ready" => registered \in Own(u))
    BY <2>1 DEF OwnInv
  <2>3. l \in {"left", "ready"} /\ "left" \notin Running
    BY DEF Running
  <2>4. l \in {"ready", "prompt", "lock", "write", "turn", "done"} => source'[u] \in Own(u)
    BY <2>1, <2>2, <2>3 DEF TypeOK
  <2>5. l \notin {"lock", "write", "turn", "done"}
    BY <2>3
  <2>6. \A x \in Users \ {u} : source'[x] = source[x] /\ target'[x] = target[x]
    BY <2>1 DEF TypeOK
  <2> HIDE DEF l
  <2> QED
    BY <2>1, <2>2, <2>4, <2>5, <2>6, OwnMove
<1>10. ASSUME NEW u \in Users, ReadEvent(u) PROVE OwnInv'
  <2>1. PICK e : pc' = [pc EXCEPT ![u] = AfterEvent(pc[u], e)]
    BY <1>10 DEF ReadEvent, Goto
  <2>2. /\ UNCHANGED <<registered, source, target, met>>
        /\ pc[u] \in Waiting
    BY <1>10 DEF ReadEvent
  <2>3. pc[u] \in Running \ {"launched"} /\ registered \in Own(u) \cup {None} /\ source[u] \in Own(u)
    BY <2>2 DEF Waiting, Running, OwnInv
  <2>4. pc[u] = "turn" => target[u] \in Own(u)
    BY DEF OwnInv
  <2>5. AfterEvent(pc[u], e) \in {"lock", "write", "turn", "done"} => target'[u] \in Own(u)
    BY <2>2, <2>4 DEF Waiting, AfterEvent
  <2> QED
    BY <2>1, <2>2, <2>3, <2>5, OwnMove
<1>11. ASSUME NEW u \in Users, Lookup(u) PROVE OwnInv'
  <2> DEFINE l == IF registered = None THEN "left" ELSE "lock"
  <2>1. /\ pc' = [pc EXCEPT ![u] = l] /\ UNCHANGED <<registered, source, met>>
        /\ target' = [target EXCEPT ![u] = registered]
        /\ pc[u] \in Running \ {"launched"} /\ source[u] \in Own(u)
    BY <1>11 DEF Lookup, Goto, Running, OwnInv, UserOnly
  <2>2. registered \in Own(u) \cup {None} /\ (l = "lock" => registered \in Own(u))
    BY <2>1 DEF OwnInv
  <2>3. l \in {"left", "lock"}
    OBVIOUS
  <2>4. l \in {"lock", "write", "turn", "done"} => target'[u] \in Own(u)
    BY <2>1, <2>2, <2>3 DEF TypeOK
  <2>5. \A x \in Users \ {u} : source'[x] = source[x] /\ target'[x] = target[x]
    BY <2>1 DEF TypeOK
  <2> HIDE DEF l
  <2> QED
    BY <2>1, <2>2, <2>4, <2>5, OwnMove
<1>12. ASSUME NEW u \in Users, SendLock(u) \/ SendWrite(u) PROVE OwnInv'
  <2>1. PICK l : pc' = [pc EXCEPT ![u] = l]
    BY <1>12 DEF SendLock, SendWrite, Goto
  <2>2. pc[u] \in {"lock", "write"} /\ UNCHANGED <<registered, source, target, met>>
    BY <1>12 DEF SendLock, SendWrite, UserOnly
  <2>3. pc[u] \in Running \ {"launched"} 
        /\ registered \in Own(u) \cup {None} /\ source[u] \in Own(u) /\ target[u] \in Own(u)
    BY <2>2 DEF OwnInv, Running
  <2> QED
    BY <2>1, <2>2, <2>3, OwnMove
<1> QED
  BY <1>2, <1>3, <1>4, <1>5, <1>6, <1>7, <1>8, <1>9, <1>10, <1>11, <1>12 DEF Next, Turn

\* For any number of turns of a thread, launched one after the other or over one
\* another, and any calls of Shutdown between them, a turn is done only by an end
\* of its own process or of a turn that ran at the same time.
THEOREM TurnIsOwn == Spec => []CompletionIsOwn
<1>1. Init => TypeOK /\ OwnInv
  BY TypeInit DEF Init, OwnInv, Running
<1>2. TypeOK /\ OwnInv /\ [Next]_vars => TypeOK' /\ OwnInv'
  BY TypeNext, OwnNext
<1>3. OwnInv => CompletionIsOwn
  BY DEF OwnInv, Own, CompletionIsOwn
<1> QED
  BY <1>1, <1>2, <1>3, PTL DEF Spec

-----------------------------------------------------------------------------
\* Where the frames of a process are.

\* How many of the frames written have left the scanner.
Handled(t) == IF reader[t] \in {"reply", "write"} THEN Len(sent[t]) - 1 ELSE Len(sent[t])

\* While the stream is open and read, the frames in the scanner follow those that
\* were sent, and those in the pipe follow them; what follows those was lost in the
\* pipe when the process was reaped.
InOrder(t) ==
  /\ reader[t] \in {"reply", "write"} => Len(sent[t]) > 0
  /\ Handled(t) + Len(buf[t]) + Len(stdout[t]) <= Len(written[t])
  /\ reaper[t] \in {"none", "wait"} => Handled(t) + Len(buf[t]) + Len(stdout[t]) = Len(written[t])
  /\ \A i \in 1 .. Len(buf[t]) : buf[t][i] = written[t][Handled(t) + i]
  /\ \A i \in 1 .. Len(stdout[t]) : stdout[t][i] = written[t][Handled(t) + Len(buf[t]) + i]

Begins(s, w) == Len(s) <= Len(w) /\ \A i \in 1 .. Len(s) : s[i] = w[i]

Stream(t) ==
  /\ pc[t] = "idle" => reader[t] = "none" /\ reaper[t] = "none"
  /\ proc[t] = "alive" => reaper[t] = "wait"
  /\ reader[t] \in {"none", "scan", "gone"} => buf[t] = <<>>
  /\ Begins(sent[t], written[t])
  /\ ~closed[t] /\ reader[t] # "gone" => InOrder(t)

StreamInv == \A t \in Users : Stream(t)

LEMMA StreamInit == ASSUME Init PROVE StreamInv
<1> SUFFICES ASSUME NEW t \in Users PROVE Stream(t)
  BY DEF StreamInv
<1>1. /\ pc[t] = "idle" /\ reader[t] = "none" /\ reaper[t] = "none" /\ proc[t] = "none"
      /\ buf[t] = <<>> /\ stdout[t] = <<>> /\ sent[t] = <<>> /\ written[t] = <<>>
  BY DEF Init
<1>2. Len(buf[t]) = 0 /\ Len(stdout[t]) = 0 /\ Len(sent[t]) = 0 /\ Len(written[t]) = 0
  BY <1>1, EmptySeq
<1> QED
  BY <1>1, <1>2 DEF Stream, InOrder, Handled, Begins

\* What a step leaves alone at a process keeps its stream.
LEMMA StreamFrame ==
  ASSUME NEW t, Stream(t),
         pc'[t] = "idle" => pc[t] = "idle",
         proc'[t] = "alive" => proc[t] = "alive",
         reader'[t] = reader[t], reaper'[t] = reaper[t], buf'[t] = buf[t],
         stdout'[t] = stdout[t], sent'[t] = sent[t], written'[t] = written[t],
         closed[t] => closed'[t]
  PROVE  Stream(t)'
BY ZenonT(60) DEF Stream, InOrder, Handled, Begins

\* The lengths and the elements of the pieces of a frame sequence.
LEMMA Indices ==
  ASSUME NEW s \in Seq(Frames)
  PROVE  /\ Len(s) \in Nat
         /\ \A f \in Frames :
              /\ Len(Append(s, f)) = Len(s) + 1
              /\ \A i \in 1 .. Len(s) : Append(s, f)[i] = s[i]
              /\ Append(s, f)[Len(s) + 1] = f
         /\ s # <<>> => /\ Len(s) > 0
                        /\ Head(s) = s[1] /\ Head(s) \in Frames
                        /\ Len(Tail(s)) = Len(s) - 1
                        /\ \A i \in 1 .. Len(s) - 1 : Tail(s)[i] = s[i + 1]
         /\ Len(s) = 0 => s = <<>>
<1>1. Len(s) \in Nat /\ (Len(s) = 0 => s = <<>>) /\ (s # <<>> => Len(s) > 0)
  BY EmptySeq, LenProperties
<1>2. ASSUME NEW f \in Frames
      PROVE  /\ Len(Append(s, f)) = Len(s) + 1
             /\ \A i \in 1 .. Len(s) : Append(s, f)[i] = s[i]
             /\ Append(s, f)[Len(s) + 1] = f
  BY AppendProperties
<1>3. ASSUME s # <<>>
      PROVE  /\ Head(s) = s[1] /\ Head(s) \in Frames
             /\ Len(Tail(s)) = Len(s) - 1
             /\ \A i \in 1 .. Len(s) - 1 : Tail(s)[i] = s[i + 1]
  <2>1. /\ Head(s) \in Frames /\ Len(Tail(s)) = Len(s) - 1
        /\ \A i \in 1 .. Len(Tail(s)) : Tail(s)[i] = s[i + 1]
    BY <1>3, HeadTailProperties
  <2>2. Head(s) = s[1]
    BY <1>3
  <2> QED
    BY <2>1, <2>2
<1> QED
  BY <1>1, <1>2, <1>3

\* The head of the buffer is frame number k.
HeadSent(t, k) ==
  /\ k + Len(buf[t]) + Len(stdout[t]) <= Len(written[t]) + 1
  /\ reaper[t] \in {"none", "wait"} => k + Len(buf[t]) + Len(stdout[t]) = Len(written[t]) + 1
  /\ \A i \in 1 .. Len(buf[t]) : buf[t][i] = written[t][k - 1 + i]
  /\ \A i \in 1 .. Len(stdout[t]) : stdout[t][i] = written[t][k - 1 + Len(buf[t]) + i]

\* The reader is through with the frame that it sent.
LEMMA NextFrameStream ==
  ASSUME TypeOK, NEW t \in Users, buf[t] # <<>>, NextFrame(t),
         Begins(sent'[t], written[t]), UNCHANGED <<pc, proc, reaper, stdout, written>>,
         pc[t] # "idle", proc[t] = "alive" => reaper[t] = "wait",
         Len(sent'[t]) \in Nat, ~closed'[t] => HeadSent(t, Len(sent'[t]))
  PROVE  Stream(t)'
<1>1. /\ buf'[t] = Tail(buf[t])
      /\ reader'[t] = IF Len(buf[t]) > 1 THEN "emit" ELSE "scan"
  BY DEF NextFrame, TypeOK
<1>2. /\ Len(buf[t]) \in Nat /\ Len(buf[t]) > 0 /\ Len(buf'[t]) = Len(buf[t]) - 1
      /\ \A i \in 1 .. Len(buf[t]) - 1 : buf'[t][i] = buf[t][i + 1]
  BY <1>1, Indices DEF TypeOK
<1>3. Tail(buf[t]) \in Seq(Frames)
  BY Pieces DEF TypeOK
<1>4. reader'[t] \in {"scan", "emit"} /\ (reader'[t] = "scan" => buf'[t] = <<>>)
  BY <1>1, <1>2, <1>3, Indices
<1>5. Len(stdout[t]) \in Nat /\ Len(written[t]) \in Nat
  BY Indices DEF TypeOK
<1>6. Handled(t)' = Len(sent'[t])
  BY <1>4 DEF Handled
<1>7. ASSUME ~closed'[t] PROVE InOrder(t)'
  <2> DEFINE n == Len(sent'[t])
             b == Len(buf[t])
             o == Len(stdout[t])
             w == Len(written[t])
  <2>1. n \in Nat /\ b \in Nat /\ o \in Nat /\ w \in Nat /\ Len(buf'[t]) = b - 1
    BY <1>2, <1>5
  <2>2. /\ n + b + o <= w + 1
        /\ reaper[t] \in {"none", "wait"} => n + b + o = w + 1
        /\ \A i \in 1 .. b : buf[t][i] = written[t][n - 1 + i]
        /\ \A i \in 1 .. o : stdout[t][i] = written[t][n - 1 + b + i]
        /\ \A i \in 1 .. b - 1 : buf'[t][i] = buf[t][i + 1]
    BY <1>2, <1>7 DEF HeadSent
  <2>3. /\ n + (b - 1) + o <= w
        /\ reaper[t] \in {"none", "wait"} => n + (b - 1) + o = w
        /\ \A i \in 1 .. b - 1 : buf'[t][i] = written[t][n + i]
        /\ \A i \in 1 .. o : stdout[t][i] = written[t][n + (b - 1) + i]
    <3> HIDE DEF n, b, o, w
    <3>1. /\ n + (b - 1) + o <= w
          /\ reaper[t] \in {"none", "wait"} => n + (b - 1) + o = w
      <4>1. n \in Nat /\ b \in Nat /\ o \in Nat /\ w \in Nat
        BY <2>1
      <4>2. n + b + o <= w + 1 => n + (b - 1) + o <= w
        BY <4>1
      <4>3. n + b + o = w + 1 => n + (b - 1) + o = w
        BY <4>1
      <4> QED
        BY <2>2, <4>2, <4>3, Zenon
    <3>2. ASSUME NEW i \in 1 .. b - 1 PROVE buf'[t][i] = written[t][n + i]
      <4>1. i + 1 \in 1 .. b /\ n - 1 + (i + 1) = n + i
        BY <2>1
      <4> QED
        BY <2>2, <4>1
    <3>3. ASSUME NEW i \in 1 .. o PROVE stdout[t][i] = written[t][n + (b - 1) + i]
      <4>1. n - 1 + b + i = n + (b - 1) + i
        BY <2>1
      <4> QED
        BY <2>2, <4>1
    <3> QED
      BY <3>1, <3>2, <3>3
  <2> QED
    BY <1>4, <1>6, <2>1, <2>3 DEF InOrder
<1> QED
  BY <1>4, <1>7 DEF Stream

\* From a process's own stream to the streams of all.
LEMMA StreamOne ==
  ASSUME StreamInv, NEW t \in Users, Stream(t)',
         \A x \in Users \ {t} :
           /\ pc'[x] = "idle" => pc[x] = "idle"
           /\ proc'[x] = "alive" => proc[x] = "alive"
           /\ reader'[x] = reader[x] /\ reaper'[x] = reaper[x] /\ buf'[x] = buf[x]
           /\ stdout'[x] = stdout[x] /\ sent'[x] = sent[x] /\ written'[x] = written[x]
           /\ closed[x] => closed'[x]
  PROVE  StreamInv'
<1> SUFFICES ASSUME NEW x \in Users, x # t PROVE Stream(x)'
  BY DEF StreamInv
<1> QED
  BY StreamFrame DEF StreamInv

LEMMA StreamSame ==
  ASSUME StreamInv, UNCHANGED <<readVars, reaper, stdout, sent, written>>,
         \A x \in Users : /\ pc'[x] = "idle" => pc[x] = "idle"
                          /\ proc'[x] = "alive" => proc[x] = "alive"
                          /\ closed[x] => closed'[x]
  PROVE  StreamInv'
<1> SUFFICES ASSUME NEW x \in Users PROVE Stream(x)'
  BY DEF StreamInv
<1> QED
  BY StreamFrame DEF StreamInv, readVars

LEMMA AgentStream ==
  ASSUME TypeOK, StreamInv, NEW t \in Users, NEW f \in Frames, AgentWrites(t, f)
  PROVE  StreamInv'
<1> DEFINE n == Handled(t)
           b == Len(buf[t])
           o == Len(stdout[t])
           w == Len(written[t])
<1>1. /\ written' = [written EXCEPT ![t] = Append(@, f)]
      /\ stdout' = [stdout EXCEPT ![t] = Append(@, f)]
      /\ proc[t] = "alive"
      /\ UNCHANGED <<proc, readVars, reaper, chanVars, userVars>>
  BY DEF AgentWrites
<1>2. /\ reaper[t] = "wait" /\ Begins(sent[t], written[t])
      /\ ~closed[t] /\ reader[t] # "gone" => InOrder(t)
      /\ reader[t] \in {"none", "scan", "gone"} => buf[t] = <<>>
      /\ pc[t] = "idle" => reader[t] = "none" /\ reaper[t] = "none"
  BY <1>1 DEF StreamInv, Stream
<1>3. /\ w \in Nat /\ o \in Nat /\ b \in Nat /\ Len(sent[t]) \in Nat
      /\ written'[t] = Append(written[t], f) /\ stdout'[t] = Append(stdout[t], f)
      /\ Len(written'[t]) = w + 1 /\ Len(stdout'[t]) = o + 1
      /\ \A i \in 1 .. w : written'[t][i] = written[t][i]
      /\ written'[t][w + 1] = f
      /\ \A i \in 1 .. o : stdout'[t][i] = stdout[t][i]
      /\ stdout'[t][o + 1] = f
  BY <1>1, Indices DEF TypeOK
<1>4. Begins(sent[t], written'[t])
  BY <1>2, <1>3 DEF Begins
<1>5. ASSUME ~closed[t], reader[t] # "gone" PROVE InOrder(t)'
  <2>1. /\ reader[t] \in {"reply", "write"} => Len(sent[t]) > 0
        /\ n + b + o = w
        /\ \A i \in 1 .. b : buf[t][i] = written[t][n + i]
        /\ \A i \in 1 .. o : stdout[t][i] = written[t][n + b + i]
    BY <1>2, <1>5 DEF InOrder
  <2>2. n \in Nat
    BY <1>3, <2>1 DEF Handled
  <2>3. Handled(t)' = n /\ buf'[t] = buf[t] /\ reader'[t] = reader[t] /\ sent'[t] = sent[t]
    BY <1>1 DEF Handled, readVars, chanVars
  <2>4. n + b + (o + 1) = w + 1
    <3> HIDE DEF n, b, o, w
    <3>1. n + b + o = w => n + b + (o + 1) = w + 1
      BY <1>3, <2>2
    <3> QED
      BY <2>1, <3>1, Zenon
  <2>5. ASSUME NEW i \in 1 .. b PROVE buf[t][i] = written'[t][n + i]
    <3>1. n + i \in 1 .. w
      BY SMTT(30), <1>3, <2>1, <2>2
    <3> QED
      BY <1>3, <2>1, <3>1
  <2>6. ASSUME NEW i \in 1 .. o + 1 PROVE stdout'[t][i] = written'[t][n + b + i]
    <3>1. CASE i = o + 1
      <4>1. n + b + i = w + 1
        BY <2>4, <3>1
      <4> QED
        BY <1>3, <3>1, <4>1
    <3>2. CASE i # o + 1
      <4> HIDE DEF n, b, o, w
      <4>1. i \in 1 .. o
        BY <1>3, <3>2
      <4>2. n + b + i \in 1 .. w
        <5>1. n + b + o = w
          BY <2>1
        <5> QED
          BY <1>3, <2>2, <4>1, <5>1
      <4> QED
        BY <1>3, <2>1, <4>1, <4>2
    <3> QED
      BY <3>1, <3>2
  <2>7. n + b + (o + 1) <= w + 1
    BY <1>3, <2>2, <2>4
  <2> HIDE DEF n, b, o, w
  <2>8. /\ Handled(t)' + Len(buf'[t]) + Len(stdout'[t]) = Len(written'[t])
        /\ Handled(t)' + Len(buf'[t]) + Len(stdout'[t]) <= Len(written'[t])
        /\ \A i \in 1 .. Len(buf'[t]) : buf'[t][i] = written'[t][Handled(t)' + i]
        /\ \A i \in 1 .. Len(stdout'[t]) : stdout'[t][i] = written'[t][Handled(t)' + Len(buf'[t]) + i]
    BY <1>3, <2>3, <2>4, <2>5, <2>6, <2>7 DEF b
  <2> QED
    BY <2>1, <2>3, <2>8 DEF InOrder
<1>6. Stream(t)'
  BY <1>1, <1>2, <1>4, <1>5 DEF Stream, readVars, chanVars, userVars
<1> QED
  BY <1>1, <1>6, StreamOne DEF TypeOK, readVars, chanVars, userVars

LEMMA ScanStream ==
  ASSUME TypeOK, StreamInv, NEW t \in Users, Scan(t)
  PROVE  StreamInv'
<1>1. /\ buf' = [buf EXCEPT ![t] = stdout[t]] /\ stdout' = [stdout EXCEPT ![t] = <<>>]
      /\ reader' = [reader EXCEPT ![t] = "emit"] /\ reader[t] = "scan"
      /\ UNCHANGED <<proc, written, reaper, chanVars, userVars>>
  BY DEF Scan
<1>2. /\ buf'[t] = stdout[t] /\ stdout'[t] = <<>> /\ reader'[t] = "emit"
      /\ buf[t] = <<>> /\ Len(buf[t]) = 0 /\ Len(stdout'[t]) = 0 /\ Len(stdout[t]) \in Nat
      /\ Len(sent[t]) \in Nat /\ Len(written[t]) \in Nat
  BY <1>1, EmptySeq, Indices DEF TypeOK, StreamInv, Stream
<1>3. ASSUME ~closed[t] PROVE InOrder(t)'
  <2> DEFINE n == Len(sent[t])
             o == Len(stdout[t])
             w == Len(written[t])
  <2>1. /\ Handled(t) = n /\ Handled(t)' = n /\ written'[t] = written[t] /\ reaper'[t] = reaper[t]
        /\ InOrder(t)
    BY <1>1, <1>2, <1>3 DEF StreamInv, Stream, Handled, chanVars
  <2>2. /\ n + 0 + o <= w
        /\ reaper[t] \in {"none", "wait"} => n + 0 + o = w
        /\ \A i \in 1 .. o : stdout[t][i] = written[t][n + 0 + i]
    BY <1>2, <2>1 DEF InOrder
  <2>3. /\ n + o + 0 <= w
        /\ reaper[t] \in {"none", "wait"} => n + o + 0 = w
        /\ \A i \in 1 .. o : stdout[t][i] = written[t][n + i]
    <3>1. n \in Nat /\ o \in Nat
      BY <1>2
    <3> HIDE DEF n, o, w
    <3>2. n + o + 0 = n + 0 + o /\ \A i \in 1 .. o : n + 0 + i = n + i
      BY <3>1
    <3> QED
      BY <2>2, <3>2
  <2>4. \A i \in 1 .. 0 : stdout'[t][i] = written[t][n + o + i]
    OBVIOUS
  <2> QED
    BY <1>2, <2>1, <2>3, <2>4 DEF InOrder
<1>4. Stream(t)'
  BY <1>1, <1>2, <1>3 DEF StreamInv, Stream, chanVars, userVars
<1> QED
  BY <1>1, <1>4, StreamOne DEF TypeOK, chanVars, userVars

LEMMA WaitStream ==
  ASSUME TypeOK, StreamInv, NEW t \in Users, Wait(t)
  PROVE  StreamInv'
<1>1. /\ stdout' = [stdout EXCEPT ![t] = <<>>] /\ reaper' = [reaper EXCEPT ![t] = "lock"]
      /\ proc[t] = "dead" /\ reaper[t] = "wait"
      /\ UNCHANGED <<proc, written, readVars, chanVars, userVars>>
  BY DEF Wait
<1>2. /\ stdout'[t] = <<>> /\ reaper'[t] = "lock" /\ Len(stdout'[t]) = 0
      /\ Len(stdout[t]) \in Nat /\ Len(buf[t]) \in Nat /\ Len(sent[t]) \in Nat /\ Len(written[t]) \in Nat
  BY <1>1, EmptySeq, Indices DEF TypeOK
<1>3. ASSUME ~closed[t], reader[t] # "gone" PROVE InOrder(t)'
  <2> DEFINE n == Handled(t)
             b == Len(buf[t])
             w == Len(written[t])
  <2>1. /\ Handled(t)' = n /\ written'[t] = written[t] /\ buf'[t] = buf[t] /\ reader'[t] = reader[t]
        /\ InOrder(t) /\ sent'[t] = sent[t]
    BY <1>1, <1>3 DEF StreamInv, Stream, Handled, readVars, chanVars
  <2>2. n \in Nat
    BY <1>2, <2>1 DEF Handled, InOrder
  <2>3. n + b + Len(stdout[t]) <= w
    BY <2>1 DEF InOrder
  <2>4. n + b + 0 <= w
    <3> HIDE DEF n, b, w
    <3> QED
      BY <1>2, <2>2, <2>3 DEF b, w
  <2>5. \A i \in 1 .. 0 : stdout'[t][i] = written[t][n + b + i]
    OBVIOUS
  <2>6. reaper'[t] \notin {"none", "wait"}
    BY <1>2
  <2> QED
    BY <1>2, <2>1, <2>4, <2>5, <2>6 DEF InOrder
<1>4. Stream(t)'
  BY <1>1, <1>2, <1>3 DEF StreamInv, Stream, readVars, chanVars, userVars
<1> QED
  BY <1>1, <1>4, StreamOne DEF TypeOK, readVars, chanVars, userVars

LEMMA EmitLockStream ==
  ASSUME TypeOK, StreamInv, NEW t \in Users, EmitLock(t)
  PROVE  StreamInv'
<1>1. /\ buf[t] # <<>> /\ reader[t] = "emit" /\ Stream(t) /\ pc[t] # "idle"
      /\ UNCHANGED <<pc, proc, stdout, written, reaper, sent, closed>>
  BY DEF EmitLock, TypeOK, StreamInv, Stream, procVars, chanVars, userVars
<1>2. CASE closed[t]
  <2>1. Moved(t)
    BY <1>1, <1>2, AfterEmitMoves DEF EmitLock
  <2>2. reader'[t] = "scan" => buf'[t] = <<>>
    <3>1. CASE Answered(Head(buf[t]))
      BY <1>2, <3>1 DEF EmitLock, AfterEmit, TypeOK
    <3>2. CASE ~Answered(Head(buf[t]))
      <4>1. NextFrame(t)
        BY <1>2, <3>2 DEF EmitLock, AfterEmit
      <4>2. Len(buf[t]) \in Nat /\ Len(buf[t]) > 0 /\ Len(Tail(buf[t])) = Len(buf[t]) - 1
        BY <1>1, Indices DEF TypeOK
      <4>3. Tail(buf[t]) \in Seq(Frames)
        BY <1>1, Pieces DEF TypeOK
      <4>4. Len(buf[t]) <= 1 => Tail(buf[t]) = <<>>
        BY <4>2, <4>3, Indices
      <4> QED
        BY <4>1, <4>4 DEF NextFrame, TypeOK
    <3> QED
      BY <3>1, <3>2
  <2>3. Stream(t)'
    BY <1>1, <1>2, <2>1, <2>2 DEF Stream, Moved
  <2> QED
    BY <1>1, <2>1, <2>3, StreamOne DEF Moved
<1>3. CASE ~closed[t]
  <2>1. reader' = [reader EXCEPT ![t] = "send"] /\ UNCHANGED buf
    BY <1>3 DEF EmitLock
  <2>2. Handled(t)' = Handled(t) /\ reader'[t] = "send"
    BY <1>1, <2>1 DEF Handled, TypeOK
  <2>3. Stream(t)'
    BY <1>1, <2>1, <2>2 DEF Stream, InOrder
  <2> QED
    BY <1>1, <2>1, <2>3, StreamOne DEF TypeOK
<1> QED
  BY <1>2, <1>3

LEMMA EmitSendStream ==
  ASSUME TypeOK, OpenInv, StreamInv, NEW t \in Users, EmitSend(t)
  PROVE  StreamInv'
<1> DEFINE n == Len(sent[t])
           b == Len(buf[t])
           o == Len(stdout[t])
           w == Len(written[t])
           e == Head(buf[t])
<1>1. /\ buf[t] # <<>> /\ reader[t] = "send" /\ Stream(t) /\ pc[t] # "idle" /\ ~closed[t]
      /\ UNCHANGED <<pc, proc, stdout, written, reaper, closed>>
      /\ sent' = [sent EXCEPT ![t] = Append(@, e)]
  BY DEF EmitSend, TypeOK, OpenInv, StreamInv, Stream, procVars, userVars
<1>2. /\ n \in Nat /\ b \in Nat /\ b > 0 /\ o \in Nat /\ w \in Nat
      /\ e = buf[t][1] /\ e \in Frames
      /\ sent'[t] = Append(sent[t], e) /\ Len(sent'[t]) = n + 1
      /\ \A i \in 1 .. n : sent'[t][i] = sent[t][i]
      /\ sent'[t][n + 1] = e
  BY <1>1, Indices DEF TypeOK
<1>3. /\ InOrder(t) /\ Handled(t) = n /\ Begins(sent[t], written[t])
      /\ proc[t] = "alive" => reaper[t] = "wait"
  BY <1>1 DEF Stream, Handled
<1>4. /\ n + b + o <= w
      /\ reaper[t] \in {"none", "wait"} => n + b + o = w
      /\ \A i \in 1 .. b : buf[t][i] = written[t][n + i]
      /\ \A i \in 1 .. o : stdout[t][i] = written[t][n + b + i]
      /\ \A i \in 1 .. n : sent[t][i] = written[t][i]
  BY <1>3 DEF InOrder, Begins
<1>5. e = written[t][n + 1] /\ n + 1 <= w
  <2> HIDE DEF n, b, o, w
  <2>1. 1 \in 1 .. b
    BY <1>2
  <2>2. n + b + o <= w => n + 1 <= w
    BY <1>2
  <2> HIDE DEF e
  <2> QED
    BY <1>2, <1>4, <2>1, <2>2
<1>6. Begins(sent'[t], written[t])
  <2> HIDE DEF n, e
  <2>1. \A i \in 1 .. n + 1 : i = n + 1 \/ i \in 1 .. n
    BY <1>2
  <2>2. \A i \in 1 .. n + 1 : sent'[t][i] = written[t][i]
    BY <1>2, <1>4, <1>5, <2>1
  <2> QED
    BY <1>2, <1>5, <2>2 DEF Begins
<1>7. HeadSent(t, n + 1)
  <2> HIDE DEF n, b, o, w, e
  <2>1. n + b + o <= w => n + 1 + b + o <= w + 1
    BY <1>2
  <2>2. n + b + o = w => n + 1 + b + o = w + 1
    BY <1>2
  <2>3. \A i \in 1 .. b : (n + 1) - 1 + i = n + i
    BY <1>2
  <2>4. \A i \in 1 .. o : (n + 1) - 1 + b + i = n + b + i
    BY <1>2
  <2>5. /\ n + 1 + b + o <= w + 1
        /\ reaper[t] \in {"none", "wait"} => n + 1 + b + o = w + 1
    BY <1>4, <2>1, <2>2, Zenon
  <2>6. /\ \A i \in 1 .. b : buf[t][i] = written[t][(n + 1) - 1 + i]
        /\ \A i \in 1 .. o : stdout[t][i] = written[t][(n + 1) - 1 + b + i]
    BY <1>4, <2>3, <2>4, Zenon
  <2> QED
    BY <2>5, <2>6, Zenon DEF HeadSent, b, o, w
<1>8. AfterEmit(t)
  BY DEF EmitSend
<1>9. Moved(t)
  BY <1>1, <1>8, AfterEmitMoves
<1>10. Stream(t)'
  <2>1. CASE Answered(e)
    <3>1. reader'[t] = "reply" /\ buf'[t] = buf[t]
      BY <1>8, <2>1 DEF AfterEmit, TypeOK
    <3>2. Handled(t)' = n
      <4>1. n + 1 - 1 = n
        BY <1>2
      <4> QED
        BY <1>2, <3>1, <4>1 DEF Handled
    <3>3. InOrder(t)'
      <4>1. /\ Len(buf'[t]) = b /\ Len(stdout'[t]) = o /\ Len(written'[t]) = w
            /\ buf'[t] = buf[t] /\ stdout'[t] = stdout[t] /\ written'[t] = written[t]
            /\ reaper'[t] = reaper[t]
        BY <1>1, <3>1
      <4>2. Len(sent'[t]) > 0
        BY <1>2
      <4> HIDE DEF n, b, o, w
      <4> QED
        BY <1>4, <3>2, <4>1, <4>2 DEF InOrder
    <3> QED
      BY <1>1, <1>3, <1>6, <3>1, <3>3 DEF Stream
  <2>2. CASE ~Answered(e)
    <3>1. NextFrame(t)
      BY <1>8, <2>2 DEF AfterEmit
    <3>2. Len(sent'[t]) \in Nat /\ Len(sent'[t]) = n + 1
      BY <1>2
    <3> QED
      BY <1>1, <1>3, <1>6, <1>7, <3>1, <3>2, NextFrameStream
  <2> QED
    BY <2>1, <2>2
<1> QED
  BY <1>1, <1>9, <1>10, StreamOne DEF Moved, TypeOK

LEMMA ReplyLockStream ==
  ASSUME TypeOK, StreamInv, NEW t \in Users, ReplyLock(t)
  PROVE  StreamInv'
<1>1. /\ buf[t] # <<>> /\ reader[t] = "reply" /\ Stream(t) /\ pc[t] # "idle"
      /\ UNCHANGED <<pc, proc, stdout, written, reaper, sent, closed>>
      /\ Len(sent[t]) \in Nat /\ Begins(sent[t], written[t])
      /\ proc[t] = "alive" => reaper[t] = "wait"
  BY Indices DEF ReplyLock, TypeOK, StreamInv, Stream, procVars, chanVars, userVars
<1>2. CASE closed[t]
  <2>1. NextFrame(t)
    BY <1>2 DEF ReplyLock
  <2>2. Moved(t)
    BY <1>1, <2>1, NextFrameMoves
  <2>3. Stream(t)'
    BY <1>1, <1>2, <2>1, NextFrameStream
  <2> QED
    BY <1>1, <2>2, <2>3, StreamOne DEF Moved
<1>3. CASE ~closed[t]
  <2>1. reader' = [reader EXCEPT ![t] = "write"] /\ UNCHANGED buf
    BY <1>3 DEF ReplyLock
  <2>2. Handled(t)' = Handled(t) /\ reader'[t] = "write"
    BY <1>1, <2>1 DEF Handled, TypeOK
  <2>3. Stream(t)'
    BY <1>1, <2>1, <2>2 DEF Stream, InOrder
  <2> QED
    BY <1>1, <2>1, <2>3, StreamOne DEF TypeOK
<1> QED
  BY <1>2, <1>3

LEMMA ReplyWriteStream ==
  ASSUME TypeOK, StreamInv, NEW t \in Users, ReplyWrite(t)
  PROVE  StreamInv'
<1>1. /\ buf[t] # <<>> /\ reader[t] = "write" /\ Stream(t) /\ pc[t] # "idle"
      /\ UNCHANGED <<pc, proc, stdout, written, reaper, sent, closed>>
      /\ Len(sent[t]) \in Nat /\ Begins(sent[t], written[t])
      /\ proc[t] = "alive" => reaper[t] = "wait"
  BY Indices DEF ReplyWrite, TypeOK, StreamInv, Stream, chanVars, userVars
<1>2. NextFrame(t)
  BY DEF ReplyWrite
<1>3. ~closed'[t] => HeadSent(t, Len(sent'[t]))
  <2> DEFINE n == Len(sent[t])
             b == Len(buf[t])
             o == Len(stdout[t])
             w == Len(written[t])
  <2> SUFFICES ASSUME ~closed[t] PROVE HeadSent(t, n)
    BY <1>1
  <2>1. n \in Nat /\ b \in Nat /\ o \in Nat /\ w \in Nat
    BY Indices DEF TypeOK
  <2>2. /\ n - 1 + b + o <= w
        /\ reaper[t] \in {"none", "wait"} => n - 1 + b + o = w
        /\ \A i \in 1 .. b : buf[t][i] = written[t][n - 1 + i]
        /\ \A i \in 1 .. o : stdout[t][i] = written[t][n - 1 + b + i]
    BY <1>1 DEF Stream, InOrder, Handled
  <2>3. /\ n - 1 + b + o <= w => n + b + o <= w + 1
        /\ n - 1 + b + o = w => n + b + o = w + 1
    <3> HIDE DEF n, b, o, w
    <3> QED
      BY <2>1
  <2>4. /\ n + b + o <= w + 1
        /\ reaper[t] \in {"none", "wait"} => n + b + o = w + 1
    BY <2>2, <2>3, Zenon
  <2> QED
    BY <2>2, <2>4, Zenon DEF HeadSent
<1>4. Moved(t)
  BY <1>1, <1>2, NextFrameMoves
<1>5. Stream(t)'
  BY <1>1, <1>2, <1>3, NextFrameStream
<1> QED
  BY <1>1, <1>4, <1>5, StreamOne DEF Moved

\* Closing ends what is asked of the stream.
LEMMA CloseStream ==
  ASSUME StreamInv, NEW t, CloseOnce(t), TypeOK,
         UNCHANGED <<readVars, stdout, written, pc, proc>>,
         \/ UNCHANGED reaper
         \/ t \in Users /\ reaper[t] = "lock" /\ reaper' = [reaper EXCEPT ![t] = "gone"]
  PROVE  StreamInv'
<1>1. UNCHANGED sent /\ \A x \in Users : closed[x] => closed'[x]
  BY ZenonT(60) DEF CloseOnce, Close, chanVars, TypeOK
<1>2. t \in Users => closed'[t]
  BY DEF CloseOnce, Close, chanVars, TypeOK
<1>3. CASE UNCHANGED reaper
  BY <1>1, <1>3, StreamSame
<1>4. CASE t \in Users /\ reaper[t] = "lock" /\ reaper' = [reaper EXCEPT ![t] = "gone"]
  <2>1. Stream(t)'
    BY <1>1, <1>2, <1>4 DEF StreamInv, Stream, readVars, TypeOK
  <2> QED
    BY <1>1, <1>4, <2>1, StreamOne DEF readVars, TypeOK
<1> QED
  BY <1>3, <1>4

LEMMA LaunchStream ==
  ASSUME TypeOK, StreamInv, NEW u \in Users, Launch(u)
  PROVE  StreamInv'
<1>1. /\ pc[u] = "idle" /\ proc'[u] = "alive" /\ reader'[u] = "scan" /\ reaper'[u] = "wait"
      /\ pc'[u] = "launched" /\ UNCHANGED <<written, stdout, buf, sent, closed>>
      /\ \A x \in Users \ {u} : /\ proc'[x] = proc[x] /\ reader'[x] = reader[x]
                                /\ reaper'[x] = reaper[x] /\ pc'[x] = pc[x]
  BY DEF Launch, Goto, TypeOK, chanVars
<1>2. Stream(u)'
  BY <1>1 DEF StreamInv, Stream, InOrder, Handled
<1> QED
  BY <1>1, <1>2, StreamOne

LEMMA StreamNext == ASSUME TypeOK, OpenInv, StreamInv, [Next]_vars PROVE StreamInv'
<1> USE DEF procVars, readVars, chanVars, userVars, downVars
<1>1. CASE UNCHANGED vars
  BY <1>1, StreamSame DEF vars
<1>2. ASSUME NEW t \in Users, Agent(t) PROVE StreamInv'
  <2>1. CASE AgentReads(t) \/ AgentExits(t) \/ CancelKills(t)
    BY <2>1, StreamSame DEF AgentReads, AgentExits, CancelKills, TypeOK
  <2> QED
    BY <1>2, <2>1, AgentStream, OmpAssumption DEF Agent
<1>3. ASSUME NEW t \in Users, Reader(t) PROVE StreamInv'
  <2>1. CASE ReaderEnds(t) \/ ScanFails(t)
    <3>1. /\ reader[t] # "none" /\ reader' = [reader EXCEPT ![t] = "gone"]
          /\ buf'[t] = <<>> /\ \A x \in Users \ {t} : buf'[x] = buf[x]
          /\ UNCHANGED <<procVars, reaper, chanVars, userVars>>
      BY <2>1 DEF ReaderEnds, ScanFails, StreamInv, Stream, TypeOK
    <3>2. Stream(t)'
      BY <3>1 DEF StreamInv, Stream, Begins, TypeOK
    <3> QED
      BY <3>1, <3>2, StreamOne DEF TypeOK
  <2> QED
    BY <1>3, <2>1, ScanStream, EmitLockStream, EmitSendStream, ReplyLockStream, ReplyWriteStream
       DEF Reader
<1>4. ASSUME NEW t \in Users, Reaper(t) PROVE StreamInv'
  <2>1. CASE Reap(t)
    BY <2>1, CloseStream DEF Reap
  <2> QED
    BY <1>4, <2>1, WaitStream DEF Reaper
<1>5. ASSUME NEW u \in Users, Turn(u) \/ GiveUp(u) \/ LaunchFails(u) PROVE StreamInv'
  <2>1. UNCHANGED <<readVars, reaper, stdout, sent, written, proc, closed>>
    BY <1>5 DEF Turn, Register, StreamEvents, ReadEvent, StreamCloses, Lookup, SendLock,
                SendWrite, GiveUp, LaunchFails, UserOnly
  <2>2. PICK l : pc' = [pc EXCEPT ![u] = l] /\ l # "idle"
    <3>1. CASE ReadEvent(u)
      <4>1. PICK e : pc' = [pc EXCEPT ![u] = AfterEvent(pc[u], e)]
        BY <3>1 DEF ReadEvent, Goto
      <4>2. AfterEvent(pc[u], e) # "idle"
        BY <3>1 DEF ReadEvent, AfterEvent, Waiting
      <4> QED
        BY <4>1, <4>2
    <3>2. CASE ~ReadEvent(u)
      BY <1>5, <3>2 DEF Turn, Register, StreamEvents, StreamCloses, Lookup, SendLock,
                SendWrite, GiveUp, LaunchFails, Goto
    <3> QED
      BY <3>1, <3>2
  <2>3. \A x \in Users : pc'[x] = "idle" => pc[x] = "idle"
    BY <2>2 DEF TypeOK
  <2> QED
    BY <2>1, <2>3, StreamSame
<1>6. ASSUME NEW u \in Users, Shutdown(u) PROVE StreamInv'
  <2>1. CASE ShutdownCloses(u)
    BY <2>1, CloseStream DEF ShutdownCloses, DownOnly
  <2>2. CASE ShutdownLookup(u) \/ ShutdownKills(u) \/ ShutdownDeletes(u)
    BY SMTT(30), <2>2, StreamSame DEF ShutdownLookup, ShutdownKills, ShutdownDeletes, DownOnly, TypeOK
  <2> QED
    BY <1>6, <2>1, <2>2 DEF Shutdown
<1> QED
  BY <1>1, <1>2, <1>3, <1>4, <1>5, <1>6, LaunchStream DEF Next

\* A sequence that another one begins with is a piece of it.
LEMMA BeginsIsSubSeq ==
  ASSUME NEW s \in Seq(Frames), NEW w \in Seq(Frames), Begins(s, w)
  PROVE  s = SubSeq(w, 1, Len(s))
<1> DEFINE p == SubSeq(w, 1, Len(s))
<1>1. Len(s) \in Nat /\ Len(w) \in Nat /\ Len(s) <= Len(w)
  BY Indices DEF Begins
<1>2. \A i \in 1 .. Len(s) : w[i] \in Frames
  <2> SUFFICES ASSUME NEW i \in 1 .. Len(s) PROVE w[i] \in Frames
    OBVIOUS
  <2>1. i \in 1 .. Len(w)
    BY <1>1
  <2> QED
    BY <2>1, ElementOfSeq
<1>3. /\ p \in Seq(Frames)
      /\ Len(p) = IF 1 <= Len(s) THEN Len(s) - 1 + 1 ELSE 0
      /\ \A i \in 1 .. Len(s) - 1 + 1 : p[i] = w[1 + i - 1]
  <2>1. 1 \in Int /\ Len(s) \in Int
    BY <1>1
  <2> QED
    BY <1>2, <2>1, SubSeqProperties
<1> HIDE DEF p
<1>4. Len(p) = Len(s)
  BY <1>1, <1>3
<1>5. \A i \in 1 .. Len(s) : s[i] = p[i]
  <2> SUFFICES ASSUME NEW i \in 1 .. Len(s) PROVE s[i] = p[i]
    OBVIOUS
  <2>1. i \in 1 .. Len(s) - 1 + 1 /\ 1 + i - 1 = i
    BY <1>1
  <2> QED
    BY <1>3, <2>1 DEF Begins
<1> QED
  BY <1>3, <1>4, <1>5, SeqEqual DEF p

\* Whatever the capacities, whoever closes and whatever is lost, the events of a
\* process are the frames it wrote, from the first one on and without a gap.
THEOREM EventsAreFrames == Spec => []StreamIsPrefix
<1>1. Init => TypeOK /\ OpenInv /\ StreamInv
  BY TypeInit, StreamInit DEF Init, OpenInv
<1>2. TypeOK /\ OpenInv /\ StreamInv /\ [Next]_vars => TypeOK' /\ OpenInv' /\ StreamInv'
  BY TypeNext, OpenNext, StreamNext
<1>3. TypeOK /\ StreamInv => StreamIsPrefix
  <2> SUFFICES ASSUME TypeOK, StreamInv, NEW t \in Users
               PROVE  /\ Len(sent[t]) <= Len(written[t])
                      /\ sent[t] = SubSeq(written[t], 1, Len(sent[t]))
    BY DEF StreamIsPrefix
  <2>1. sent[t] \in Seq(Frames) /\ written[t] \in Seq(Frames) /\ Begins(sent[t], written[t])
    BY DEF TypeOK, StreamInv, Stream
  <2> QED
    BY <2>1, BeginsIsSubSeq DEF Begins
<1> QED
  BY <1>1, <1>2, <1>3, PTL DEF Spec
=============================================================================
