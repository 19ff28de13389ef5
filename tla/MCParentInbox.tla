---------------------------- MODULE MCParentInbox ----------------------------
(* A task that runs twice, alone or beside a talker with two turns.        *)
EXTENDS ParentInbox
CONSTANTS t1, c1
Twice == [c \in Children |-> 2]
\* In one behaviour, the task runs twice or the talker ends two turns; a second run
\* meets the talker's line or a fault.
Bound == /\ runs[t1] + turn[c1] <= 3
         /\ runs[t1] = 2 /\ turn[c1] = 1 => faults = 0
Distinct == [l \in Lines |-> l.turn]
=============================================================================
