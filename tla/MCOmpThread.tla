----------------------------- MODULE MCOmpThread -----------------------------
(* The OMP adapter on small instances: two turns of one thread, or one turn *)
(* with a Shutdown after it and room for a third frame.                     *)
EXTENDS OmpThread
CONSTANTS u1, u2
TwoFrames == [u \in Users |-> 2]
ThreeFrames == [u \in Users |-> 3]
=============================================================================
