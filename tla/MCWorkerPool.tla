---------------------------- MODULE MCWorkerPool ----------------------------
(* Instances of WorkerPool for TLC.                                        *)
EXTENDS WorkerPool, TLC

\* Slots are interchangeable; threads are too, as only equality of thread ids
\* is ever tested.
Symmetry == Permutations(Slots) \union Permutations(Threads)

=============================================================================
