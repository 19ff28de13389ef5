---------------------------- MODULE MCLoopRunner ----------------------------
(* Instances of LoopRunner for TLC.                                        *)
EXTENDS LoopRunner

=============================================================================
