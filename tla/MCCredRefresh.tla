---------------------------- MODULE MCCredRefresh ----------------------------
(* One daemon and two sessions. *)
EXTENDS CredRefresh
CONSTANTS d, s1, s2
=============================================================================
