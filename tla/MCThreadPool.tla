----------------------------- MODULE MCThreadPool -----------------------------
(***************************************************************************)
(* ThreadPool for TLC: task a enqueues d when it runs.                     *)
(***************************************************************************)
EXTENDS ThreadPool

CONSTANTS a, b, c, d

MCSpawned == [t \in Task |-> IF t = a THEN d ELSE None]

=============================================================================
