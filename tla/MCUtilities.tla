------------------------------ MODULE MCUtilities ------------------------------
(***************************************************************************)
(* A small instance of each part of Utilities for TLC.                     *)
(***************************************************************************)
EXTENDS Utilities, TLC

CONSTANTS t1, t2, t3, w1, w2

\* CrashSignal: two threads that fault with different signals.
MCSignalOf == (t1 :> 4) @@ (t2 :> 7)

\* FileTree: no white list for traverse_path, a directory, and two files.
MCWhiteLists == {{}, {"dir"}, {"leaf", "sub"}}

=============================================================================
