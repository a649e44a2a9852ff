------------------------------ MODULE MCProcesses ------------------------------
(***************************************************************************)
(* Small instances of the parts of Processes for TLC.                      *)
(***************************************************************************)
EXTENDS Processes, TLC

CONSTANTS p, q, r, p1, p2, q1, q2, r1

\* singleCase: three processes, two of them with two threads.
MCHome == (p1 :> p) @@ (p2 :> p) @@ (q1 :> q) @@ (q2 :> q) @@ (r1 :> r)

\* MainLog: the bound on the hooks ends the second handleLoadPackage when it has hooked
\* Cipher a second time.
MCMaxHooks == [m \in {"cipher", "uc", "tt", "launch", "define"} |-> IF m = "cipher" THEN 2 ELSE 1]

=============================================================================
