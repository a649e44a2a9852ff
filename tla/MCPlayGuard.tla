----------------------------- MODULE MCPlayGuard -----------------------------
(***************************************************************************)
(* PlayGuard for TLC: thread t1 in process p1, thread t2 in process p2.    *)
(***************************************************************************)
EXTENDS PlayGuard, TLC

CONSTANTS p1, p2, t1, t2, n, nn, other

MCHome == [t \in Thread |-> IF t = t1 THEN p1 ELSE p2]

\* The two processes, each with its thread, may be exchanged.
MCSwap ==
    {f \in Permutations(Proc \cup Thread) :
        \A t \in Thread : f[t] \in Thread /\ Home[f[t]] = f[Home[t]]}

\* The strings are "", "n", "nn", "null", and other for all those that nobody asks for.
MCFragment ==
    [l \in Isid |-> CASE l = EmptyIsid -> {} [] l = n -> {n} [] l = nn -> {n, nn}
                      [] l = NullIsid -> {n, other, NullIsid} [] OTHER -> {other}]

MCJoined ==
    [xy \in Isid \X Isid |->
        CASE xy[2] = EmptyIsid -> xy[1] [] xy[1] = EmptyIsid -> xy[2]
          [] xy = <<n, n>> -> nn [] OTHER -> other]

=============================================================================
