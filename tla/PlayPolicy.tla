------------------------------ MODULE PlayPolicy ------------------------------
(***************************************************************************)
(* What GooglePlayDisableUpdate promises, without files, sets, processes   *)
(* or monitors: a register of names that the Play Store's deliveries put   *)
(* forward, and downloads that are asked about some names and are either   *)
(* passed or refused.                                                      *)
(*                                                                         *)
(* The register is regular, not atomic.  A download may be refused for any *)
(* name put forward by the time of the answer; it must be refused for a    *)
(* name recorded before the question, unless the register could not be     *)
(* consulted.  In between both answers are right.                          *)
(*                                                                         *)
(* The register may fail: a record can be lost, and leave a name that      *)
(* nobody put forward.  Before the first failure it has no such name.      *)
(***************************************************************************)
EXTENDS Naturals

CONSTANTS Thread, Name

VARIABLES
    claimed,  \* names put forward
    recorded, \* names recorded for good
    noise,    \* names that failures left
    failures, \* number of failures
    answer,   \* per download: "none", "asking", "passed", "refused"
    asked,    \* per download: its names
    owed,     \* per download: it may not be passed any more
    unread    \* per download: the register could not be consulted

vars == <<claimed, recorded, noise, failures, answer, asked, owed, unread>>

Init ==
    /\ claimed = {} /\ recorded = {} /\ noise = {} /\ failures = 0
    /\ answer = [t \in Thread |-> "none"]
    /\ asked = [t \in Thread |-> {}]
    /\ owed = [t \in Thread |-> FALSE]
    /\ unread = [t \in Thread |-> FALSE]

Claim == \E n \in Name :
    /\ claimed' = claimed \cup {n}
    /\ UNCHANGED <<recorded, noise, failures, answer, asked, owed, unread>>

Record == \E n \in claimed :
    /\ recorded' = recorded \cup {n}
    /\ UNCHANGED <<claimed, noise, failures, answer, asked, owed, unread>>

\* A record fails, and may leave something.
Fail ==
    /\ failures' = failures + 1
    /\ noise' = noise \/ \E n \in Name : noise' = noise \cup {n}
    /\ UNCHANGED <<claimed, recorded, answer, asked, owed, unread>>

\* What a failure left becomes a record, of another name than was put forward.
Spoil == \E n \in Name :
    /\ failures > 0
    /\ noise' = noise \cup {n} /\ recorded' = recorded \cup {n}
    /\ UNCHANGED <<claimed, failures, answer, asked, owed, unread>>

Ask(t) == \E S \in SUBSET Name :
    /\ answer[t] = "none"
    /\ answer' = [answer EXCEPT ![t] = "asking"]
    /\ asked' = [asked EXCEPT ![t] = S]
    /\ owed' = [owed EXCEPT ![t] = S \cap recorded # {}]
    /\ UNCHANGED <<claimed, recorded, noise, failures, unread>>

Miss(t) ==
    /\ answer[t] = "asking"
    /\ failures' = failures + 1
    /\ unread' = [unread EXCEPT ![t] = TRUE]
    /\ UNCHANGED <<claimed, recorded, noise, answer, asked, owed>>

Pass(t) ==
    /\ answer[t] = "asking"
    /\ owed[t] => unread[t]
    /\ answer' = [answer EXCEPT ![t] = "passed"]
    /\ UNCHANGED <<claimed, recorded, noise, failures, asked, owed, unread>>

Refuse(t) ==
    /\ answer[t] = "asking"
    /\ asked[t] \cap (claimed \cup noise) # {}
    /\ answer' = [answer EXCEPT ![t] = "refused"]
    /\ UNCHANGED <<claimed, recorded, noise, failures, asked, owed, unread>>

\* Downloads end, with an answer or, when a process is killed, without one;
\* a process takes all of its downloads with it.
End == \E T \in SUBSET Thread :
    /\ answer' = [t \in Thread |-> IF t \in T THEN "none" ELSE answer[t]]
    /\ asked' = [t \in Thread |-> IF t \in T THEN {} ELSE asked[t]]
    /\ owed' = [t \in Thread |-> IF t \in T THEN FALSE ELSE owed[t]]
    /\ unread' = [t \in Thread |-> IF t \in T THEN FALSE ELSE unread[t]]
    /\ UNCHANGED <<claimed, recorded, noise, failures>>

Next == \/ Claim \/ Record \/ Fail \/ Spoil \/ End
        \/ \E t \in Thread : Ask(t) \/ Miss(t) \/ Pass(t) \/ Refuse(t)

Spec == Init /\ [][Next]_vars

=============================================================================
