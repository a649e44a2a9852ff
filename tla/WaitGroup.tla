------------------------------- MODULE WaitGroup -------------------------------
(***************************************************************************)
(* cpp/third/utils/wait_group.h: a counter of tasks that are under way and *)
(* a condition variable for the threads that wait until it is zero.        *)
(*                                                                         *)
(* done() is three steps: the decrement, the load that compares with zero  *)
(* and the notification.  None of them takes the mutex, which therefore    *)
(* only keeps waiters apart: a waiter has it from its test of the counter  *)
(* until it is asleep.                                                     *)
(***************************************************************************)
EXTENDS Integers, FiniteSets

CONSTANTS
    Task,     \* tasks; each is added once and calls done() once
    Waiter,   \* threads that call wait()
    Main      \* who adds tasks besides the tasks themselves

ASSUME GroupAssumption ==
    /\ IsFiniteSet(Task)
    /\ Main \notin Task

VARIABLES
    count,    \* _WaitGroup::count
    task,     \* per task: new, running, counted (count was decremented), zero
              \* (the load gave 0), over
    waiter,   \* per waiter: idle, begun, tested (it has the mutex and saw
              \* count > 0), asleep, woken, returned
    \* History, read only by the properties.
    owed,     \* per waiter: the tasks under way when wait() was called, and the
              \* ones these added
    missed    \* per waiter: a notification came after its last test and before
              \* it was asleep

vars == <<count, task, waiter, owed, missed>>

TypeOK ==
    /\ count \in Nat
    /\ task \in [Task -> {"new", "running", "counted", "zero", "over"}]
    /\ waiter \in [Waiter -> {"idle", "begun", "tested", "asleep", "woken", "returned"}]
    /\ owed \in [Waiter -> SUBSET Task]
    /\ missed \in [Waiter -> BOOLEAN]

UnderWay == {t \in Task : task[t] = "running"}

Init ==
    /\ count = 0
    /\ task = [t \in Task |-> "new"]
    /\ waiter = [w \in Waiter |-> "idle"]
    /\ owed = [w \in Waiter |-> {}]
    /\ missed = [w \in Waiter |-> FALSE]

TaskAt(t, s) == task' = [task EXCEPT ![t] = s]
WaiterAt(w, s) == waiter' = [waiter EXCEPT ![w] = s]

-----------------------------------------------------------------------------
(* add and done.                                                           *)

\* Variant: one is added for several tasks.
Add_One(by, new) ==
    /\ by \in UnderWay \cup {Main}
    /\ new # {} /\ \A t \in new : task[t] = "new"
    /\ count' = count + 1
    /\ task' = [t \in Task |-> IF t \in new THEN "running" ELSE task[t]]
    /\ owed' = [w \in Waiter |-> IF by \in owed[w] THEN owed[w] \cup new ELSE owed[w]]
    /\ UNCHANGED <<waiter, missed>>

\* add(n) comes before the tasks it is for are started.
Add(by, new) ==
    /\ by \in UnderWay \cup {Main}
    /\ new # {} /\ \A t \in new : task[t] = "new"
    /\ count' = count + Cardinality(new)
    /\ task' = [t \in Task |-> IF t \in new THEN "running" ELSE task[t]]
    /\ owed' = [w \in Waiter |-> IF by \in owed[w] THEN owed[w] \cup new ELSE owed[w]]
    /\ UNCHANGED <<waiter, missed>>

\* A task has done its work and calls done().
Decrement(t) ==
    /\ task[t] = "running"
    /\ count' = count - 1
    /\ TaskAt(t, "counted")
    /\ UNCHANGED <<waiter, owed, missed>>

\* Variant: the value before the decrement is compared.
Compare_Before(t) ==
    /\ task[t] = "counted"
    /\ TaskAt(t, IF count = 1 THEN "zero" ELSE "over")
    /\ UNCHANGED <<count, waiter, owed, missed>>

Compare(t) ==
    /\ task[t] = "counted"
    /\ TaskAt(t, IF count = 0 THEN "zero" ELSE "over")
    /\ UNCHANGED <<count, waiter, owed, missed>>

\* Variant: one waiter is woken.
NotifyAll_One(t) ==
    /\ task[t] = "zero"
    /\ TaskAt(t, "over")
    /\ IF \E w \in Waiter : waiter[w] = "asleep"
       THEN \E w \in Waiter : waiter[w] = "asleep" /\ WaiterAt(w, "woken")
       ELSE UNCHANGED waiter
    /\ missed' = [w \in Waiter |-> missed[w] \/ waiter[w] = "tested"]
    /\ UNCHANGED <<count, owed>>

NotifyAll(t) ==
    /\ task[t] = "zero"
    /\ TaskAt(t, "over")
    /\ waiter' = [w \in Waiter |-> IF waiter[w] = "asleep" THEN "woken" ELSE waiter[w]]
    /\ missed' = [w \in Waiter |-> missed[w] \/ waiter[w] = "tested"]
    /\ UNCHANGED <<count, owed>>

-----------------------------------------------------------------------------
(* wait.                                                                   *)

MutexFree == \A w \in Waiter : waiter[w] # "tested"

Begin(w) ==
    /\ waiter[w] \in {"idle", "returned"}
    /\ WaiterAt(w, "begun")
    /\ owed' = [owed EXCEPT ![w] = UnderWay]
    /\ UNCHANGED <<count, task, missed>>

\* The mutex is taken, by the constructor of the lock or inside cv.wait.
Test(w) ==
    /\ waiter[w] \in {"begun", "woken"} /\ MutexFree
    /\ count > 0
    /\ WaiterAt(w, "tested")
    /\ missed' = [missed EXCEPT ![w] = FALSE]
    /\ UNCHANGED <<count, task, owed>>

Sleep(w) ==
    /\ waiter[w] = "tested"
    /\ WaiterAt(w, "asleep")
    /\ UNCHANGED <<count, task, owed, missed>>

WakeSpuriously(w) ==
    /\ waiter[w] = "asleep"
    /\ WaiterAt(w, "woken")
    /\ UNCHANGED <<count, task, owed, missed>>

\* Variant: if instead of while.
Return_Once(w) ==
    /\ MutexFree
    /\ (waiter[w] = "begun" /\ count <= 0) \/ waiter[w] = "woken"
    /\ WaiterAt(w, "returned")
    /\ UNCHANGED <<count, task, owed, missed>>

Return(w) ==
    /\ waiter[w] \in {"begun", "woken"} /\ MutexFree
    /\ count <= 0
    /\ WaiterAt(w, "returned")
    /\ UNCHANGED <<count, task, owed, missed>>

-----------------------------------------------------------------------------
Done(t) == Decrement(t) \/ Compare(t) \/ NotifyAll(t)
Wait(w) == Test(w) \/ Sleep(w) \/ Return(w)

Next ==
    \/ \E by \in Task \cup {Main}, new \in SUBSET Task : Add(by, new)
    \/ \E t \in Task : Done(t)
    \/ \E w \in Waiter : Begin(w) \/ Wait(w) \/ WakeSpuriously(w)

Spec == Init /\ [][Next]_vars

\* Tasks end and threads that can run are scheduled.  Nobody is made to add a task,
\* to wait or to wake up without a notification.
FairSpec ==
    /\ Spec
    /\ \A t \in Task : WF_vars(Done(t))
    /\ \A w \in Waiter : WF_vars(Wait(w))

-----------------------------------------------------------------------------
(* Properties.                                                             *)

\* When wait() has returned, the tasks that were under way when it was called have
\* called done(), and so have the tasks that these added (l. 17-30).
WaitMeansDone ==
    \A w \in Waiter : waiter[w] = "returned" => owed[w] \cap UnderWay = {}

\* Once the counter is zero a waiter sleeps on only for two reasons (l. 21-31):
\* a task is still between its decrement and its notification, or the notification
\* came between the waiter's test and its sleep, where done() without the mutex
\* lets it.  Nothing else loses a wake-up, a counter that rises again included.
SleepIsExplained ==
    \A w \in Waiter :
        waiter[w] = "asleep" /\ count = 0 =>
            missed[w] \/ \E t \in Task : task[t] \in {"counted", "zero"}

\* Whoever waits gets to return, or is one who slept through its notification
\* (l. 21-31).
WaitEnds ==
    \A w \in Waiter :
        waiter[w] = "begun" ~> waiter[w] = "returned" \/ (waiter[w] = "asleep" /\ missed[w])

=============================================================================
