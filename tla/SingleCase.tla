------------------------------ MODULE SingleCase ------------------------------
(***************************************************************************)
(* cpp/third/utils/linux_helper.h, singleCase: a callback that runs in one *)
(* process at a time, by a record lock on a file.                          *)
(*                                                                         *)
(* The lock is the kernel's (fcntl(2), F_SETLK): it belongs to a process,  *)
(* never to a descriptor or a thread.  A process is never refused a lock   *)
(* it has, an F_UNLCK of any of its threads takes the lock away, and so    *)
(* does the close of any of its descriptors of the file, and its death.    *)
(*                                                                         *)
(* Any of the calls may fail for a reason that is not another's lock: the  *)
(* open (EACCES, EMFILE), the F_SETLK (ENOLCK, a file system without       *)
(* locks), and the F_UNLCK, whose result nobody looks at.                  *)
(***************************************************************************)
EXTENDS Naturals, FiniteSets

CONSTANTS
    Proc,     \* processes
    Thread,   \* threads that call singleCase with the same path
    Home,     \* the process of each thread
    Me,       \* the thread whose calls CallEnds follows
    None,     \* no process
    MaxErrors \* bound: calls with a failed system call that are under way at a time

ASSUME CaseAssumption ==
    /\ Home \in [Thread -> Proc]
    /\ None \notin Proc
    /\ MaxErrors \in Nat
    /\ Me \in Thread

VARIABLES
    lock,     \* the process that has the lock on the file
    pc,       \* per thread: where it is in singleCase
    \* History, read only by the properties.
    crowd,    \* per thread: another thread of its process was in singleCase
              \* with it during this call
    failed    \* per thread: a system call of this call failed

vars == <<lock, pc, crowd, failed>>

\* idle: not in singleCase; denied: it could not open the file; opened: it has a
\* descriptor; callback: the lock was granted; unlock, close: the two deferred
\* calls are to be made.
Pc == {"idle", "denied", "opened", "callback", "unlock", "close"}

TypeOK ==
    /\ lock \in Proc \cup {None}
    /\ pc \in [Thread -> Pc]
    /\ crowd \in [Thread -> BOOLEAN]
    /\ failed \in [Thread -> BOOLEAN]

Init ==
    /\ lock = None
    /\ pc = [t \in Thread |-> "idle"]
    /\ crowd = [t \in Thread |-> FALSE]
    /\ failed = [t \in Thread |-> FALSE]

Goto(t, l) == pc' = [pc EXCEPT ![t] = l]

\* The other threads of the process of t that have a descriptor of the file.
Fellows(t) == {u \in Thread \ {t} : Home[u] = Home[t] /\ pc[u] \notin {"idle", "denied"}}

\* A system call of t fails.
Fail(t) ==
    /\ Cardinality({u \in Thread : failed[u]}) < MaxErrors
    /\ failed' = [failed EXCEPT ![t] = TRUE]

\* What F_UNLCK, close and exit do to the lock of a process.
Release(p) == lock' = IF lock = p THEN None ELSE lock

-----------------------------------------------------------------------------
Open(t) ==
    /\ pc[t] = "idle"
    /\ Goto(t, "opened")
    /\ crowd' = [u \in Thread |-> IF u = t THEN Fellows(t) # {}
                                  ELSE crowd[u] \/ u \in Fellows(t)]
    /\ UNCHANGED <<lock, failed>>

\* isSingle and the result are false, there is nothing to close.
OpenFails(t) ==
    /\ pc[t] = "idle"
    /\ Fail(t)
    /\ Goto(t, "denied")
    /\ UNCHANGED <<lock, crowd>>

\* Variant: the lock belongs to the thread.
SetLock_OfThread(t) ==
    /\ pc[t] = "opened" /\ lock \in {None, t}
    /\ lock' = t
    /\ Goto(t, "callback")
    /\ UNCHANGED <<crowd, failed>>

\* Variant: whoever asks is granted the lock.
SetLock_Always(t) ==
    /\ pc[t] = "opened"
    /\ lock' = Home[t]
    /\ Goto(t, "callback")
    /\ UNCHANGED <<crowd, failed>>

SetLock(t) ==
    /\ pc[t] = "opened" /\ lock \in {None, Home[t]}
    /\ lock' = Home[t]
    /\ Goto(t, "callback")
    /\ UNCHANGED <<crowd, failed>>

\* Variant: the lock belongs to a descriptor.
Refused_OwnToo(t) ==
    /\ pc[t] = "opened" /\ lock # None
    /\ Goto(t, "close")
    /\ UNCHANGED <<lock, crowd, failed>>

\* Variant: F_SETLKW, the caller waits.
Refused_Waits(t) == FALSE /\ UNCHANGED vars

Refused(t) ==
    /\ pc[t] = "opened" /\ lock \notin {None, Home[t]}
    /\ Goto(t, "close")
    /\ UNCHANGED <<lock, crowd, failed>>

\* Any other failure of the fcntl: the same branch, isSingle is false.
SetLockFails(t) ==
    /\ pc[t] = "opened"
    /\ Fail(t)
    /\ Goto(t, "close")
    /\ UNCHANGED <<lock, crowd>>

\* The callback returns or throws: the deferred calls are made either way.
CallbackEnds(t) ==
    /\ pc[t] = "callback"
    /\ Goto(t, "unlock")
    /\ UNCHANGED <<lock, crowd, failed>>

\* Variant: the unlocking is left to the close.
Unlock_AtClose(t) ==
    /\ pc[t] = "unlock"
    /\ Goto(t, "close")
    /\ UNCHANGED <<lock, crowd, failed>>

Unlock(t) ==
    /\ pc[t] = "unlock"
    /\ Release(Home[t])
    /\ Goto(t, "close")
    /\ UNCHANGED <<crowd, failed>>

\* Nobody sees that the F_UNLCK failed.
UnlockFails(t) ==
    /\ pc[t] = "unlock"
    /\ Fail(t)
    /\ Goto(t, "close")
    /\ UNCHANGED <<lock, crowd>>

\* The end of a call that had opened the file.
Close(t) ==
    /\ pc[t] = "close"
    /\ Release(Home[t])
    /\ Goto(t, "idle")
    /\ crowd' = [crowd EXCEPT ![t] = FALSE]
    /\ failed' = [failed EXCEPT ![t] = FALSE]

\* The end of one that had not.
ReturnDenied(t) ==
    /\ pc[t] = "denied"
    /\ Goto(t, "idle")
    /\ failed' = [failed EXCEPT ![t] = FALSE]
    /\ UNCHANGED <<lock, crowd>>

\* A process dies, and starts again.
Kill(p) ==
    /\ Release(p)
    /\ pc' = [t \in Thread |-> IF Home[t] = p THEN "idle" ELSE pc[t]]
    /\ crowd' = [t \in Thread |-> IF Home[t] = p THEN FALSE ELSE crowd[t]]
    /\ failed' = [t \in Thread |-> IF Home[t] = p THEN FALSE ELSE failed[t]]

-----------------------------------------------------------------------------
Inside(t) ==
    \/ SetLock(t) \/ Refused(t) \/ SetLockFails(t) \/ CallbackEnds(t)
    \/ Unlock(t) \/ UnlockFails(t) \/ Close(t) \/ ReturnDenied(t)

Next ==
    \/ \E t \in Thread : Open(t) \/ OpenFails(t) \/ Inside(t)
    \/ \E p \in Proc : Kill(p)

Spec == Init /\ [][Next]_vars

\* One caller that is scheduled and whose callbacks end.  Nothing is asked of the
\* others: they may stay in their callbacks for ever.
FairSpec == Spec /\ WF_vars(Inside(Me))

-----------------------------------------------------------------------------
(* Properties.                                                             *)

\* Two processes are in their callbacks together only if one of them entered
\* singleCase with two threads (l. 92-109): a thread that was refused takes the
\* lock of its process away when it closes the file, a thread that is done when
\* it unlocks.
Exclusive ==
    \A t, u \in Thread :
        pc[t] = "callback" /\ pc[u] = "callback" /\ Home[t] # Home[u] => crowd[t] \/ crowd[u]

\* A thread that will give the lock of its process back: with the F_UNLCK, or, when
\* that has failed, with the close.
Owes(t) == pc[t] \in {"callback", "unlock"} \/ (pc[t] = "close" /\ failed[t])

\* The lock outlives no call: whoever has it has a thread that will give it back
\* (l. 92-109), kills and failed F_UNLCKs included.
LockIsOwed == lock # None => \E t \in Thread : Home[t] = lock /\ Owes(t)

\* A caller whose own system calls succeed is told that it is not the single one only
\* while another process is in its callback or has not yet given the lock back
\* (l. 86-105).  isSingle alone does not tell the one from the other.
RefusedForAReason ==
    [][\A t \in Thread : pc[t] = "opened" /\ pc'[t] = "close" /\ ~failed'[t] =>
          \E u \in Thread : Home[u] # Home[t] /\ Owes(u)]_vars

\* A call ends whatever the others do and whatever fails: nobody waits for a lock
\* (l. 100).
CallEnds == pc[Me] # "idle" ~> pc[Me] = "idle"

=============================================================================
