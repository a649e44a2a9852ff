------------------------------ MODULE CrashSignal ------------------------------
(***************************************************************************)
(* cpp/third/crash: signal handlers that hand the number of a signal, over *)
(* an eventfd, to a thread that reports it to Java.                        *)
(*                                                                         *)
(* initWithSignals sets up the handlers, then the eventfd, then the        *)
(* thread.  A handler returns to the instruction that faulted, which       *)
(* faults again.  An eventfd adds up what is written until it is read.     *)
(***************************************************************************)
EXTENDS Integers, FiniteSets

CONSTANTS
    Faulty,      \* threads that fault
    SignalOf,    \* the signal that the fault of each is
    MaxInits,    \* bound: calls of initWithSignals
    MaxWrites    \* bound: writes to the eventfds

\* Numbers of signals are positive.
CrashAssumption ==
    /\ SignalOf \in [Faulty -> Nat \ {0}]
    /\ MaxInits \in Nat /\ MaxWrites \in Nat

Signal == {SignalOf[t] : t \in Faulty}
Fd == 1 .. MaxInits      \* the eventfd of each call; 0 stands for -1

VARIABLES
    handled,     \* the signals that have the handler
    setup,       \* where initWithSignals is
    inits,       \* its calls
    notifier,    \* the static variable
    count,       \* per eventfd: its counter
    shut,        \* the eventfds that are closed
    reporter,    \* per call: where its thread is
    reads,       \* per call: the eventfd its thread reads
    fault,       \* per faulty thread: where it is in sig_func
    reports,     \* the calls of callNativeException: number, and how it came
    \* History, read by no guard but the bound.
    written,     \* per eventfd: the signals written since it was read, in number
    stray,       \* a handler wrote to a descriptor that was closed
    failed       \* steps that failed

all == <<handled, setup, inits, notifier, count, shut, reporter, reads, fault, reports,
         written, stray, failed>>
descriptors == <<notifier, count, shut, written>>
threads == <<reporter, reads>>

TypeOK ==
    /\ handled \subseteq Signal
    /\ setup \in {"out", "handlers", "eventfd", "thread", "close", "reset"}
    /\ inits \in 0 .. MaxInits /\ notifier \in 0 .. inits
    /\ count \in [Fd -> Nat] /\ shut \subseteq Fd
    /\ reporter \in [Fd -> {"none", "attach", "read", "wait", "done"}]
    /\ reads \in [Fd -> 0 .. MaxInits]
    /\ fault \in [Faulty -> {"code", "test", "write"}]
    /\ \A r \in reports : r.by \in Fd /\ r.fd \in 0 .. MaxInits
    /\ written \in [Fd -> Nat] /\ stray \in BOOLEAN
    /\ failed \subseteq {"eventfd", "create", "attach"}

Init ==
    /\ handled = {} /\ setup = "out" /\ inits = 0
    /\ notifier = 0 /\ count = [f \in Fd |-> 0] /\ shut = {}
    /\ reporter = [f \in Fd |-> "none"] /\ reads = [f \in Fd |-> 0]
    /\ fault = [t \in Faulty |-> "code"] /\ reports = {}
    /\ written = [f \in Fd |-> 0] /\ stray = FALSE /\ failed = {}

-----------------------------------------------------------------------------
(* initWithSignals.                                                        *)

Begin ==
    /\ setup = "out" /\ inits < MaxInits
    /\ inits' = inits + 1 /\ setup' = "handlers"
    /\ UNCHANGED <<handled, descriptors, threads, fault, reports, stray, failed>>

\* init_with_signal, signal by signal.  If the stack or a sigaction fails the
\* rest is left out, and initWithSignals goes on all the same.
SetHandler(s) ==
    /\ setup = "handlers"
    /\ handled' = handled \cup {s}
    /\ UNCHANGED <<setup, inits, descriptors, threads, fault, reports, stray, failed>>

\* Variant: the counter starts at one.
Create_One ==
    /\ setup = "handlers"
    /\ notifier' = inits /\ count' = [count EXCEPT ![inits] = 1]
    /\ setup' = "thread"
    /\ UNCHANGED <<handled, inits, shut, written, threads, fault, reports, stray, failed>>

Create ==
    /\ setup = "handlers"
    /\ notifier' = inits
    /\ setup' = "thread"
    /\ UNCHANGED <<handled, inits, count, shut, written, threads, fault, reports, stray, failed>>

CreateFails ==
    /\ setup = "handlers"
    /\ notifier' = 0
    /\ setup' = "thread" /\ failed' = failed \cup {"eventfd"}
    /\ UNCHANGED <<handled, inits, count, shut, written, threads, fault, reports, stray>>

StartThread ==
    /\ setup = "thread"
    /\ reporter' = [reporter EXCEPT ![inits] = "attach"]
    /\ setup' = "out"
    /\ UNCHANGED <<handled, inits, descriptors, reads, fault, reports, stray, failed>>

StartFails ==
    /\ setup = "thread"
    /\ setup' = "close" /\ failed' = failed \cup {"create"}
    /\ UNCHANGED <<handled, inits, descriptors, threads, fault, reports, stray>>

CloseNotifier ==
    /\ setup = "close"
    /\ shut' = shut \cup ({notifier} \ {0})
    /\ setup' = "reset"
    /\ UNCHANGED <<handled, inits, notifier, count, written, threads, fault, reports, stray, failed>>

ResetNotifier ==
    /\ setup = "reset"
    /\ notifier' = 0 /\ setup' = "out"
    /\ UNCHANGED <<handled, inits, count, shut, written, threads, fault, reports, stray, failed>>

-----------------------------------------------------------------------------
(* sig_func.  It reads the static variable for the test and for the write. *)

\* Variant: the handler is good for one signal.
Fault_Once(t) ==
    /\ fault[t] = "code" /\ SignalOf[t] \in handled
    /\ fault' = [fault EXCEPT ![t] = "test"]
    /\ handled' = handled \ {SignalOf[t]}
    /\ UNCHANGED <<setup, inits, descriptors, threads, reports, stray, failed>>

\* A thread whose signal has no handler takes the process with it: no step.
Fault(t) ==
    /\ fault[t] = "code" /\ SignalOf[t] \in handled
    /\ fault' = [fault EXCEPT ![t] = "test"]
    /\ UNCHANGED <<handled, setup, inits, descriptors, threads, reports, stray, failed>>

Test(t) ==
    /\ fault[t] = "test"
    /\ fault' = [fault EXCEPT ![t] = IF notifier # 0 THEN "write" ELSE "code"]
    /\ UNCHANGED <<handled, setup, inits, descriptors, threads, reports, stray, failed>>

Writes == Cardinality({w \in Fd \X (1 .. MaxWrites) : w[2] <= written[w[1]]})

Write(t) ==
    /\ fault[t] = "write" /\ Writes < MaxWrites
    /\ fault' = [fault EXCEPT ![t] = "code"]
    /\ IF notifier \in Fd \ shut
       THEN /\ count' = [count EXCEPT ![notifier] = @ + SignalOf[t]]
            /\ written' = [written EXCEPT ![notifier] = @ + 1]
       ELSE UNCHANGED <<count, written>>
    /\ stray' = (stray \/ notifier \in shut)
    /\ UNCHANGED <<handled, setup, inits, notifier, shut, threads, reports, failed>>

-----------------------------------------------------------------------------
(* invoke_crash.                                                           *)

ReporterAt(f, l) == reporter' = [reporter EXCEPT ![f] = l]

Attach(f) ==
    /\ reporter[f] = "attach"
    /\ ReporterAt(f, "read")
    /\ UNCHANGED <<handled, setup, inits, descriptors, reads, fault, reports, stray, failed>>

AttachFails(f) ==
    /\ reporter[f] = "attach"
    /\ ReporterAt(f, "done") /\ failed' = failed \cup {"attach"}
    /\ UNCHANGED <<handled, setup, inits, descriptors, reads, fault, reports, stray>>

\* The read begins, on what the static variable holds by now.
EnterRead(f) ==
    /\ reporter[f] = "read"
    /\ ReporterAt(f, "wait")
    /\ reads' = [reads EXCEPT ![f] = IF notifier \in shut THEN 0 ELSE notifier]
    /\ UNCHANGED <<handled, setup, inits, descriptors, fault, reports, stray, failed>>

Report(f, number, writes) ==
    reports' = reports \cup {[by |-> f, fd |-> reads[f], number |-> number, writes |-> writes]}

\* Variant: the descriptor is closed when it was read.
Read_Closes(f) ==
    LET fd == reads[f]
    IN  /\ reporter[f] = "wait" /\ fd # 0
        /\ count[fd] > 0
        /\ Report(f, count[fd], written[fd])
        /\ count' = [count EXCEPT ![fd] = 0] /\ written' = [written EXCEPT ![fd] = 0]
        /\ shut' = shut \cup {fd}
        /\ ReporterAt(f, "done")
        /\ UNCHANGED <<handled, setup, inits, notifier, reads, fault, stray, failed>>

\* Variant: the read does not wait.
Read_NoWait(f) ==
    LET fd == reads[f]
    IN  /\ reporter[f] = "wait" /\ fd # 0
        /\ Report(f, count[fd], written[fd])
        /\ count' = [count EXCEPT ![fd] = 0] /\ written' = [written EXCEPT ![fd] = 0]
        /\ ReporterAt(f, "done")
        /\ UNCHANGED <<handled, setup, inits, notifier, shut, reads, fault, stray, failed>>

\* Variant: EFD_SEMAPHORE, the counter goes down by one.
Read_Semaphore(f) ==
    LET fd == reads[f]
    IN  /\ reporter[f] = "wait" /\ fd # 0
        /\ count[fd] > 0
        /\ Report(f, 1, written[fd])
        /\ count' = [count EXCEPT ![fd] = @ - 1] /\ written' = [written EXCEPT ![fd] = @ - 1]
        /\ ReporterAt(f, "done")
        /\ UNCHANGED <<handled, setup, inits, notifier, shut, reads, fault, stray, failed>>

\* The read returns when there is something, and callNativeException is called.
Read(f) ==
    LET fd == reads[f]
    IN  /\ reporter[f] = "wait" /\ fd # 0
        /\ count[fd] > 0
        /\ Report(f, count[fd], written[fd])
        /\ count' = [count EXCEPT ![fd] = 0] /\ written' = [written EXCEPT ![fd] = 0]
        /\ ReporterAt(f, "done")
        /\ UNCHANGED <<handled, setup, inits, notifier, shut, reads, fault, stray, failed>>

\* A read of -1, or of what is closed, fails, and the variable it should have filled is reported as it is:
\* any number, which -1 stands for.
ReadFails(f) ==
    /\ reporter[f] = "wait" /\ reads[f] = 0
    /\ Report(f, -1, 0)
    /\ ReporterAt(f, "done")
    /\ UNCHANGED <<handled, setup, inits, descriptors, reads, fault, stray, failed>>

-----------------------------------------------------------------------------
Setup == \/ Create \/ CreateFails \/ StartThread \/ StartFails \/ CloseNotifier
         \/ ResetNotifier
Handle(t) == Fault(t) \/ Test(t) \/ Write(t)
Serve(f) == Attach(f) \/ AttachFails(f) \/ EnterRead(f) \/ Read(f) \/ ReadFails(f)

Next ==
    \/ Begin \/ Setup \/ \E s \in Signal : SetHandler(s)
    \/ \E t \in Faulty : Handle(t)
    \/ \E f \in Fd : Serve(f)

Spec == Init /\ [][Next]_all

-----------------------------------------------------------------------------
(* Properties.                                                             *)

\* The number that Java is told is that of a signal that was caught, unless more
\* than one was written before the read, which adds them up (two signals may make
\* a third one), or there was no eventfd and the number is no number at all
\* (signal_init.c l. 20-43).
ReportNamesASignal ==
    \A r \in reports : r.number \in handled \/ r.writes > 1 \/ r.fd = 0

\* A handler writes to a descriptor that is closed, and may by then be another
\* file, only if the thread could not be created: between the close and the reset
\* of the variable (signal_init.c l. 20-28, 70-76).
StrayNeedsFailure == stray => "create" \in failed

\* A number without a signal is reported only after a failure, or if a second call
\* replaced the eventfd of the thread (signal_init.c l. 30-45).
NoSignalNoReport ==
    \A r \in reports : r.writes = 0 => r.fd = 0 /\ failed \cap {"eventfd", "create"} # {}

\* A fault with a handler is reported, though the first signals may come before
\* there is an eventfd and be lost: the fault repeats itself.  It may not be if a
\* step of the set-up failed or initWithSignals was called twice.
FaultIsReported ==
    (\E t \in Faulty : fault[t] # "code") ~> (reports # {} \/ failed # {} \/ inits > 1)

=============================================================================
