------------------------------- MODULE Processes -------------------------------
(***************************************************************************)
(* SingleCase, MainLog, Shell and FieldAccess, which do not interact, side *)
(* by side: the initial state chooses the part that takes the steps, the   *)
(* others stay as they are.                                                *)
(***************************************************************************)
EXTENDS SingleCase

-----------------------------------------------------------------------------
(* MainLog.                                                                *)

CONSTANTS LogThread, MaxLoads, MaxHooks, MaxLines, MaxFaults

VARIABLES logFileStream, loader, hooks, file, monitor, logPc, left, seen, logLock, writes,
          faults, mixed, cut

logVars == <<logFileStream, loader, hooks, file, monitor, logPc, left, seen, logLock, writes,
             faults, mixed, cut>>

Log == INSTANCE MainLog WITH
           Thread <- LogThread, MaxWrites <- MaxLines, pc <- logPc, lock <- logLock

-----------------------------------------------------------------------------
(* Shell.                                                                  *)

CONSTANTS MaxWrites, Capacity

VARIABLES function, script, exit, sent, exited, pipe, listener, result, readFrom

shellVars == <<function, script, exit, sent, exited, pipe, listener, result, readFrom>>

Sh == INSTANCE Shell WITH kind <- function, status <- exit, written <- sent, reader <- listener

-----------------------------------------------------------------------------
(* FieldAccess.                                                            *)

CONSTANT FieldThread

VARIABLES accessible, fieldPc, oldAcc, served, met, crossed, flagLeft

fieldVars == <<accessible, fieldPc, oldAcc, served, met, crossed, flagLeft>>

Field == INSTANCE FieldAccess WITH Thread <- FieldThread, pc <- fieldPc, left <- flagLeft

-----------------------------------------------------------------------------
\* A pipe of Shell can be full.
ASSUME PartsAssumption == Log!LogAssumption /\ Sh!ShellAssumption /\ Capacity < MaxWrites

VARIABLE part

\* Where another part takes the steps, Shell is at the beginning of a call that need
\* not end.
PartsInit ==
    /\ part \in {"case", "log", "shell", "field"}
    /\ Init /\ Log!Init /\ Field!Init /\ Sh!Init
    /\ part = "shell" \/ (function = "root" /\ script = [i \in 1 .. Capacity + 1 |-> "err"] /\ exit = 0)

\* The part that takes the steps leaves the others alone.
InCase == part = "case" /\ UNCHANGED <<part, logVars, shellVars, fieldVars>>
InLog == part = "log" /\ UNCHANGED <<part, vars, shellVars, fieldVars>>
InShell == part = "shell" /\ UNCHANGED <<part, vars, logVars, fieldVars>>
InField == part = "field" /\ UNCHANGED <<part, vars, logVars, shellVars>>

PartsNext ==
    \/ InCase /\ Next
    \/ InLog /\ Log!Next
    \/ InShell /\ Sh!Next
    \/ InField /\ Field!Next

all == <<part, vars, logVars, shellVars, fieldVars>>

\* The fairness of SingleCase and of MainLog is theirs; the process that a shell runs
\* and the caller that reads do what they can.
PartsSpec ==
    /\ PartsInit /\ [][PartsNext]_all
    /\ WF_all(InCase /\ Inside(Me))
    /\ \A t \in LogThread : WF_all(InLog /\ Log!WriteLog(t))
    /\ WF_all(InShell /\ Sh!Runs)
    /\ WF_all(InShell /\ Sh!Listens)

-----------------------------------------------------------------------------
(* The properties of the parts: what each says is in the module of the part. *)

\* The variables of each part keep their types.
PartsTypeOK ==
    /\ TypeOK
    /\ part = "log" => Log!TypeOK
    /\ part = "shell" => Sh!TypeOK
    /\ part = "field" => Field!TypeOK

\* What is written arrives.  MainHook.WriteLog: lines run into each other, or are lost,
\* only around a change of the stream or a failed write, and the monitor that is left is
\* the one that was entered.  RunShell, RunUserShell: a call that is over has read all
\* that the process wrote.
OutputArrives ==
    /\ part = "log" => Log!LinesStayWhole /\ Log!NothingIsLost /\ Log!MonitorIsUsed
    /\ part = "shell" => Sh!NothingIsLost

\* GetFieldValue and SetField of one Field in several threads: an access comes to nothing
\* only beside another one, the flag is given back unless accesses crossed, and a flag
\* that is left set stays set.
FieldIsShared == part = "field" => Field!FieldIsShared

\* A call of singleCase, of a hooked method, and of a shell ends; that of RunShell if
\* what goes to stderr fits into its pipe.
PartsEnd == CallEnds /\ Log!CallsReturn /\ Sh!CallEnds

=============================================================================
