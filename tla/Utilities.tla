------------------------------- MODULE Utilities -------------------------------
(***************************************************************************)
(* WaitGroup, FileTree, CrashSignal, NativeLog and Strings, which do not   *)
(* interact, side by side: the initial state chooses the part that takes   *)
(* the steps, the others stay as they are.                                 *)
(***************************************************************************)
EXTENDS WaitGroup


-----------------------------------------------------------------------------
(* FileTree.                                                               *)

CONSTANT WhiteLists

VARIABLES kind, call, rpc, frames, peer, whitePath, ppc, below, entries, visits, before, stays,
          leaked, denied

treeVars == <<kind, call, rpc, frames, peer, whitePath, ppc, below, entries, visits, before,
              stays, leaked, denied>>

Tree == INSTANCE FileTree

-----------------------------------------------------------------------------
(* CrashSignal.                                                            *)

CONSTANTS Faulty, SignalOf, MaxInits, MaxReports

VARIABLES handled, setup, inits, notifier, tally, shut, reporter, reads, fault, reports,
          written, stray, failed

crashVars == <<handled, setup, inits, notifier, tally, shut, reporter, reads, fault, reports,
               written, stray, failed>>

Crash == INSTANCE CrashSignal WITH MaxWrites <- MaxReports, count <- tally

-----------------------------------------------------------------------------
(* NativeLog.                                                              *)

CONSTANTS Logger, MaxAdapts

VARIABLES slot, size, block, type, on, enabled, made, manager, tag, head, place, called, out,
          crashed, shaken, always, ever

nativeVars == <<slot, size, block, type, on, enabled, made, manager, tag, head, place, called, out,
                crashed, shaken, always, ever>>

Native == INSTANCE NativeLog WITH at <- place

-----------------------------------------------------------------------------
(* Strings.                                                                *)

CONSTANTS MaxText, MaxPattern, MaxQuery, MaxLoops

VARIABLES job, status, loops, at, text, pieces, query, touched

stringVars == <<job, status, loops, at, text, pieces, query, touched>>

Str == INSTANCE Strings

-----------------------------------------------------------------------------
CONSTANT PartsChosen   \* the parts to choose from (a bound)

ASSUME UtilitiesAssumption ==
    /\ PartsChosen \subseteq {"group", "tree", "crash", "native", "strings"}
    /\ Tree!TreeAssumption /\ Crash!CrashAssumption /\ Native!NativeAssumption
    /\ Str!StringsAssumption

VARIABLE part

PartsInit ==
    /\ part \in PartsChosen
    /\ Init /\ Crash!Init /\ Native!Init
    /\ IF part = "tree" THEN Tree!Init
       ELSE /\ kind = [l \in Tree!Loc |-> IF l = "kept" THEN "file" ELSE "none"]
            /\ call = [func |-> "no", white |-> {}, deleteRoot |-> TRUE] /\ peer = "traverse"
            /\ before = kind /\ rpc = "true" /\ frames = <<>> /\ ppc = "begin" /\ below = <<>>
            /\ entries = {} /\ visits = <<>> /\ stays = Tree!Loc /\ leaked = 0
            /\ whitePath = {} /\ denied = {}
    /\ part = "strings" \/ job = [f |-> "split", str |-> <<>>, pattern |-> <<>>]
    /\ Str!Init

\* The part that takes the steps leaves the others alone.
InGroup == part = "group" /\ UNCHANGED <<part, treeVars, crashVars, nativeVars, stringVars>>
InTree == part = "tree" /\ UNCHANGED <<part, vars, crashVars, nativeVars, stringVars>>
InCrash == part = "crash" /\ UNCHANGED <<part, vars, treeVars, nativeVars, stringVars>>
InNative == part = "native" /\ UNCHANGED <<part, vars, treeVars, crashVars, stringVars>>
InStrings == part = "strings" /\ UNCHANGED <<part, vars, treeVars, crashVars, nativeVars>>

PartsNext ==
    \/ InGroup /\ Next
    \/ InTree /\ Tree!Next
    \/ InCrash /\ Crash!Next
    \/ InNative /\ Native!Next
    \/ InStrings /\ Str!Next

all == <<part, vars, treeVars, crashVars, nativeVars, stringVars>>

\* The fairness of WaitGroup is its own; for CrashSignal the set-up, the faulting
\* threads and the reporting threads are scheduled.
PartsSpec ==
    /\ PartsInit /\ [][PartsNext]_all
    /\ \A t \in Task : WF_all(InGroup /\ Done(t))
    /\ \A w \in Waiter : WF_all(InGroup /\ Wait(w))
    /\ WF_all(InCrash /\ Crash!Setup)
    /\ \A t \in Faulty : WF_all(InCrash /\ Crash!Handle(t))
    /\ \A f \in 1 .. MaxInits : WF_all(InCrash /\ Crash!Serve(f))

-----------------------------------------------------------------------------
(* The properties of the parts: what each says is in the module of the part. *)

\* The variables of each part keep their types.
PartsTypeOK ==
    /\ TypeOK
    /\ part = "tree" => Tree!TypeOK
    /\ part = "crash" => Crash!TypeOK
    /\ part = "native" => Native!TypeOK
    /\ part = "strings" => Str!TypeOK

\* remove_files, remove_dir: what is outside the tree or in the white list stays;
\* false is returned for a reason.  traverse_path calls back once for each entry that
\* stays and that its white list does not spare, unless a system call fails.
\* Directories are left open only by calls that return false.
TreeIsKept ==
    part = "tree" =>
        /\ Tree!OutsideIsKept /\ Tree!WhiteIsKept
        /\ Tree!FailureHasCause /\ Tree!TraversalIsComplete
        /\ Tree!LeaksOnlyInFailure

\* remove_files, remove_dir, mkdir_recursive: true is returned when the tree is gone,
\* and when the last name is there.
TreeAnswersAreTrue == Tree!TrueMeansGone /\ Tree!MadeMeansThere

\* sig_func, callNativeException: a report names a signal, and a handler writes to a
\* descriptor that is open, with the exceptions that the code leaves.
CrashReportIsGenuine ==
    part = "crash" =>
        Crash!ReportNamesASignal /\ Crash!StrayNeedsFailure /\ Crash!NoSignalNoReport

\* do_log: a line goes once to each adapter that is on, disable_adb_log silences no
\* file, and a crash needs a change of the vector or of the tag meanwhile, a tag with a
\* conversion in it, or a file that could not be opened.
NativeLinesArrive ==
    part = "native" => Native!LinesArrive /\ Native!FileGetsAll /\ Native!CrashNeedsOverlap

\* string_split, replace_all, parse_query, hex2str and str2hex against what they are
\* for, and which arguments they end and stay within their buffers for.
StringsResults ==
    part = "strings" =>
        /\ Str!SplitLosesOnlyTheEnd /\ Str!LoopEnds /\ Str!ReplaceIsOnePass
        /\ Str!ParametersArrive /\ Str!HexStaysInBuffer

\* A wait() returns, but for the one lost wake-up; a fault is reported.
PartsEnd == WaitEnds /\ Crash!FaultIsReported

=============================================================================
