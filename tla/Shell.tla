--------------------------------- MODULE Shell ---------------------------------
(***************************************************************************)
(* common/units.java: RunShell and RunUserShell, a call with the process   *)
(* that it starts and the pipes between them.                              *)
(*                                                                         *)
(* The process writes its script, blocks on a full pipe, and exits; the    *)
(* caller reads.  RunShell reads all of stdout, then all of stderr.        *)
(* RunUserShell has one pipe for both (redirectErrorStream).               *)
(* An IOException, of the writes of the command to su or of a read, ends   *)
(* the call and leaves the process alone.                                  *)
(***************************************************************************)
EXTENDS Naturals, Sequences, FiniteSets

CONSTANTS
    MaxWrites,  \* bound: writes of the process
    Capacity    \* writes that a pipe holds

ShellAssumption == MaxWrites \in Nat /\ Capacity \in Nat

Stream == {"out", "err"}
Scripts == UNION {[1 .. n -> Stream] : n \in 0 .. MaxWrites}

VARIABLES
    kind,       \* "root": RunShell; "user": RunUserShell
    script,     \* the streams that the process writes to, one write after the other
    status,     \* its exit status
    written,    \* the writes it has done
    exited,     \* it has exited: the pipes have no writer
    pipe,       \* per stream: the writes in the pipe, by their number
    reader,     \* "out" or "err": the stream the caller reads; "wait": waitFor;
                \* "returned"; "thrown": the exception for the exit status;
                \* "failed": an IOException
    result,     \* RunShell: the lengths it appends; RunUserShell: the lines
    readFrom    \* history: per stream, what was read of it

vars == <<kind, script, status, written, exited, pipe, reader, result, readFrom>>

Answered == reader \in {"returned", "thrown"}
Over == Answered \/ reader = "failed"
Count(s) == Cardinality({i \in DOMAIN script : script[i] = s})

TypeOK ==
    /\ kind \in {"root", "user"} /\ script \in Scripts /\ status \in {0, 1}
    /\ written \in 0 .. Len(script) /\ exited \in BOOLEAN
    /\ pipe \in [Stream -> Seq(1 .. written)] /\ \A s \in Stream : Len(pipe[s]) <= Capacity
    /\ reader \in Stream \cup {"wait", "returned", "thrown", "failed"}
    /\ result \in Seq(1 .. MaxWrites)
    /\ readFrom \in [Stream -> Seq(1 .. written)]

Init ==
    /\ kind \in {"root", "user"} /\ script \in Scripts /\ status \in {0, 1}
    /\ written = 0 /\ exited = FALSE
    /\ pipe = [s \in Stream |-> <<>>]
    /\ reader = "out" /\ result = <<>> /\ readFrom = [s \in Stream |-> <<>>]

-----------------------------------------------------------------------------
(* The process.                                                            *)

\* Variant: RunUserShell leaves stderr where it is.
Target_OwnPipe(i) == script[i]

Target(i) == IF kind = "user" THEN "out" ELSE script[i]

HasRoom(s) == Len(pipe[s]) < Capacity

Write ==
    /\ written < Len(script) /\ HasRoom(Target(written + 1))
    /\ written' = written + 1
    /\ pipe' = [pipe EXCEPT ![Target(written + 1)] = Append(@, written + 1)]
    /\ UNCHANGED <<kind, script, status, exited, reader, result, readFrom>>

Exit ==
    /\ written = Len(script) /\ ~exited
    /\ exited' = TRUE
    /\ UNCHANGED <<kind, script, status, written, pipe, reader, result, readFrom>>

-----------------------------------------------------------------------------
(* The caller.                                                             *)

\* RunShell appends ch, the number of characters that read has returned;
\* RunUserShell appends the line.
Appended(n) == IF kind = "root" THEN <<n>> ELSE SubSeq(pipe[reader], 1, n)

\* read, of what there is in the pipe, or readLine.
Read(n) ==
    /\ reader \in Stream /\ n \in 1 .. Len(pipe[reader])
    /\ kind = "user" => n = 1
    /\ result' = result \o Appended(n)
    /\ readFrom' = [readFrom EXCEPT ![reader] = @ \o SubSeq(pipe[reader], 1, n)]
    /\ pipe' = [pipe EXCEPT ![reader] = SubSeq(@, n + 1, Len(@))]
    /\ UNCHANGED <<kind, script, status, written, exited, reader>>

\* Variant: a process that is gone has written nothing more.
AtEnd_Exited == exited

AtEnd == exited /\ pipe[reader] = <<>>

\* read and readLine find the end of the stream.
EndOfStream ==
    /\ reader \in Stream /\ AtEnd
    /\ reader' = IF kind = "user" THEN "wait" ELSE IF reader = "out" THEN "err" ELSE "returned"
    /\ UNCHANGED <<kind, script, status, written, exited, pipe, result, readFrom>>

WaitFor ==
    /\ reader = "wait" /\ exited
    /\ reader' = IF status = 0 THEN "returned" ELSE "thrown"
    /\ UNCHANGED <<kind, script, status, written, exited, pipe, result, readFrom>>

\* Before the first read the caller may still be writing its command: that, or a
\* read, fails.
Fails ==
    /\ reader \in Stream
    /\ reader' = "failed"
    /\ UNCHANGED <<kind, script, status, written, exited, pipe, result, readFrom>>

Runs == Write \/ Exit
Listens == (\E n \in 1 .. Capacity : Read(n)) \/ EndOfStream \/ WaitFor

Next == Runs \/ Listens \/ Fails

Spec == Init /\ [][Next]_vars

-----------------------------------------------------------------------------
(* Properties.                                                             *)

\* A call is over at some time if the process does what it can, whatever it writes
\* and in whatever order: for RunShell, which reads stderr last, only if what goes
\* to stderr fits into its pipe (units.java l. 44-58, 74-81).  Under the fairness of
\* both sides.
CallEnds == (kind = "user" \/ Count("err") <= Capacity) ~> Over

\* The numbers in ns add up to n.
AddUp(ns, n) ==
    \E sum \in [0 .. Len(ns) -> 0 .. n] :
        sum[0] = 0 /\ sum[Len(ns)] = n /\ \A i \in 1 .. Len(ns) : sum[i] = sum[i - 1] + ns[i]

\* A call that gives an answer has read all that the process wrote, each stream in order;
\* RunShell returns lengths that add up to it, RunUserShell the lines themselves in
\* the order of the writes, of both streams (units.java l. 41, 49-51, 75-80): an
\* IOException never passes for the end of the output.
NothingIsLost ==
    Answered =>
        /\ Len(readFrom["out"]) + Len(readFrom["err"]) = Len(script)
        /\ \A s \in Stream : \A i, j \in DOMAIN readFrom[s] : i < j => readFrom[s][i] < readFrom[s][j]
        /\ kind = "root" => AddUp(result, Len(script))
        /\ kind = "user" => result = [i \in 1 .. Len(script) |-> i]

=============================================================================
