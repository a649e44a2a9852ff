------------------------------- MODULE NativeLog -------------------------------
(***************************************************************************)
(* cpp/third/utils/log.h, log.cpp: defaultLog and its vector of adapters.  *)
(*                                                                         *)
(* do_log goes through the vector; init_log clears it and puts another     *)
(* adapter in, set_adapt adds one, disable_adb_log and enable_adb_log go   *)
(* through it as well.  Nothing orders do_log and these: only an adapter   *)
(* for a file has a mutex, and its own.  A loop of do_log that outlives    *)
(* the memory it goes through finds null pointers, or adapters that were   *)
(* deleted: it crashes, or it finds one that is off, or it writes through  *)
(* it.  setTag, at the end of init_log, assigns the string that do_log     *)
(* copies and then uses as a part of its format: a copy of a string that   *)
(* is being assigned, and a tag with a conversion in it, may crash as well *)
(* or make up another line.                                                *)
(*                                                                         *)
(* The functions that change the log are called by one thread at a time:   *)
(* the only call in the sources is init_log(tag) of main.cpp, l. 9.        *)
(***************************************************************************)
EXTENDS Naturals, Sequences, FiniteSets

CONSTANTS
    Logger,     \* the threads that log, one call of do_log each (a bound)
    MaxAdapts   \* bound: adapters made by the users of the log; up to 2 of them
                \* the vector has no more room than slots

NativeAssumption == MaxAdapts \in Nat

Adapter == 0 .. MaxAdapts              \* 0 is the one that the constructor makes
Types == {"adb", "file", "nofile", "printf", "custom"}   \* nofile: fopen failed

VARIABLES
    slot,       \* the memory of the vector
    size,       \* its size
    block,      \* which memory it is: push_back beyond the capacity takes another
    type,       \* per adapter: its type
    on,         \* per adapter: enabled
    enabled,    \* enabled of the log
    made,       \* the adapters made
    manager,    \* init_log: it has cleared the vector; its tag is to come, or being set
    tag,        \* whether the tag has a conversion in it
    head,       \* per logger: what do_log has copied of the tag
    at,         \* per logger: its range for; end is 0 outside it
    called,     \* the loggers that have returned from do_log or begun the range for
    out,        \* per adapter and logger: how often the line was written
    crashed,    \* the process is gone
    \* History, read by no guard.
    shaken,     \* the calls of do_log during which the vector was changed
    always,     \* per call of do_log: the adapters that were on all the time
    ever        \* per call of do_log: the adapters that were on at some time

vector == <<slot, size, block, made, type>>
names == <<manager, tag, head>>
vars == <<vector, on, enabled, names, at, called, out, crashed, shaken, always, ever>>

Outside == [pos |-> 0, end |-> 0, block |-> 0]
Inside == {t \in Logger : at[t] # Outside}
Listed == {slot[i] : i \in 1 .. size}

TypeOK ==
    /\ slot \in Seq(Adapter) /\ size \in 0 .. Len(slot) /\ block \in 1 .. MaxAdapts + 1
    /\ type \in [Adapter -> Types \cup {"none"}] /\ \A a \in Listed : type[a] # "none"
    /\ on \in [Adapter -> BOOLEAN] /\ enabled \in BOOLEAN
    /\ made \in 0 .. MaxAdapts
    /\ manager \in {"out", "clear", "tag", "set"} /\ tag \in {"plain", "conversion"}
    /\ head \in [Logger -> {"none", "plain", "conversion", "torn"}]
    /\ at \in [Logger -> [pos : 0 .. MaxAdapts, end : 0 .. MaxAdapts + 1, block : 0 .. MaxAdapts + 1]]
    /\ \A t \in Logger : at[t] = Outside \/ at[t].pos < at[t].end
    /\ called \subseteq Logger /\ crashed \in BOOLEAN
    /\ out \in [Adapter -> [Logger -> 0 .. MaxAdapts + 1]]
    /\ shaken \subseteq Logger
    /\ always \in [Logger -> SUBSET Adapter] /\ ever \in [Logger -> SUBSET Adapter]

Init ==
    /\ slot = <<0>> /\ size = 1 /\ block = 1
    /\ type = [a \in Adapter |-> IF a = 0 THEN "adb" ELSE "none"]
    /\ on = [a \in Adapter |-> TRUE] /\ enabled = TRUE
    /\ made = 0
    /\ manager = "out" /\ tag = "plain" /\ head = [t \in Logger |-> "none"]
    /\ at = [t \in Logger |-> Outside] /\ called = {}
    /\ out = [a \in Adapter |-> [t \in Logger |-> 0]] /\ crashed = FALSE
    /\ shaken = {} /\ always = [t \in Logger |-> {}] /\ ever = always

-----------------------------------------------------------------------------
(* init_log, set_adapt, disable_adb_log and enable_adb_log.                *)

\* init_log(tag, nullptr) turns the log off; nothing turns it on again.
InitNull ==
    /\ ~crashed /\ manager = "out"
    /\ enabled' = FALSE
    /\ UNCHANGED <<vector, on, names, at, called, out, crashed, shaken, always, ever>>

\* init_log(tag, adapt): adapters.clear(), which deletes them and keeps the memory.
Clear ==
    /\ ~crashed /\ manager = "out" /\ made < MaxAdapts
    /\ size' = 0
    /\ manager' = "clear" /\ shaken' = shaken \cup Inside
    /\ UNCHANGED <<slot, block, made, type, tag, head, on, enabled, at, called, out, crashed, always, ever>>

\* set_adapt, of init_log or of a user: push_back.
SetAdapt ==
    /\ ~crashed /\ manager \in {"out", "clear"} /\ made < MaxAdapts
    /\ made' = made + 1 /\ size' = size + 1
    /\ IF size < Len(slot)
       THEN slot' = [slot EXCEPT ![size + 1] = made + 1] /\ UNCHANGED block
       ELSE slot' = Append(slot, made + 1) /\ block' = block + 1
    /\ \E y \in Types : type' = [type EXCEPT ![made + 1] = y]
    /\ manager' = IF manager = "clear" THEN "tag" ELSE "out"
    /\ shaken' = shaken \cup Inside
    /\ UNCHANGED <<tag, head, on, enabled, at, called, out, crashed, always, ever>>

\* setTag, of init_log with or without an adapter: two assignments of the string.
StartTag ==
    /\ ~crashed /\ manager \in {"out", "tag"}
    /\ manager' = "set"
    /\ UNCHANGED <<vector, tag, head, on, enabled, at, called, out, crashed, shaken, always, ever>>

EndTag ==
    /\ ~crashed /\ manager = "set"
    /\ manager' = "out" /\ tag' \in {"plain", "conversion"}
    /\ UNCHANGED <<vector, head, on, enabled, at, called, out, crashed, shaken, always, ever>>

\* Variant: the adapters of every type.
OfAdb_All(a) == a \in Listed

OfAdb(a) == a \in Listed /\ type[a] = "adb"

\* disable_adb_log and enable_adb_log: the adapters there are, not later ones.
SwitchAdb(b) ==
    /\ ~crashed /\ manager = "out"
    /\ on' = [a \in Adapter |-> IF OfAdb(a) THEN b ELSE on[a]]
    /\ always' = [t \in Logger |-> IF t \in Inside THEN always[t] \cap {a \in Adapter : on'[a]} ELSE always[t]]
    /\ ever' = [t \in Logger |-> IF t \in Inside THEN ever[t] \cup {a \in Listed : on'[a]} ELSE ever[t]]
    /\ UNCHANGED <<vector, enabled, names, at, called, out, crashed, shaken>>

-----------------------------------------------------------------------------
(* do_log.                                                                 *)

\* The early return, or the tag is copied.
Begin(t) ==
    /\ ~crashed /\ t \notin called /\ head[t] = "none"
    /\ IF size = 0 \/ ~enabled
       THEN called' = called \cup {t} /\ UNCHANGED head
       ELSE /\ head' = [head EXCEPT ![t] = IF manager = "set" THEN "torn" ELSE tag]
            /\ UNCHANGED called
    /\ UNCHANGED <<vector, manager, tag, on, enabled, at, out, crashed, shaken, always, ever>>

\* The line is made up and the range of the loop taken.
Format(t) ==
    /\ ~crashed /\ t \notin called /\ head[t] # "none"
    /\ called' = called \cup {t}
    /\ LET now == {a \in Listed : on[a]}
       IN  IF size = 0 THEN UNCHANGED <<at, always, ever>>
           ELSE /\ at' = [at EXCEPT ![t] = [pos |-> 0, end |-> size, block |-> block]]
                /\ always' = [always EXCEPT ![t] = now] /\ ever' = [ever EXCEPT ![t] = now]
    /\ UNCHANGED <<vector, on, enabled, names, out, crashed, shaken>>

\* The copy, or a conversion without an argument.
FormatCrashes(t) ==
    /\ ~crashed /\ t \notin called /\ head[t] \in {"torn", "conversion"}
    /\ crashed' = TRUE
    /\ UNCHANGED <<vector, on, enabled, names, at, called, out, shaken, always, ever>>

\* Variants: the loop ends after one adapter; it goes one too far.
Advance_Stops(t) == at' = [at EXCEPT ![t] = Outside]

Advance_Beyond(t) ==
    at' = IF at[t].pos = at[t].end THEN [at EXCEPT ![t] = Outside] ELSE [at EXCEPT ![t].pos = @ + 1]

Advance(t) ==
    at' = IF at[t].pos + 1 = at[t].end THEN [at EXCEPT ![t] = Outside] ELSE [at EXCEPT ![t].pos = @ + 1]

\* The pointer read is that of an adapter in the vector.
Valid(t) == at[t].block = block /\ at[t].pos < size
This(t) == slot[at[t].pos + 1]

\* output_log; the adapter for a file holds its mutex over one line, the one of a
\* custom function does nothing.
Output(t) ==
    /\ ~crashed /\ at[t] # Outside /\ at[t].pos < Len(slot)
    /\ Valid(t) => on[This(t)] /\ type[This(t)] # "nofile"
    /\ out' = IF type[This(t)] = "custom" THEN out ELSE [out EXCEPT ![This(t)][t] = @ + 1]
    /\ Advance(t)
    /\ UNCHANGED <<vector, on, enabled, names, called, crashed, shaken, always, ever>>

\* An adapter that is off, or memory that reads like one.
Skip(t) ==
    /\ ~crashed /\ at[t] # Outside
    /\ Valid(t) => ~on[This(t)]
    /\ Advance(t)
    /\ UNCHANGED <<vector, on, enabled, names, called, out, crashed, shaken, always, ever>>

\* A call through a pointer to nothing, or fwrite to a null FILE.
Crash(t) ==
    /\ ~crashed /\ at[t] # Outside
    /\ Valid(t) => on[This(t)] /\ type[This(t)] = "nofile"
    /\ crashed' = TRUE
    /\ UNCHANGED <<vector, on, enabled, names, at, called, out, shaken, always, ever>>

DoLog(t) == Begin(t) \/ Format(t) \/ FormatCrashes(t) \/ Output(t) \/ Skip(t) \/ Crash(t)

Next ==
    \/ InitNull \/ Clear \/ SetAdapt \/ StartTag \/ EndTag \/ \E b \in BOOLEAN : SwitchAdb(b)
    \/ \E t \in Logger : DoLog(t)

Spec == Init /\ [][Next]_vars

-----------------------------------------------------------------------------
(* Properties.                                                             *)

\* The process crashes in do_log only if the vector was changed under the range for of
\* a call, if the tag was being set while a call copied it or had a conversion in it
\* when it did, or if an adapter in the vector is for a file that could not be opened:
\* the constructor logs that, and the first line goes to a null FILE (log.h l. 89-95,
\* 104-109, 156-189; log.cpp l. 7-15, 23-25).
CrashNeedsOverlap ==
    crashed =>
        \/ shaken # {}
        \/ \E t \in Logger : head[t] \in {"torn", "conversion"}
        \/ \E a \in Listed : type[a] = "nofile"

\* A call of do_log that is over, and whose vector nobody changed during its range for,
\* has written one line to each adapter that was on all that time, but for those whose
\* output_log is empty, and none to one that was off all that time, whatever
\* disable_adb_log and enable_adb_log did meanwhile (log.h l. 138-143, 169-189;
\* log.cpp l. 27-41).  What the line says is up to the tag that was copied.
LinesArrive ==
    \A t \in Logger \ (shaken \cup Inside) : \A a \in Adapter :
        /\ a \in always[t] => out[a][t] = IF type[a] = "custom" THEN 0 ELSE 1
        /\ a \notin ever[t] => out[a][t] = 0
        /\ out[a][t] <= 1

\* disable_adb_log silences the log of Android only: a line that is logged while an
\* adapter for a file is in the vector is in that file when the call is over
\* (log.cpp l. 27-33).
FileGetsAll ==
    \A t \in called \ (shaken \cup Inside) : \A a \in ever[t] : type[a] = "file" => out[a][t] = 1

=============================================================================
