-------------------------------- MODULE MainLog --------------------------------
(***************************************************************************)
(* java/hook/MainHook.java: the log that hooked methods of a process write *)
(* to.  handleLoadPackage runs for every package that the process loads,   *)
(* on one object; each time it opens another file, puts its stream into    *)
(* the field logFileStream and hooks the same methods again.               *)
(*                                                                         *)
(* WriteLog names the field three times and more: it enters the monitor of *)
(* what the field held, and writes the text and the end of the line to     *)
(* what it holds then.  The field is not volatile and is not read under a  *)
(* lock that its writer takes: a thread may still see an older value, but  *)
(* never one that is older than what it saw before.                        *)
(***************************************************************************)
EXTENDS Naturals, Sequences

CONSTANTS
    Thread,     \* threads that call hooked methods
    None,       \* no thread
    MaxLoads,   \* bound: packages that a process loads
    MaxHooks,   \* bound, per method: callbacks on it
    MaxWrites,  \* bound: calls of WriteLog of one thread
    MaxFaults   \* bound: writes that fail

\* The methods whose callbacks write to the log: Cipher.doFinal, those of UcHook
\* and ttEncrypt; and the ones whose callbacks hook them.
Logged == {"cipher", "uc", "tt"}
Method == Logged \cup {"launch", "define"}

LogAssumption ==
    /\ None \notin Thread
    /\ {MaxLoads, MaxWrites, MaxFaults} \subseteq Nat
    /\ MaxHooks \in [Method -> Nat]

Stream == 1 .. MaxLoads

VARIABLES
    logFileStream,  \* the stream of the load with this number, 0 is null
    loader,         \* where handleLoadPackage is
    hooks,          \* per method: the callbacks on it
    file,           \* per stream: what was written, texts and ends of lines
    monitor,        \* per stream: who has its monitor
    pc,             \* per thread: where it is in WriteLog
    left,           \* per thread: callbacks of its call that have not ended
    seen,           \* per thread: what it last saw in the field
    lock,           \* per thread: the stream whose monitor it enters
    writes,         \* per thread: its calls of WriteLog
    faults,         \* writes that failed
    \* History, read only by the properties.
    mixed,          \* calls of WriteLog that used more than one stream
    cut             \* calls of WriteLog with a write that failed

vars == <<logFileStream, loader, hooks, file, monitor, pc, left, seen, lock, writes,
          faults, mixed, cut>>
loading == <<logFileStream, loader, hooks>>
history == <<faults, mixed, cut>>

Write == Thread \X (1 .. MaxWrites)
Item == [write : Write, part : {"text", "end"}]

TypeOK ==
    /\ logFileStream \in 0 .. MaxLoads
    /\ loader \in {"idle", "cipher", "launch", "define"}
    /\ hooks \in [Method -> Nat] /\ \A m \in Method : hooks[m] <= MaxHooks[m]
    /\ file \in [Stream -> Seq(Item)]
    /\ monitor \in [Stream -> Thread \cup {None}]
    /\ pc \in [Thread -> {"idle", "field", "enter", "text", "end", "exit"}]
    /\ left \in [Thread -> 0 .. MaxWrites]
    /\ seen \in [Thread -> 0 .. MaxLoads]
    /\ lock \in [Thread -> 0 .. MaxLoads]
    /\ writes \in [Thread -> 0 .. MaxWrites]
    /\ faults \in 0 .. MaxFaults
    /\ mixed \subseteq Write /\ cut \subseteq Write

Init ==
    /\ logFileStream = 0 /\ loader = "idle"
    /\ hooks = [m \in Method |-> 0]
    /\ file = [s \in Stream |-> <<>>]
    /\ monitor = [s \in Stream |-> None]
    /\ pc = [t \in Thread |-> "idle"]
    /\ left = [t \in Thread |-> 0]
    /\ seen = [t \in Thread |-> 0]
    /\ lock = [t \in Thread |-> 0]
    /\ writes = [t \in Thread |-> 0]
    /\ faults = 0 /\ mixed = {} /\ cut = {}

-----------------------------------------------------------------------------
(* handleLoadPackage.                                                      *)

\* The name of the file has the time and the pid in it: it is always a new one.
\* If it cannot be created, handleLoadPackage throws and nothing has changed.
\* Nobody reads the field before the first callback is in place.
OpenLog ==
    /\ loader = "idle" /\ logFileStream < MaxLoads
    /\ logFileStream' = logFileStream + 1
    /\ loader' = "cipher"
    /\ seen' = [t \in Thread |-> IF logFileStream = 0 THEN 1 ELSE seen[t]]
    /\ UNCHANGED <<hooks, file, monitor, pc, left, lock, writes, history>>

AddHook(m) == hooks[m] < MaxHooks[m] /\ hooks' = [hooks EXCEPT ![m] = @ + 1]

HookCipher ==
    /\ loader = "cipher" /\ AddHook("cipher")
    /\ loader' = "launch"
    /\ UNCHANGED <<logFileStream, file, monitor, pc, left, seen, lock, writes, history>>

HookLaunch ==
    /\ loader = "launch" /\ AddHook("launch")
    /\ loader' = "define"
    /\ UNCHANGED <<logFileStream, file, monitor, pc, left, seen, lock, writes, history>>

\* DexFile may have no such defineClassNative: the exception ends handleLoadPackage.
HookDefine ==
    /\ loader = "define"
    /\ AddHook("define") \/ UNCHANGED hooks
    /\ loader' = "idle"
    /\ UNCHANGED <<logFileStream, file, monitor, pc, left, seen, lock, writes, history>>

\* A callback of performLaunchActivity, once per callback and launched activity.
UcHook ==
    /\ hooks["launch"] > 0 /\ AddHook("uc")
    /\ UNCHANGED <<logFileStream, loader, file, monitor, pc, left, seen, lock, writes, history>>

\* A callback of defineClassNative for the class with ttEncrypt.
OnEncryptLoaded ==
    /\ hooks["define"] > 0 /\ AddHook("tt")
    /\ UNCHANGED <<logFileStream, loader, file, monitor, pc, left, seen, lock, writes, history>>

-----------------------------------------------------------------------------
(* WriteLog.                                                               *)

ThisWrite(t) == <<t, writes[t]>>
Goto(t, l) == pc' = [pc EXCEPT ![t] = l]

\* The field as t may see it.
Sees(t, s) ==
    /\ s \in seen[t] .. logFileStream
    /\ seen' = [seen EXCEPT ![t] = s]

\* The original method has returned, and the callbacks that were in place when it
\* was called run one after the other.
Call(t, m) ==
    /\ pc[t] = "idle" /\ hooks[m] > 0
    /\ writes[t] + hooks[m] <= MaxWrites
    /\ left' = [left EXCEPT ![t] = hooks[m]]
    /\ Goto(t, "field")
    /\ UNCHANGED <<loading, file, monitor, seen, lock, writes, history>>

ReadField(t) ==
    /\ pc[t] = "field"
    /\ \E s \in Stream : Sees(t, s) /\ lock' = [lock EXCEPT ![t] = s]
    /\ writes' = [writes EXCEPT ![t] = @ + 1]
    /\ Goto(t, "enter")
    /\ UNCHANGED <<loading, file, monitor, left, history>>

\* Variant: no synchronized.
Enter_Freely(t) ==
    /\ pc[t] = "enter"
    /\ monitor' = [monitor EXCEPT ![lock[t]] = t]
    /\ Goto(t, "text")
    /\ UNCHANGED <<loading, file, left, seen, lock, writes, history>>

Enter(t) ==
    /\ pc[t] = "enter" /\ monitor[lock[t]] = None
    /\ monitor' = [monitor EXCEPT ![lock[t]] = t]
    /\ Goto(t, "text")
    /\ UNCHANGED <<loading, file, left, seen, lock, writes, history>>

Append1(t, s, part) ==
    file' = [file EXCEPT ![s] = Append(@, [write |-> ThisWrite(t), part |-> part])]

Mixes(t, s) == mixed' = IF s = lock[t] THEN mixed ELSE mixed \cup {ThisWrite(t)}

WriteText(t) ==
    /\ pc[t] = "text"
    /\ \E s \in Stream : Sees(t, s) /\ Append1(t, s, "text") /\ Mixes(t, s)
    /\ Goto(t, "end")
    /\ UNCHANGED <<loading, monitor, left, lock, writes, faults, cut>>

\* Variant: the text is not ended if a newer stream came up.
WriteEnd_SameOnly(t) ==
    /\ pc[t] = "end"
    /\ \E s \in Stream :
          /\ Sees(t, s) /\ Mixes(t, s)
          /\ IF s = lock[t] THEN Append1(t, s, "end") ELSE UNCHANGED file
    /\ Goto(t, "exit")
    /\ UNCHANGED <<loading, monitor, left, lock, writes, faults, cut>>

WriteEnd(t) ==
    /\ pc[t] = "end"
    /\ \E s \in Stream : Sees(t, s) /\ Append1(t, s, "end") /\ Mixes(t, s)
    /\ Goto(t, "exit")
    /\ UNCHANGED <<loading, monitor, left, lock, writes, faults, cut>>

\* Variant: the exception leaves the monitor behind and the callback too early.
WriteFails_Keeps(t) ==
    /\ pc[t] \in {"text", "end"} /\ faults < MaxFaults
    /\ \E s \in Stream : Sees(t, s) /\ Mixes(t, s)
    /\ faults' = faults + 1 /\ cut' = cut \cup {ThisWrite(t)}
    /\ left' = [left EXCEPT ![t] = 0]
    /\ Goto(t, "idle")
    /\ UNCHANGED <<loading, file, monitor, lock, writes>>

\* An IOException is dropped, and what was to be written after it.
WriteFails(t) ==
    /\ pc[t] \in {"text", "end"} /\ faults < MaxFaults
    /\ \E s \in Stream : Sees(t, s) /\ Mixes(t, s)
    /\ faults' = faults + 1 /\ cut' = cut \cup {ThisWrite(t)}
    /\ Goto(t, "exit")
    /\ UNCHANGED <<loading, file, monitor, left, lock, writes>>

\* Variant: the monitor of what the field holds now is left.
Exit_Current(t) ==
    /\ pc[t] = "exit"
    /\ monitor' = [monitor EXCEPT ![seen[t]] = None]
    /\ left' = [left EXCEPT ![t] = @ - 1]
    /\ Goto(t, IF left[t] = 1 THEN "idle" ELSE "field")
    /\ UNCHANGED <<loading, file, seen, lock, writes, history>>

\* Variant: one callback too many.
Exit_OneMore(t) ==
    /\ pc[t] = "exit"
    /\ monitor' = [monitor EXCEPT ![lock[t]] = None]
    /\ left' = [left EXCEPT ![t] = @ - 1]
    /\ Goto(t, IF left[t] = 0 THEN "idle" ELSE "field")
    /\ UNCHANGED <<loading, file, seen, lock, writes, history>>

Exit(t) ==
    /\ pc[t] = "exit"
    /\ monitor' = [monitor EXCEPT ![lock[t]] = None]
    /\ left' = [left EXCEPT ![t] = @ - 1]
    /\ Goto(t, IF left[t] = 1 THEN "idle" ELSE "field")
    /\ UNCHANGED <<loading, file, seen, lock, writes, history>>

WriteLog(t) ==
    ReadField(t) \/ Enter(t) \/ WriteText(t) \/ WriteEnd(t) \/ WriteFails(t) \/ Exit(t)

-----------------------------------------------------------------------------
\* The process ends.  The next one starts with files of its own.
Kill ==
    /\ logFileStream' = 0 /\ loader' = "idle"
    /\ hooks' = [m \in Method |-> 0]
    /\ file' = [s \in Stream |-> <<>>]
    /\ monitor' = [s \in Stream |-> None]
    /\ pc' = [t \in Thread |-> "idle"]
    /\ left' = [t \in Thread |-> 0]
    /\ seen' = [t \in Thread |-> 0]
    /\ lock' = [t \in Thread |-> 0]
    /\ writes' = [t \in Thread |-> 0]
    /\ faults' = 0 /\ mixed' = {} /\ cut' = {}

HandleLoadPackage == OpenLog \/ HookCipher \/ HookLaunch \/ HookDefine

Next ==
    \/ HandleLoadPackage \/ UcHook \/ OnEncryptLoaded \/ Kill
    \/ \E t \in Thread : WriteLog(t) \/ \E m \in Logged : Call(t, m)

Spec == Init /\ [][Next]_vars

\* Threads inside a callback are scheduled; nobody has to load, call or die.
FairSpec == Spec /\ \A t \in Thread : WF_vars(WriteLog(t))

-----------------------------------------------------------------------------
(* Properties.                                                             *)

\* Two lines run into each other, or an end stands alone, only where one of the two
\* calls changed from one stream to another on its way, or could not write (l. 35-43):
\* a call that stays with one stream is protected by its monitor.
LinesStayWhole ==
    \A s \in Stream : \A i \in 1 .. Len(file[s]) - 1 :
        \/ file[s][i].part = "end" /\ file[s][i + 1].part = "text"
        \/ file[s][i].write = file[s][i + 1].write
        \/ {file[s][i].write, file[s][i + 1].write} \cap (mixed \cup cut) # {}

\* A thread that is through with its callbacks has written each of its lines, text
\* and end, once and in this order, into one file or into two, unless a write failed
\* (l. 35-43): no line is lost to a stream that was replaced.
Parts(t, k, p) ==
    UNION {{s} \X {i \in DOMAIN file[s] : file[s][i] = [write |-> <<t, k>>, part |-> p]} : s \in Stream}

NothingIsLost ==
    \A t \in Thread : \A k \in 1 .. writes[t] :
        pc[t] = "idle" /\ <<t, k>> \notin cut =>
            \E a \in Parts(t, k, "text"), b \in Parts(t, k, "end") :
                /\ Parts(t, k, "text") = {a} /\ Parts(t, k, "end") = {b}
                /\ a[1] < b[1] \/ (a[1] = b[1] /\ a[2] < b[2])

\* The monitor of a stream is held by a thread that is writing under it, and by no
\* other, whatever the field has become meanwhile (l. 36).
MonitorIsUsed ==
    \A s \in Stream : monitor[s] # None =>
        pc[monitor[s]] \in {"text", "end", "exit"} /\ lock[monitor[s]] = s

\* A call of a hooked method comes back from its callbacks (l. 36).
CallsReturn == \A t \in Thread : pc[t] = "field" ~> pc[t] = "idle"

=============================================================================
