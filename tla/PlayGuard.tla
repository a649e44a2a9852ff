------------------------------ MODULE PlayGuard ------------------------------
(***************************************************************************)
(* hook/GooglePlayDisableUpdate.java: stopping the Play Store's own update.*)
(*                                                                         *)
(* Every process of com.android.vending is hooked.  A hooked delivery      *)
(* request that is about the Play Store itself (doc = com.android.vending) *)
(* appends the isid of the request to a file that all the processes share, *)
(* and only then is the request sent.  A hooked download looks its cpn and *)
(* its isid up: it loads the file into the static set isids of its process *)
(* and is refused when one of the two is a member.                         *)
(*                                                                         *)
(* The two hooks run in any thread of any process.  The monitor            *)
(* synchronized (isids) excludes only the threads of one process: between  *)
(* processes only the file orders what happens.                            *)
(***************************************************************************)
EXTENDS Integers, Sequences, FiniteSets

CONSTANTS
    Proc,       \* processes of com.android.vending
    Thread,     \* threads that run requests
    Home,       \* the process of each thread
    Isid,       \* the strings: what a query may give for isid or cpn, the lines
                \* of the file and their fragments
    EmptyIsid,  \* ""
    NullIsid,   \* "null", what a null reference becomes in  isid + "\n"
    Absent,     \* the parameter is not in the query: Map.get gives null
    Fragment,   \* per string: what a write of it that fails half way may leave
    Joined,     \* per pair of strings: the first one followed by the second
    None,       \* no thread; no unterminated line
    Delivers,   \* the isid parameters that deliveries come with
    Queries,    \* the cpn and isid parameters that downloads come with
    MaxLines,   \* bound: lines that the file gets
    MaxFaults   \* bound: failing file operations

ASSUME ConstAssumption ==
    /\ Home \in [Thread -> Proc]
    /\ EmptyIsid \in Isid /\ NullIsid \in Isid /\ EmptyIsid # NullIsid
    /\ Absent \notin Isid /\ None \notin Thread \cup Isid
    /\ Fragment \in [Isid -> SUBSET (Isid \ {EmptyIsid})]
    /\ Joined \in [Isid \X Isid -> Isid]
    /\ \A l \in Isid : Joined[<<l, EmptyIsid>>] = l
    /\ Delivers \subseteq Isid \cup {Absent} /\ Queries \subseteq Isid \cup {Absent}
    /\ MaxLines \in Nat /\ MaxFaults \in Nat

VARIABLES
    file,     \* IsIdFilePath: its terminated lines and an unterminated rest
    hooked,   \* per process: how far HookDownload has come
    isids,    \* per process: the static set
    monitor,  \* per process: owner of the monitor of isids
    pc,       \* per thread: where it is in the replaced method
    line,     \* per thread: httpDelivery's isid, as it is written
    todo,     \* per thread: names CheckGooglePlay is still to be called for
    view,     \* per thread: lines in the first length() bytes of the file
    isGooglePlay, \* per thread: the local of httpDownload
    faults,   \* number of file operations that failed
    \* History: read by no guard, written for the properties.
    claimed,  \* lines that AddGooglePlay was called for
    sent,     \* lines whose delivery request was sent
    lost,     \* lines whose append failed, or ran into an unterminated rest
    damaged,  \* what failed appends left: each unterminated rest that the file
              \* had, and the line that the next append made of it
    asked,    \* per thread: the names its download is checked for
    due,      \* per thread: one of them was recorded when it started
    cached,   \* per thread: one of them was in isids when it started
    unread    \* per thread: a load of the file failed

callVars    == <<line, todo, view, isGooglePlay>>
playVars    == <<claimed, sent, lost, damaged>>
askVars     == <<asked, due, cached, unread>>
vars == <<file, hooked, isids, monitor, pc, callVars, faults, playVars,
          askVars>>

-----------------------------------------------------------------------------
(* The file.                                                               *)

\* The lines that are terminated: nothing ever changes one of these.
Stored == {file.lines[i] : i \in DOMAIN file.lines}

\* Variant: reads past the end of what was written.
Content_PastEnd == Append(file.lines, file.tail)

\* The content as lines, the unterminated rest included.
Content == IF file.tail = None THEN file.lines
                               ELSE Append(file.lines, file.tail)

\* data.split("\n") as a set: trailing empty strings are dropped, but the
\* empty string itself splits into one empty string.
SplitLines(s) ==
    IF s = <<>> THEN {EmptyIsid}
    ELSE {s[i] : i \in {k \in DOMAIN s : \E j \in DOMAIN s :
                                            j >= k /\ s[j] # EmptyIsid}}

\* The text that an unterminated rest becomes when l is written after it.
Continued(l) == IF file.tail = None THEN l ELSE Joined[<<file.tail, l>>]

\* One write to a file opened for append: l and a newline.
AppendLine(l) ==
    file' = [file EXCEPT !.lines = Append(@, Continued(l)), !.tail = None]

-----------------------------------------------------------------------------
AddPc   == {"create", "write"}
CheckPc == {"exists", "length", "read"}
Inside  == AddPc \cup CheckPc        \* the blocks synchronized (isids)
DonePc  == {"delivered", "passed", "refused", "threw"}
Pc      == {"idle", "add", "send", "check"} \cup Inside \cup DonePc

TypeOK ==
    /\ file \in [exists : BOOLEAN, lines : Seq(Isid), tail : Isid \cup {None}]
    /\ hooked \in [Proc -> {"down", "none", "delivery", "both"}]
    /\ isids \in [Proc -> SUBSET Isid]
    /\ monitor \in [Proc -> Thread \cup {None}]
    /\ pc \in [Thread -> Pc]
    /\ line \in [Thread -> Isid]
    /\ todo \in [Thread -> Seq(Isid)]
    /\ view \in [Thread -> SUBSET Isid]
    /\ isGooglePlay \in [Thread -> BOOLEAN]
    /\ faults \in Nat
    /\ claimed \in SUBSET Isid /\ sent \in SUBSET Isid
    /\ lost \in SUBSET Isid /\ damaged \in SUBSET Isid
    /\ asked \in [Thread -> SUBSET Isid]
    /\ due \in [Thread -> BOOLEAN]
    /\ cached \in [Thread -> BOOLEAN]
    /\ unread \in [Thread -> BOOLEAN]

Init ==
    /\ file = [exists |-> FALSE, lines |-> <<>>, tail |-> None]
    /\ hooked = [p \in Proc |-> "down"]
    /\ isids = [p \in Proc |-> {}]
    /\ monitor = [p \in Proc |-> None]
    /\ pc = [t \in Thread |-> "idle"]
    /\ line = [t \in Thread |-> EmptyIsid]
    /\ todo = [t \in Thread |-> <<>>]
    /\ view = [t \in Thread |-> {}]
    /\ isGooglePlay = [t \in Thread |-> FALSE]
    /\ faults = 0
    /\ claimed = {} /\ sent = {} /\ lost = {} /\ damaged = {}
    /\ asked = [t \in Thread |-> {}]
    /\ due = [t \in Thread |-> FALSE]
    /\ cached = [t \in Thread |-> FALSE]
    /\ unread = [t \in Thread |-> FALSE]

Goto(t, l) == pc' = [pc EXCEPT ![t] = l]
Lock(t) ==
    /\ monitor[Home[t]] = None
    /\ monitor' = [monitor EXCEPT ![Home[t]] = t]
Unlock(t) == monitor' = [monitor EXCEPT ![Home[t]] = None]
Fault == faults < MaxFaults /\ faults' = faults + 1

-----------------------------------------------------------------------------
(* A process: Application.attach, then HookDownload, hook by hook.  A hook  *)
(* that fails (a version without an entry in ClassInfoMap, a class or a     *)
(* method that is not there) ends HookDownload: the process stays as it is. *)

Attach(p) ==
    /\ hooked[p] = "down"
    /\ hooked' = [hooked EXCEPT ![p] = "none"]
    /\ UNCHANGED <<file, isids, monitor, pc, callVars, faults, playVars, askVars>>

HookDelivery(p) ==
    /\ hooked[p] = "none"
    /\ hooked' = [hooked EXCEPT ![p] = "delivery"]
    /\ UNCHANGED <<file, isids, monitor, pc, callVars, faults, playVars, askVars>>

HookDownload(p) ==
    /\ hooked[p] = "delivery"
    /\ hooked' = [hooked EXCEPT ![p] = "both"]
    /\ UNCHANGED <<file, isids, monitor, pc, callVars, faults, playVars, askVars>>

\* The process is killed: its threads, its monitor and its set are gone, what
\* is in the file stays.
Crash(p) ==
    LET gone == {t \in Thread : Home[t] = p}
        Reset(f, v) == [t \in Thread |-> IF t \in gone THEN v ELSE f[t]]
    IN  /\ hooked[p] # "down"
        /\ hooked' = [hooked EXCEPT ![p] = "down"]
        /\ isids' = [isids EXCEPT ![p] = {}]
        /\ monitor' = [monitor EXCEPT ![p] = None]
        /\ pc' = Reset(pc, "idle")
        /\ line' = Reset(line, EmptyIsid)
        /\ todo' = Reset(todo, <<>>)
        /\ view' = Reset(view, {})
        /\ isGooglePlay' = Reset(isGooglePlay, FALSE)
        /\ asked' = Reset(asked, {})
        /\ due' = Reset(due, FALSE)
        /\ cached' = Reset(cached, FALSE)
        /\ unread' = Reset(unread, FALSE)
        /\ UNCHANGED <<file, faults, playVars>>

-----------------------------------------------------------------------------
(* The hooked delivery: httpDelivery, then the original method.            *)

DeliveryStarts(t) == pc[t] = "idle" /\ hooked[Home[t]] \in {"delivery", "both"}
DownloadStarts(t) == pc[t] = "idle" /\ hooked[Home[t]] = "both"

\* The early returns of httpDelivery, in their order: no url getter, another
\* path, another application.  The original method is invoked, nothing else.
PassShape  == {"noGetter", "otherPath", "otherDoc"}
\* The url is null or malformed; there is no query, or one of its items has
\* no "=".  The exception reaches the caller and nothing is sent.
ThrowShape == {"malformed", "badQuery"}

DeliverOther(t, shape) ==
    /\ DeliveryStarts(t)
    /\ shape \in PassShape \cup ThrowShape
    /\ Goto(t, IF shape \in PassShape THEN "delivered" ELSE "threw")
    /\ UNCHANGED <<file, hooked, isids, monitor, callVars, faults, playVars,
                   askVars>>

\* Variant: the request leaves without having been recorded.
DeliverPlay_Unrecorded(t, isid) ==
    /\ DeliveryStarts(t)
    /\ line' = [line EXCEPT ![t] = IF isid = Absent THEN NullIsid ELSE isid]
    /\ Goto(t, "send")
    /\ claimed' = claimed \cup {line'[t]}
    /\ UNCHANGED <<file, hooked, isids, monitor, todo, view, isGooglePlay,
                   faults, sent, lost, damaged, askVars>>

\* A delivery of the Play Store itself.  An absent isid is written as "null".
DeliverPlay(t, isid) ==
    /\ DeliveryStarts(t)
    /\ Len(file.lines) + Cardinality({u \in Thread : pc[u] \in AddPc \cup {"add"}})
          < MaxLines
    /\ line' = [line EXCEPT ![t] = IF isid = Absent THEN NullIsid ELSE isid]
    /\ Goto(t, "add")
    /\ claimed' = claimed \cup {line'[t]}
    /\ UNCHANGED <<file, hooked, isids, monitor, todo, view, isGooglePlay,
                   faults, sent, lost, damaged, askVars>>

EnterAdd(t) ==
    /\ pc[t] = "add"
    /\ Lock(t)
    /\ Goto(t, "create")
    /\ UNCHANGED <<file, hooked, isids, callVars, faults, playVars, askVars>>

\* AppendToFile: if (!file.exists()) file.createNewFile()
CreateFile(t) ==
    /\ pc[t] = "create"
    /\ file' = [file EXCEPT !.exists = TRUE]
    /\ Goto(t, "write")
    /\ UNCHANGED <<hooked, isids, monitor, callVars, faults, playVars, askVars>>

\* The write, at close, of the buffered line.
WriteLine(t) ==
    /\ pc[t] = "write"
    /\ AppendLine(line[t])
    /\ lost' = IF file.tail = None THEN lost ELSE lost \cup {line[t]}
    /\ damaged' = IF file.tail = None THEN damaged ELSE damaged \cup {Continued(line[t])}
    /\ Unlock(t)
    /\ Goto(t, "send")
    /\ UNCHANGED <<hooked, isids, callVars, faults, claimed, sent, askVars>>

\* createNewFile, the open or the write fails.  AddGooglePlay catches it and
\* returns false, which httpDelivery does not look at.
AddFails(t) ==
    /\ pc[t] \in AddPc
    /\ Fault
    /\ \/ UNCHANGED <<file, damaged>>
       \/ /\ pc[t] = "write"           \* a part of the line was written
          /\ \E part \in Fragment[line[t]] :
                /\ file' = [file EXCEPT !.tail = Continued(part)]
                /\ damaged' = damaged \cup {Continued(part)}
    /\ lost' = lost \cup {line[t]}
    /\ Unlock(t)
    /\ Goto(t, "send")
    /\ UNCHANGED <<hooked, isids, callVars, claimed, sent, askVars>>

\* invokeOriginalMethod: the request leaves.
SendDelivery(t) ==
    /\ pc[t] = "send"
    /\ sent' = sent \cup {line[t]}
    /\ line' = [line EXCEPT ![t] = EmptyIsid]
    /\ Goto(t, "delivered")
    /\ UNCHANGED <<file, hooked, isids, monitor, todo, view, isGooglePlay,
                   faults, claimed, lost, damaged, askVars>>

-----------------------------------------------------------------------------
(* The hooked download: httpDownload, then the original method.            *)

\* Variant: the test for isEmpty is missing.
IfPresent_Empty(n) == IF n = Absent THEN <<>> ELSE <<n>>

\* Only a name that is there and not empty is looked up: cpn, then isid.
IfPresent(n) == IF n \in {Absent, EmptyIsid} THEN <<>> ELSE <<n>>

Names(cpn, isid) == IfPresent(cpn) \o IfPresent(isid)

Download(t, cpn, isid) ==
    LET names == {cpn, isid} \ {Absent, EmptyIsid}
    IN  /\ DownloadStarts(t)
        /\ todo' = [todo EXCEPT ![t] = Names(cpn, isid)]
        /\ isGooglePlay' = [isGooglePlay EXCEPT ![t] = FALSE]
        /\ Goto(t, "check")
        /\ asked' = [asked EXCEPT ![t] = names]
        /\ due' = [due EXCEPT ![t] = names \cap Stored # {}]
        /\ cached' = [cached EXCEPT ![t] = names \cap isids[Home[t]] # {}]
        /\ unread' = [unread EXCEPT ![t] = FALSE]
        /\ UNCHANGED <<file, hooked, isids, monitor, line, view, faults, playVars>>

\* A malformed url, no query, an item without "=".
DownloadThrows(t) ==
    /\ DownloadStarts(t)
    /\ Goto(t, "threw")
    /\ UNCHANGED <<file, hooked, isids, monitor, callVars, faults, playVars,
                   askVars>>

\* CheckGooglePlay of the next name.
EnterCheck(t) ==
    /\ pc[t] = "check" /\ todo[t] # <<>>
    /\ Lock(t)
    /\ Goto(t, "exists")
    /\ UNCHANGED <<file, hooked, isids, callVars, faults, playVars, askVars>>

\* Variant: a load replaces the set, and a failed one empties it.
Answer_Forgets(t, loaded) ==
    /\ isids' = [isids EXCEPT ![Home[t]] = loaded]
    /\ isGooglePlay' = [isGooglePlay EXCEPT
                           ![t] = @ \/ Head(todo[t]) \in isids'[Home[t]]]
    /\ todo' = [todo EXCEPT ![t] = Tail(@)]
    /\ view' = [view EXCEPT ![t] = {}]
    /\ Unlock(t)
    /\ Goto(t, "check")

\* Variant: = for |=, the answer for isid replaces the one for cpn.
Answer_LastWins(t, loaded) ==
    /\ isids' = [isids EXCEPT ![Home[t]] = @ \cup loaded]
    /\ isGooglePlay' = [isGooglePlay EXCEPT
                           ![t] = Head(todo[t]) \in isids'[Home[t]]]
    /\ todo' = [todo EXCEPT ![t] = Tail(@)]
    /\ view' = [view EXCEPT ![t] = {}]
    /\ Unlock(t)
    /\ Goto(t, "check")

\* isids.contains, the end of the synchronized block, and the assignment to
\* isGooglePlay, after a load that added the lines in loaded.
Answer(t, loaded) ==
    /\ isids' = [isids EXCEPT ![Home[t]] = @ \cup loaded]
    /\ isGooglePlay' = [isGooglePlay EXCEPT
                           ![t] = @ \/ Head(todo[t]) \in isids'[Home[t]]]
    /\ todo' = [todo EXCEPT ![t] = Tail(@)]
    /\ view' = [view EXCEPT ![t] = {}]
    /\ Unlock(t)
    /\ Goto(t, "check")

\* Variant: the file is loaded once per process.
TestExists_LoadOnce(t) ==
    /\ pc[t] = "exists"
    /\ IF file.exists /\ isids[Home[t]] = {}
       THEN /\ Goto(t, "length")
            /\ UNCHANGED <<isids, monitor, todo, view, isGooglePlay>>
       ELSE Answer(t, {})
    /\ UNCHANGED <<file, hooked, line, faults, playVars, askVars>>

\* FileExists, or the failing load.
TestExists(t) ==
    /\ pc[t] = "exists"
    /\ IF file.exists
       THEN /\ Goto(t, "length")
            /\ UNCHANGED <<isids, monitor, todo, view, isGooglePlay>>
       ELSE Answer(t, {})
    /\ UNCHANGED <<file, hooked, line, faults, playVars, askVars>>

\* new byte[(int) file.length()].  The file is only ever appended to, so the
\* bytes that the later read finds there are those of now.
Measure(t) ==
    /\ pc[t] = "length"
    /\ view' = [view EXCEPT ![t] = SplitLines(Content)]
    /\ Goto(t, "read")
    /\ UNCHANGED <<file, hooked, isids, monitor, line, todo, isGooglePlay,
                   faults, playVars, askVars>>

ReadFile(t) ==
    /\ pc[t] = "read"
    /\ Answer(t, view[t])
    /\ UNCHANGED <<file, hooked, line, faults, playVars, askVars>>

\* An IOException: LoadIsidFile returns false, CheckGooglePlay only logs that
\* and looks in the set as it is.
ReadFails(t) ==
    /\ pc[t] = "read"
    /\ Fault
    /\ Answer(t, {})
    /\ unread' = [unread EXCEPT ![t] = TRUE]
    /\ UNCHANGED <<file, hooked, line, playVars, asked, due, cached>>

\* The exception that the Play Store gets for a download of itself, or the
\* original method.  Building the exception can fail, which is an exception too.
Decide(t) ==
    /\ pc[t] = "check" /\ todo[t] = <<>>
    /\ Goto(t, IF isGooglePlay[t] THEN "refused" ELSE "passed")
    /\ UNCHANGED <<file, hooked, isids, monitor, callVars, faults, playVars,
                   askVars>>

Return(t) ==
    /\ pc[t] \in DonePc
    /\ Goto(t, "idle")
    /\ isGooglePlay' = [isGooglePlay EXCEPT ![t] = FALSE]
    /\ asked' = [asked EXCEPT ![t] = {}]
    /\ due' = [due EXCEPT ![t] = FALSE]
    /\ cached' = [cached EXCEPT ![t] = FALSE]
    /\ unread' = [unread EXCEPT ![t] = FALSE]
    /\ UNCHANGED <<file, hooked, isids, monitor, line, todo, view, faults,
                   playVars>>

-----------------------------------------------------------------------------
Call(t) ==
    \/ \E shape \in PassShape \cup ThrowShape : DeliverOther(t, shape)
    \/ \E isid \in Delivers : DeliverPlay(t, isid)
    \/ \E cpn, isid \in Queries : Download(t, cpn, isid)
    \/ DownloadThrows(t)

Step(t) ==
    \/ EnterAdd(t) \/ CreateFile(t) \/ WriteLine(t) \/ AddFails(t) \/ SendDelivery(t)
    \/ EnterCheck(t) \/ TestExists(t) \/ Measure(t) \/ ReadFile(t) \/ ReadFails(t)
    \/ Decide(t) \/ Return(t)

Manage(p) == Attach(p) \/ HookDelivery(p) \/ HookDownload(p) \/ Crash(p)

Next == \/ \E t \in Thread : Call(t) \/ Step(t)
        \/ \E p \in Proc : Manage(p)

Spec == Init /\ [][Next]_vars

-----------------------------------------------------------------------------
(* Properties.                                                             *)

\* A download that the hook refuses has a name that some Play delivery put
\* forward: neither the "" of an empty file nor a parameter that is missing ever
\* stops another application's download.  A name that nobody put forward is
\* refused only if a failed append left it, and each failure leaves at most two
\* such names, what was written of its line and what the next line made of that,
\* whatever the processes do with the file afterwards (l. 36-65, 175-200).
NoFalseRefusal ==
    /\ \A t \in Thread : pc[t] = "refused" => asked[t] \cap (claimed \cup damaged) # {}
    /\ Cardinality(damaged) <= 2 * faults

\* The purpose of the file: a download with a name that stood in the file when
\* it started, whichever process wrote it and whatever was killed since, is not
\* let through unless its own load of the file failed (l. 46-53, 175-200).
RecordedIsRefused ==
    \A t \in Thread : pc[t] = "passed" /\ due[t] => unread[t]

\* A name that the process has already loaded is refused even when the file
\* cannot be read any more: a failed load does not forget (l. 48-51).
CachedIsRefused ==
    \A t \in Thread : pc[t] = "passed" => ~cached[t]

\* A hooked delivery leaves only after its isid is in the file, so that the
\* download it leads to finds it there, in whatever process.  The exceptions
\* need a failed file operation (l. 144-173, 223-226).
SentIsRecorded ==
    /\ sent \subseteq Stored \cup lost
    /\ faults = 0 => lost = {}

\* The registered names outlive every process and never leave the file, the
\* answer to a download is decided once, by what was recorded before it and put
\* forward until then, or by what failed appends left: the promise of PlayPolicy.
Answered(t) == IF pc[t] \in {"passed", "refused"} THEN pc[t]
               ELSE IF pc[t] \in CheckPc \cup {"check"} THEN "asking" ELSE "none"

Policy == INSTANCE PlayPolicy WITH
              Name     <- Isid,
              recorded <- Stored,
              noise    <- damaged,
              failures <- faults,
              answer   <- [t \in Thread |-> Answered(t)],
              owed     <- due

ImplementsPolicy == Policy!Spec

=============================================================================
