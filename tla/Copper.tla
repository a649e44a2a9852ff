-------------------------------- MODULE Copper --------------------------------
(***************************************************************************)
(* cpp/third/utils/copper.hpp: channels, as in Go, and select over several *)
(* of them.                                                                *)
(*                                                                         *)
(* A request is a tuple of operations, one for push and pop, more for      *)
(* select.  It tries its operations; if none can be run it enlists them    *)
(* all in the queues of their channels (a waiting_op_group) and waits for  *)
(* a partner that runs one, for the end of its time or for the close of    *)
(* all its channels.  Then it takes its operations back, channel by        *)
(* channel.                                                                *)
(*                                                                         *)
(* A section under the mutex of one channel is one step; only select keeps *)
(* mutexes over several.  The mutex of a group is taken inside such a      *)
(* section or by its own thread, for a few assignments, and nothing is     *)
(* waited for under it: it does not appear here.  The callbacks of the     *)
(* operations only move a value.                                           *)
(***************************************************************************)
EXTENDS Integers, Sequences, FiniteSets, SequencesExt

CONSTANTS
    Chan,      \* channels
    Void,      \* the channels of void: one value, and their own clear()
    Cap,       \* per channel: max_buffer_size; 0 stands for unbuffered
    Thread,    \* threads, each with one request at a time
    Requests,  \* per thread: what it may ask for, a tuple of operations and a
               \* waiting strategy
    NoThread,  \* no thread
    Unit,      \* the value of a channel of void
    MaxCalls   \* bound, per thread: its requests

WaitType == {"forever", "none", "timed"}       \* timed: for_ and until
OpType == [chan : Chan, dir : {"pop", "push"}]

ASSUME CopperAssumption ==
    /\ Void \subseteq Chan
    /\ Cap \in [Chan -> Nat]
    /\ Requests \in [Thread -> SUBSET (Seq(OpType) \X WaitType)]
    /\ \A t \in Thread : \A r \in Requests[t] : r[1] # <<>>
    /\ NoThread \notin Thread
    /\ MaxCalls \in [Thread -> Nat]

VARIABLES
    \* A channel.
    open, buffer,     \* _open, _buffer
    pops, pushes,     \* _waiting_pops, _waiting_pushes: operations [by, op]
    mutex,            \* _mutex: the thread that keeps it between steps
    \* The request of a thread.
    pc, ops, wait, todo, status,
    matched, openOps, \* _match_found, open_op_channels of its group
    asleep,           \* the threads inside cv.wait
    calls,            \* requests begun
    \* History, read by no guard.
    ran,              \* per thread: operations of its request that were run
    last,             \* per channel: the value delivered last
    used,             \* the values that entered a channel
    cleared           \* the channels on which clear() left a push waiting

chanVars == <<open, buffer, pops, pushes>>
callVars == <<pc, todo, status>>
history  == <<ran, last, used, cleared>>
vars == <<chanVars, mutex, callVars, ops, wait, matched, openOps, asleep, calls, history>>

Waiting == [by : Thread, op : Nat]
Value == {Unit} \cup UNION {{t} \X (1..MaxCalls[t]) : t \in Thread}

TypeOK ==
    /\ open \in [Chan -> BOOLEAN] /\ buffer \in [Chan -> Seq(Value)]
    /\ pops \in [Chan -> Seq(Waiting)] /\ pushes \in [Chan -> Seq(Waiting)]
    /\ mutex \in [Chan -> Thread \cup {NoThread}]
    /\ pc \in [Thread -> {"idle", "pass", "lock", "enlist", "wait", "leave"}]
    /\ ops \in [Thread -> Seq(OpType)] /\ wait \in [Thread -> WaitType]
    /\ todo \in [Thread -> SUBSET Nat]
    /\ status \in [Thread -> {"success", "unavailable", "closed"}]
    /\ matched \in [Thread -> BOOLEAN] /\ openOps \in [Thread -> Nat]
    /\ asleep \in SUBSET Thread /\ calls \in [Thread -> Nat]
    /\ ran \in [Thread -> Nat] /\ last \in [Chan -> Value]
    /\ used \in SUBSET Value /\ cleared \in SUBSET Chan

Init ==
    /\ open = [c \in Chan |-> TRUE] /\ buffer = [c \in Chan |-> <<>>]
    /\ pops = [c \in Chan |-> <<>>] /\ pushes = [c \in Chan |-> <<>>]
    /\ mutex = [c \in Chan |-> NoThread]
    /\ pc = [t \in Thread |-> "idle"]
    /\ ops = [t \in Thread |-> <<>>] /\ wait = [t \in Thread |-> "none"]
    /\ todo = [t \in Thread |-> {}] /\ status = [t \in Thread |-> "closed"]
    /\ matched = [t \in Thread |-> FALSE] /\ openOps = [t \in Thread |-> 0]
    /\ asleep = {} /\ calls = [t \in Thread |-> 0]
    /\ ran = [t \in Thread |-> 0] /\ last = [c \in Chan |-> Unit]
    /\ used = {} /\ cleared = {}

-----------------------------------------------------------------------------
(* The waiting queues of a channel.                                        *)

ChanOf(t, i) == ops[t][i].chan
DirOf(t, i)  == ops[t][i].dir
Free(t, c)   == mutex[c] \in {NoThread, t}

\* The operations in q whose group has not found a match.
Live(q) == {k \in DOMAIN q : ~matched[q[k].by]}

\* The thread that the loop over q matches: the first that match() accepts.
Partner(q) == IF Live(q) = {} THEN {} ELSE {q[Min(Live(q))].by}

\* What the loop leaves: it takes from the queue what it looks at.
Rest(q) == IF Live(q) = {} THEN <<>> ELSE SubSeq(q, Min(Live(q)) + 1, Len(q))

\* What a push of t puts into c.
Datum(t, c) == IF c \in Void THEN Unit ELSE <<t, calls[t]>>
Data(ts, c) == IF ts = {} THEN <<>> ELSE <<Datum(CHOOSE t \in ts : TRUE, c)>>

\* Variant: a group is matched without being marked.
Match_Unmarked(us) ==
    /\ UNCHANGED matched
    /\ asleep' = asleep \ us

\* Variant: nobody is notified.
Match_Silent(us) ==
    /\ matched' = [t \in Thread |-> matched[t] \/ t \in us]
    /\ UNCHANGED asleep

\* waiting_op_group_base::match: the group of each of us is marked and woken.
Match(us) ==
    /\ matched' = [t \in Thread |-> matched[t] \/ t \in us]
    /\ asleep' = asleep \ us

Ran(ts) == ran' = [t \in Thread |-> IF t \in ts THEN ran[t] + 1 ELSE ran[t]]

-----------------------------------------------------------------------------
(* _pop_func_with_lock_general and _push_func_with_lock_general, up to     *)
(* where they begin to wait.                                               *)

\* Variant: the buffer is not filled up again.
PopBuffered_NoRefill(t, c) ==
    /\ buffer[c] # <<>>
    /\ last' = [last EXCEPT ![c] = Head(buffer[c])]
    /\ buffer' = [buffer EXCEPT ![c] = Tail(@)]
    /\ Match({}) /\ Ran({t})
    /\ UNCHANGED <<pops, pushes, used>>

\* The next element of the buffer, and a waiting push to fill it up again.
PopBuffered(t, c) ==
    LET us == IF open[c] THEN Partner(pushes[c]) ELSE {}
    IN  /\ buffer[c] # <<>>
        /\ last' = [last EXCEPT ![c] = Head(buffer[c])]
        /\ buffer' = [buffer EXCEPT ![c] = Tail(@) \o Data(us, c)]
        /\ pushes' = [pushes EXCEPT ![c] = IF open[c] THEN Rest(@) ELSE @]
        /\ Match(us) /\ Ran({t} \cup us)
        /\ used' = used \cup {Datum(u, c) : u \in us}
        /\ UNCHANGED pops

\* Variant: a push that waits comes before the elements of the buffer.
PopHanded_First(t, c) ==
    LET us == Partner(pushes[c])
    IN  /\ open[c] /\ us # {}
        /\ pushes' = [pushes EXCEPT ![c] = Rest(@)]
        /\ last' = [last EXCEPT ![c] = Data(us, c)[1]]
        /\ Match(us) /\ Ran({t} \cup us)
        /\ used' = used \cup {Datum(u, c) : u \in us}
        /\ UNCHANGED <<buffer, pops>>

PopHanded(t, c) ==
    LET us == Partner(pushes[c])
    IN  /\ open[c] /\ buffer[c] = <<>> /\ us # {}
        /\ pushes' = [pushes EXCEPT ![c] = Rest(@)]
        /\ last' = [last EXCEPT ![c] = Data(us, c)[1]]
        /\ Match(us) /\ Ran({t} \cup us)
        /\ used' = used \cup {Datum(u, c) : u \in us}
        /\ UNCHANGED <<buffer, pops>>

PushHanded(t, c) ==
    LET us == Partner(pops[c])
    IN  /\ open[c] /\ us # {}
        /\ pops' = [pops EXCEPT ![c] = Rest(@)]
        /\ last' = [last EXCEPT ![c] = Datum(t, c)]
        /\ Match(us) /\ Ran({t} \cup us)
        /\ used' = used \cup {Datum(t, c)}
        /\ UNCHANGED <<buffer, pushes>>

PushBuffered(t, c) ==
    /\ open[c] /\ Partner(pops[c]) = {} /\ Len(buffer[c]) < Cap[c]
    /\ pops' = [pops EXCEPT ![c] = <<>>]
    /\ buffer' = [buffer EXCEPT ![c] = Append(@, Datum(t, c))]
    /\ Match({}) /\ Ran({t})
    /\ used' = used \cup {Datum(t, c)}
    /\ UNCHANGED <<last, pushes>>

\* The operation is run; it may be one of several that could be.
Hit(t, i) ==
    LET c == ChanOf(t, i)
    IN  /\ IF DirOf(t, i) = "pop" THEN PopBuffered(t, c) \/ PopHanded(t, c)
                                  ELSE PushHanded(t, c) \/ PushBuffered(t, c)
        /\ cleared' = IF pushes'[c] = <<>> THEN cleared \ {c} ELSE cleared
        /\ UNCHANGED open

\* It cannot be: the channel is closed, or there is neither an element, or room,
\* nor a partner.  The queue the loop went through is empty then.
Miss(t, i) ==
    LET c == ChanOf(t, i)
    IN  /\ IF DirOf(t, i) = "pop"
           THEN /\ buffer[c] = <<>> /\ Partner(pushes[c]) = {}
                /\ pushes' = [pushes EXCEPT ![c] = IF open[c] THEN <<>> ELSE @]
                /\ UNCHANGED pops
           ELSE /\ open[c] => Len(buffer[c]) >= Cap[c] /\ Partner(pops[c]) = {}
                /\ pops' = [pops EXCEPT ![c] = IF open[c] THEN <<>> ELSE @]
                /\ UNCHANGED pushes
        /\ UNCHANGED <<open, buffer, matched, asleep, history>>

-----------------------------------------------------------------------------
(* A request.                                                              *)

Indices(t) == DOMAIN ops[t]
Goto(t, l, S) == pc' = [pc EXCEPT ![t] = l] /\ todo' = [todo EXCEPT ![t] = S]
Unlocked(t) == [c \in Chan |-> IF mutex[c] = t THEN NoThread ELSE mutex[c]]

\* One operation is tried at once under the mutex; several have a first pass.
Begin(t, r) ==
    /\ pc[t] = "idle" /\ calls[t] < MaxCalls[t]
    /\ ops' = [ops EXCEPT ![t] = r[1]]
    /\ wait' = [wait EXCEPT ![t] = r[2]]
    /\ Goto(t, IF Len(r[1]) = 1 THEN "lock" ELSE "pass", DOMAIN r[1])
    /\ status' = [status EXCEPT ![t] = "closed"]
    /\ matched' = [matched EXCEPT ![t] = FALSE]
    /\ openOps' = [openOps EXCEPT ![t] = 0]
    /\ calls' = [calls EXCEPT ![t] = @ + 1]
    /\ ran' = [ran EXCEPT ![t] = 0]
    /\ UNCHANGED <<chanVars, mutex, asleep, last, used, cleared>>

callsOnly == <<ops, wait, openOps, calls>>

Succeed(t) ==
    /\ Goto(t, "idle", {})
    /\ status' = [status EXCEPT ![t] = "success"]
    /\ mutex' = Unlocked(t)

\* _perform_select_pass: each operation once, in a random order.
PassHits(t) ==
    /\ pc[t] = "pass"
    /\ \E i \in todo[t] : Free(t, ChanOf(t, i)) /\ Hit(t, i)
    /\ Succeed(t)
    /\ UNCHANGED callsOnly

\* Variant: an operation that is unavailable passes for a closed one.
PassMisses_AllClosed(t) ==
    /\ pc[t] = "pass"
    /\ \E i \in todo[t] :
          /\ Free(t, ChanOf(t, i)) /\ Miss(t, i)
          /\ UNCHANGED status
          /\ IF todo[t] # {i} THEN Goto(t, "pass", todo[t] \ {i})
             ELSE IF wait[t] = "none" THEN Goto(t, "idle", {})
             ELSE Goto(t, "lock", Indices(t))
    /\ UNCHANGED <<mutex, callsOnly>>

PassMisses(t) ==
    /\ pc[t] = "pass"
    /\ \E i \in todo[t] :
          /\ Free(t, ChanOf(t, i)) /\ Miss(t, i)
          /\ status' = [status EXCEPT ![t] = IF open[ChanOf(t, i)] THEN "unavailable" ELSE @]
          /\ IF todo[t] # {i} THEN Goto(t, "pass", todo[t] \ {i})
             ELSE IF wait[t] = "none" THEN Goto(t, "idle", {})
             ELSE Goto(t, "lock", Indices(t))
    /\ UNCHANGED <<mutex, callsOnly>>

\* _register_signals: in the order of the tuple, and the mutexes are kept.
LockHits(t) ==
    /\ pc[t] = "lock"
    /\ Free(t, ChanOf(t, Min(todo[t]))) /\ Hit(t, Min(todo[t]))
    /\ Succeed(t)
    /\ UNCHANGED callsOnly

\* Variant: each mutex is given back after the try.
LockMisses_Releases(t) ==
    LET i == Min(todo[t])
        c == ChanOf(t, i)
        s == IF open[c] THEN "unavailable" ELSE "closed"
    IN  /\ pc[t] = "lock"
        /\ Free(t, c) /\ Miss(t, i)
        /\ IF Len(ops[t]) = 1 /\ (wait[t] = "none" \/ s = "closed")
           THEN /\ Goto(t, "idle", {})
                /\ status' = [status EXCEPT ![t] = s]
           ELSE /\ IF todo[t] = {i} THEN Goto(t, "enlist", Indices(t))
                                    ELSE Goto(t, "lock", todo[t] \ {i})
                /\ UNCHANGED status
        /\ UNCHANGED <<mutex, callsOnly>>

LockMisses(t) ==
    LET i == Min(todo[t])
        c == ChanOf(t, i)
        s == IF open[c] THEN "unavailable" ELSE "closed"
    IN  /\ pc[t] = "lock"
        /\ Free(t, c) /\ Miss(t, i)
        /\ IF Len(ops[t]) = 1 /\ (wait[t] = "none" \/ s = "closed")
           THEN /\ Goto(t, "idle", {})
                /\ status' = [status EXCEPT ![t] = s]
                /\ UNCHANGED mutex
           ELSE /\ IF todo[t] = {i} THEN Goto(t, "enlist", Indices(t))
                                    ELSE Goto(t, "lock", todo[t] \ {i})
                /\ mutex' = [mutex EXCEPT ![c] = t]
                /\ UNCHANGED status
        /\ UNCHANGED callsOnly

\* Variant: the open channels are not counted.
Enlist_Uncounted(t) ==
    LET i == Min(todo[t])
        c == ChanOf(t, i)
        Joined(q, d) == IF open[c] /\ DirOf(t, i) = d THEN Append(q, [by |-> t, op |-> i]) ELSE q
    IN  /\ pc[t] = "enlist"
        /\ pops' = [pops EXCEPT ![c] = Joined(@, "pop")]
        /\ pushes' = [pushes EXCEPT ![c] = Joined(@, "push")]
        /\ IF todo[t] = {i} THEN Goto(t, "wait", {}) /\ mutex' = Unlocked(t)
           ELSE Goto(t, "enlist", todo[t] \ {i}) /\ UNCHANGED mutex
        /\ UNCHANGED <<open, buffer, status, ops, wait, matched, openOps, asleep, calls, history>>

\* waiting_op_group::activate, the next operation of the tuple: it enlists with its
\* channel if that is open.  All the mutexes are kept, and given back at the end.
Enlist(t) ==
    LET i == Min(todo[t])
        c == ChanOf(t, i)
        Joined(q, d) == IF open[c] /\ DirOf(t, i) = d THEN Append(q, [by |-> t, op |-> i]) ELSE q
    IN  /\ pc[t] = "enlist"
        /\ pops' = [pops EXCEPT ![c] = Joined(@, "pop")]
        /\ pushes' = [pushes EXCEPT ![c] = Joined(@, "push")]
        /\ openOps' = [openOps EXCEPT ![t] = IF open[c] THEN @ + 1 ELSE @]
        /\ IF todo[t] = {i} THEN Goto(t, "wait", {}) /\ mutex' = Unlocked(t)
           ELSE Goto(t, "enlist", todo[t] \ {i}) /\ UNCHANGED mutex
        /\ UNCHANGED <<open, buffer, status, ops, wait, matched, asleep, calls, history>>

Outcome(t) == IF matched[t] THEN "success"
              ELSE IF openOps[t] = 0 THEN "closed" ELSE "unavailable"

EndWait(t) ==
    /\ status' = [status EXCEPT ![t] = Outcome(t)]
    /\ Goto(t, "leave", Indices(t))
    /\ asleep' = asleep \ {t}

\* waiting_op_group::wait.  The predicate is tested under the mutex of the group.
Wait(t) ==
    /\ pc[t] = "wait" /\ t \notin asleep
    /\ IF Outcome(t) # "unavailable" THEN EndWait(t)
       ELSE asleep' = asleep \cup {t} /\ UNCHANGED callVars
    /\ UNCHANGED <<chanVars, mutex, ops, wait, matched, openOps, calls, history>>

\* The time is over, which a thread that was just woken finds out as well.
TimeOut(t) ==
    /\ pc[t] = "wait" /\ wait[t] = "timed"
    /\ EndWait(t)
    /\ UNCHANGED <<chanVars, mutex, ops, wait, matched, openOps, calls, history>>

WakeSpuriously(t) ==
    /\ t \in asleep
    /\ asleep' = asleep \ {t}
    /\ UNCHANGED <<chanVars, mutex, callVars, ops, wait, matched, openOps, calls, history>>

\* std::remove: an operation is in a queue once at most (NoDanglingOp).
Without(q, w) ==
    IF \E k \in DOMAIN q : q[k] = w THEN RemoveAt(q, CHOOSE k \in DOMAIN q : q[k] = w) ELSE q

\* Variant: what was matched is taken to be out of the queues.
Leave_IfUnmatched(t) ==
    LET i == Min(todo[t])
        c == ChanOf(t, i)
        Left(q) == IF matched[t] THEN q ELSE Without(q, [by |-> t, op |-> i])
    IN  /\ pc[t] = "leave" /\ Free(t, c)
        /\ pops' = [pops EXCEPT ![c] = Left(@)]
        /\ pushes' = [pushes EXCEPT ![c] = Left(@)]
        /\ Goto(t, IF todo[t] = {i} THEN "idle" ELSE "leave", todo[t] \ {i})
        /\ UNCHANGED <<open, buffer, mutex, status, ops, wait, matched, openOps, asleep,
                       calls, history>>

\* The destructor of the group: parent_destroyed of its next operation.
Leave(t) ==
    LET i == Min(todo[t])
        c == ChanOf(t, i)
        Left(q) == Without(q, [by |-> t, op |-> i])
    IN  /\ pc[t] = "leave" /\ Free(t, c)
        /\ pops' = [pops EXCEPT ![c] = Left(@)]
        /\ pushes' = [pushes EXCEPT ![c] = Left(@)]
        /\ Goto(t, IF todo[t] = {i} THEN "idle" ELSE "leave", todo[t] \ {i})
        /\ UNCHANGED <<open, buffer, mutex, status, ops, wait, matched, openOps, asleep,
                       calls, history>>

-----------------------------------------------------------------------------
(* close() and clear().                                                    *)

\* How many operations of t wait in c.
Enrolled(t, c) == Cardinality({k \in DOMAIN pops[c] : pops[c][k].by = t})
                  + Cardinality({k \in DOMAIN pushes[c] : pushes[c][k].by = t})

\* Variant: the waiting operations are not told.
Close_Silent(c) ==
    /\ open[c] /\ mutex[c] = NoThread
    /\ open' = [open EXCEPT ![c] = FALSE]
    /\ pops' = [pops EXCEPT ![c] = <<>>]
    /\ pushes' = [pushes EXCEPT ![c] = <<>>]
    /\ UNCHANGED <<buffer, mutex, callVars, ops, wait, matched, calls, history, openOps, asleep>>

Close(c) ==
    /\ open[c] /\ mutex[c] = NoThread
    /\ open' = [open EXCEPT ![c] = FALSE]
    /\ pops' = [pops EXCEPT ![c] = <<>>]
    /\ pushes' = [pushes EXCEPT ![c] = <<>>]
    /\ openOps' = [t \in Thread |-> openOps[t] - Enrolled(t, c)]
    /\ asleep' = {t \in asleep : Enrolled(t, c) = 0}
    /\ UNCHANGED <<buffer, mutex, callVars, ops, wait, matched, calls, history>>

\* How many waiting pushes clear() runs, if there are as many: for void what
\* there is room for, otherwise one, whatever room there is.
Room(c) == IF c \in Void \/ Cap[c] = 0 THEN Cap[c] ELSE 1

\* The threads whose operations the loop over q runs if it takes n of them.
Drawn(q, n) == {q[k].by : k \in {k \in Live(q) : k <= n}}

Clear(c) ==
    LET q    == pushes[c]
        room == IF open[c] THEN Room(c) ELSE 0
        n    == Min({k \in 0..Len(q) : k = Len(q) \/ Cardinality(Drawn(q, k)) >= room})
        us   == Drawn(q, n)
    IN  /\ mutex[c] = NoThread
        /\ buffer' = [buffer EXCEPT ![c] =
                        IF c \in Void THEN [k \in 1..Cardinality(us) |-> Unit] ELSE Data(us, c)]
        /\ pushes' = [pushes EXCEPT ![c] = SubSeq(q, n + 1, Len(q))]
        /\ Match(us) /\ Ran(us)
        /\ used' = used \cup {Datum(u, c) : u \in us}
        /\ cleared' = IF pushes'[c] = <<>> THEN cleared \ {c} ELSE cleared \cup {c}
        /\ UNCHANGED <<open, pops, mutex, callVars, ops, wait, openOps, calls, last>>

-----------------------------------------------------------------------------
Step(t) == \/ PassHits(t) \/ PassMisses(t) \/ LockHits(t) \/ LockMisses(t)
           \/ Enlist(t) \/ Wait(t) \/ Leave(t)

Next ==
    \/ \E t \in Thread : Step(t) \/ TimeOut(t) \/ WakeSpuriously(t)
    \/ \E t \in Thread : \E r \in Requests[t] : Begin(t, r)
    \/ \E c \in Chan : Close(c) \/ Clear(c)

Spec == Init /\ [][Next]_vars

\* Threads that can run do and clocks go on; nobody is made to call, to close a
\* channel, or to wake up for no reason.
Fairness == \A t \in Thread : WF_vars(Step(t)) /\ WF_vars(TimeOut(t))
FairSpec == Spec /\ Fairness

-----------------------------------------------------------------------------
(* Properties.                                                             *)

\* "The class makes sure that at most one will be executed" (waiting_op_group): of the
\* operations of one request, over the pass, the registration, the wait and the time
\* after it, at most one is run.  The status tells what became of the request: success,
\* that one was run; closed, that none was and none could be run ever again; and
\* unavailable, from a request that does not wait, that none was.
StatusIsTrue ==
    \A t \in Thread :
        /\ ran[t] <= 1
        /\ pc[t] = "idle" =>
              /\ status[t] = "success" => ran[t] = 1
              /\ status[t] = "closed" =>
                    /\ ran[t] = 0
                    /\ \A i \in Indices(t) :
                          /\ ~open[ChanOf(t, i)]
                          /\ DirOf(t, i) = "pop" => buffer[ChanOf(t, i)] = <<>>
              /\ status[t] = "unavailable" /\ wait[t] = "none" => ran[t] = 0

\* The waiting queues hold pointers to operations on the stacks of the callers:
\* each is an operation of a request that has not taken it back yet, and is
\* there once.
NoDanglingOp ==
    \A c \in Chan, d \in {"pop", "push"} :
        LET q == IF d = "pop" THEN pops[c] ELSE pushes[c]
        IN  \A k \in DOMAIN q :
                /\ \/ pc[q[k].by] = "enlist" /\ q[k].op \notin todo[q[k].by]
                   \/ pc[q[k].by] = "wait"
                   \/ pc[q[k].by] = "leave" /\ q[k].op \in todo[q[k].by]
                /\ ops[q[k].by][q[k].op] = [chan |-> c, dir |-> d]
                /\ \A j \in DOMAIN q : q[j] = q[k] => j = k

\* No wake-up is lost between a failed try and the registration: while a pop
\* waits in an open channel there is nothing in it to pop, neither an element nor
\* a push of another request that waits.
NobodyWaitsForAPartner ==
    \A c \in Chan : open[c] /\ Live(pops[c]) # {} =>
        /\ buffer[c] = <<>>
        /\ \A k \in Live(pops[c]), j \in Live(pushes[c]) : pops[c][k].by = pushes[c][j].by

\* A push waits in an open channel only while the buffer is full.  The exception
\* is clear(), which empties the buffer and lets one waiting push in: the others
\* go on waiting beside the room there is.
PushWaitsForRoom ==
    \A c \in Chan : open[c] /\ Live(pushes[c]) # {} => Len(buffer[c]) >= Cap[c] \/ c \in cleared

\* Nobody sleeps beside what it waits for, but for the pushes that clear() leaves: no
\* wake-up is lost by any order of tries, registrations, matches, closes and time-outs.
NobodyWaitsInVain == NobodyWaitsForAPartner /\ PushWaitsForRoom

\* Two selects, or more, that each wait for the mutex of a channel the next one
\* keeps: _register_signals locks in the order of its own tuple.
LockCycle ==
    \E S \in SUBSET Thread \ {{}} :
        \A t \in S : pc[t] = "lock" /\ mutex[ChanOf(t, Min(todo[t]))] \in S \ {t}

Owed(t) == \/ matched[t] \/ wait[t] # "forever"
           \/ \A i \in Indices(t) : ~open[ChanOf(t, i)]

\* A request ends that was matched, whose time is limited, or whose channels are
\* all closed; unless selects block each other for ever.
CallEnds == \A t \in Thread : (pc[t] # "idle" /\ Owed(t)) ~> (pc[t] = "idle" \/ LockCycle)

\* Whatever threads, buffers, waiting queues and time do, a channel is a bounded
\* first-in first-out queue, where no value is lost, doubled or overtaken between the
\* callback of the push and that of the pop.  What the caller does with it is another
\* question: a pop may be told unavailable although its callback has run (l. 391).
Abstract == INSTANCE Channel WITH queue <- buffer
ImplementsChannel == Abstract!Spec

\* copper.hpp:64 says of unavailable that the operation "could not be completed".
\* A partner may still run it between the end of the time and the destructor of
\* the group that takes it out of the queue.
UnavailableMeansUndone ==
    \A t \in Thread : pc[t] = "idle" /\ status[t] = "unavailable" => ran[t] = 0

=============================================================================
