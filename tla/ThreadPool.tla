------------------------------ MODULE ThreadPool ------------------------------
(***************************************************************************)
(* cpp/third/utils/thread_poool.h: a pool of threads with one queue.       *)
(*                                                                         *)
(* A section under queue_mutex does not block except in condition.wait,    *)
(* which releases the mutex and falls asleep at once, so each section is   *)
(* one step.  notify_one and notify_all come after the section: steps of   *)
(* their own.                                                              *)
(*                                                                         *)
(* The program around the pool calls enqueue from its clients before it    *)
(* calls the destructor; a task may call enqueue itself at any time, and   *)
(* the destructor waits for it.                                            *)
(***************************************************************************)
EXTENDS Integers, Sequences, FiniteSets

CONSTANTS
    Worker,   \* the threads of the pool
    Client,   \* threads of the program that call enqueue
    Task,     \* the tasks, each enqueued once
    Spawned,  \* the task that a task enqueues when it runs, or None
    None,     \* no task
    Builds    \* the builds: TRUE defines NDEBUG, and assert(stop == false) is not there

ASSUME PoolAssumption ==
    /\ Worker # {} /\ IsFiniteSet(Worker)
    /\ IsFiniteSet(Client)
    /\ None \notin Task
    /\ Spawned \in [Task -> Task \cup {None}]
    /\ Builds \subseteq BOOLEAN

VARIABLES
    tasks,    \* the queue
    stop,     \* the flag
    owner,    \* the constructor's and the destructor's progress
    wpc,      \* per worker: where it is
    job,      \* per worker: its task
    cpc,      \* per client: where it is
    aborted,  \* the assertion failed
    ndebug,   \* the build that runs
    \* History: read only to enqueue each task once, and by the properties.
    queued,   \* the tasks in the order in which they entered the queue
    started,  \* the tasks in the order in which they were taken
    finished  \* the tasks that returned

history == <<queued, started, finished>>
vars == <<tasks, stop, owner, wpc, job, cpc, aborted, ndebug, history>>

Elements(s) == {s[i] : i \in DOMAIN s}

\* Tasks that no other task enqueues.
Root == {t \in Task : \A u \in Task : Spawned[u] # t}

TypeOK ==
    /\ tasks \in Seq(Task)
    /\ stop \in BOOLEAN
    /\ owner \in {"building", "open", "stopping", "joining", "gone"}
    /\ wpc \in [Worker -> {"none", "loop", "asleep", "run", "notify", "exit"}]
    /\ job \in [Worker -> Task \cup {None}]
    /\ cpc \in [Client -> {"idle", "notify"}]
    /\ aborted \in BOOLEAN /\ ndebug \in BOOLEAN
    /\ queued \in Seq(Task) /\ started \in Seq(Task)
    /\ finished \in SUBSET Task

Init ==
    /\ tasks = <<>>
    /\ stop = FALSE
    /\ owner = "building"
    /\ wpc = [w \in Worker |-> "none"]
    /\ job = [w \in Worker |-> None]
    /\ cpc = [c \in Client |-> "idle"]
    /\ aborted = FALSE /\ ndebug \in Builds
    /\ queued = <<>> /\ started = <<>> /\ finished = {}

WorkerAt(w, l) == wpc' = [wpc EXCEPT ![w] = l]

-----------------------------------------------------------------------------
(* The constructor launches the workers one by one; they run at once.      *)

Launch(w) ==
    /\ owner = "building" /\ wpc[w] = "none"
    /\ WorkerAt(w, "loop")
    /\ UNCHANGED <<tasks, stop, owner, job, cpc, aborted, ndebug, history>>

Built ==
    /\ owner = "building" /\ \A w \in Worker : wpc[w] # "none"
    /\ owner' = "open"
    /\ UNCHANGED <<tasks, stop, wpc, job, cpc, aborted, ndebug, history>>

-----------------------------------------------------------------------------
(* A worker: condition.wait with its predicate, then a task or the return. *)

Sleep(w) ==
    /\ ~aborted /\ wpc[w] = "loop"
    /\ ~stop /\ tasks = <<>>
    /\ WorkerAt(w, "asleep")
    /\ UNCHANGED <<tasks, stop, owner, job, cpc, aborted, ndebug, history>>

\* condition.wait may return for no reason.
WakeSpuriously(w) ==
    /\ ~aborted /\ wpc[w] = "asleep"
    /\ WorkerAt(w, "loop")
    /\ UNCHANGED <<tasks, stop, owner, job, cpc, aborted, ndebug, history>>

\* Variant: the task is left in the queue.
Take_NoPop(w) ==
    /\ ~aborted /\ wpc[w] = "loop"
    /\ tasks # <<>>
    /\ job' = [job EXCEPT ![w] = Head(tasks)]
    /\ started' = Append(started, Head(tasks))
    /\ WorkerAt(w, "run")
    /\ UNCHANGED <<tasks, stop, owner, cpc, aborted, ndebug, queued, finished>>

Take(w) ==
    /\ ~aborted /\ wpc[w] = "loop"
    /\ tasks # <<>>
    /\ job' = [job EXCEPT ![w] = Head(tasks)]
    /\ tasks' = Tail(tasks)
    /\ started' = Append(started, Head(tasks))
    /\ WorkerAt(w, "run")
    /\ UNCHANGED <<stop, owner, cpc, aborted, ndebug, queued, finished>>

\* Variant: stop ends the worker whatever is in the queue.
Exit_Early(w) ==
    /\ ~aborted /\ wpc[w] = "loop"
    /\ stop
    /\ WorkerAt(w, "exit")
    /\ UNCHANGED <<tasks, stop, owner, job, cpc, aborted, ndebug, history>>

Exit(w) ==
    /\ ~aborted /\ wpc[w] = "loop"
    /\ stop /\ tasks = <<>>
    /\ WorkerAt(w, "exit")
    /\ UNCHANGED <<tasks, stop, owner, job, cpc, aborted, ndebug, history>>

\* Variant: the task is let go before it is counted.
Finish_LetGo(w) ==
    /\ ~aborted /\ wpc[w] = "run" /\ Spawned[job[w]] \in {None} \cup Elements(queued)
    /\ job' = [job EXCEPT ![w] = None]
    /\ finished' = finished \cup {job'[w]}
    /\ WorkerAt(w, "loop")
    /\ UNCHANGED <<tasks, stop, owner, cpc, aborted, ndebug, queued, started>>

\* The task returns, or throws into its future.
Finish(w) ==
    /\ ~aborted /\ wpc[w] = "run" /\ Spawned[job[w]] \in {None} \cup Elements(queued)
    /\ finished' = finished \cup {job[w]}
    /\ job' = [job EXCEPT ![w] = None]
    /\ WorkerAt(w, "loop")
    /\ UNCHANGED <<tasks, stop, owner, cpc, aborted, ndebug, queued, started>>

-----------------------------------------------------------------------------
(* enqueue.                                                                *)

Push(t) ==
    /\ tasks' = Append(tasks, t)
    /\ queued' = Append(queued, t)
    /\ UNCHANGED <<stop, owner, job, aborted, ndebug, started, finished>>

\* assert(stop == false)
Allowed == ndebug \/ ~stop

Enqueue(c, t) ==
    /\ ~aborted /\ owner = "open" /\ cpc[c] = "idle"
    /\ t \in Root \ Elements(queued)
    /\ Push(t)
    /\ cpc' = [cpc EXCEPT ![c] = "notify"]
    /\ UNCHANGED wpc

\* A running task enqueues another one.
Spawn(w) ==
    /\ ~aborted /\ wpc[w] = "run" /\ Spawned[job[w]] \notin {None} \cup Elements(queued)
    /\ Allowed
    /\ Push(Spawned[job[w]])
    /\ WorkerAt(w, "notify")
    /\ UNCHANGED cpc

AssertFails(w) ==
    /\ ~aborted /\ wpc[w] = "run" /\ Spawned[job[w]] \notin {None} \cup Elements(queued)
    /\ ~Allowed
    /\ aborted' = TRUE
    /\ UNCHANGED <<tasks, stop, owner, wpc, job, cpc, ndebug, history>>

\* The workers asleep that notify_one may wake: one, if there is one.
Woken(f) == IF \E w \in Worker : f[w] = "asleep"
            THEN {[f EXCEPT ![w] = "loop"] : w \in {v \in Worker : f[v] = "asleep"}}
            ELSE {f}

\* Variant: nobody is woken.
ClientNotifies_Nobody(c) ==
    /\ ~aborted /\ cpc[c] = "notify"
    /\ cpc' = [cpc EXCEPT ![c] = "idle"]
    /\ UNCHANGED <<tasks, stop, owner, wpc, job, aborted, ndebug, history>>

ClientNotifies(c) ==
    /\ ~aborted /\ cpc[c] = "notify"
    /\ cpc' = [cpc EXCEPT ![c] = "idle"]
    /\ wpc' \in Woken(wpc)
    /\ UNCHANGED <<tasks, stop, owner, job, aborted, ndebug, history>>

WorkerNotifies(w) ==
    /\ ~aborted /\ wpc[w] = "notify"
    /\ wpc' \in Woken([wpc EXCEPT ![w] = "run"])
    /\ UNCHANGED <<tasks, stop, owner, job, cpc, aborted, ndebug, history>>

-----------------------------------------------------------------------------
(* The destructor.                                                         *)

Stop ==
    /\ ~aborted /\ owner = "open" /\ \A c \in Client : cpc[c] = "idle"
    /\ stop' = TRUE
    /\ owner' = "stopping"
    /\ UNCHANGED <<tasks, wpc, job, cpc, aborted, ndebug, history>>

\* Variant: notify_one.
NotifyAll_One ==
    /\ ~aborted /\ owner = "stopping"
    /\ owner' = "joining"
    /\ wpc' \in Woken(wpc)
    /\ UNCHANGED <<tasks, stop, job, cpc, aborted, ndebug, history>>

NotifyAll ==
    /\ ~aborted /\ owner = "stopping"
    /\ owner' = "joining"
    /\ wpc' = [w \in Worker |-> IF wpc[w] = "asleep" THEN "loop" ELSE wpc[w]]
    /\ UNCHANGED <<tasks, stop, job, cpc, aborted, ndebug, history>>

\* The last join returns.
Join ==
    /\ ~aborted /\ owner = "joining" /\ \A w \in Worker : wpc[w] = "exit"
    /\ owner' = "gone"
    /\ UNCHANGED <<tasks, stop, wpc, job, cpc, aborted, ndebug, history>>

\* The pool is destroyed or the process aborted: nothing is left to do.
Over == (owner = "gone" \/ aborted) /\ UNCHANGED vars

-----------------------------------------------------------------------------
WorkerStep(w) == \/ Sleep(w) \/ Take(w) \/ Exit(w) \/ Finish(w)
                 \/ Spawn(w) \/ AssertFails(w) \/ WorkerNotifies(w)
OwnerStep == Built \/ NotifyAll \/ Join \/ \E w \in Worker : Launch(w)

Next ==
    \/ \E w \in Worker : WorkerStep(w) \/ WakeSpuriously(w)
    \/ \E c \in Client, t \in Task : Enqueue(c, t)
    \/ \E c \in Client : ClientNotifies(c)
    \/ OwnerStep \/ Stop \/ Over

Spec == Init /\ [][Next]_vars

\* Threads that can run do; a wake-up for no reason is not counted on, and
\* neither is the program's decision to enqueue or to destroy.
Fairness ==
    /\ \A w \in Worker : WF_vars(WorkerStep(w))
    /\ \A c \in Client : WF_vars(ClientNotifies(c))
    /\ WF_vars(OwnerStep)
FairSpec == Spec /\ Fairness

-----------------------------------------------------------------------------
(* Properties.                                                             *)

\* Tasks are started in the order in which they entered the queue, each once,
\* however many workers take them (l. 54-55, 80).
StartedInOrder == started \o tasks = queued

\* The destructor returns only after every task that ever entered the queue has
\* returned, the ones enqueued by tasks while it was waiting included (l. 52-53,
\* 87-95).
JoinedMeansRun == owner = "gone" => finished = Elements(queued)

\* No task waits while a worker sleeps: for every task in the queue a worker is
\* on its way to it or a notification is (l. 47-51, 82, outside the mutex).
NoIdleWhileWork ==
    (\E w \in Worker : wpc[w] = "asleep") =>
        Len(tasks) <= Cardinality({w \in Worker : wpc[w] \in {"loop", "notify"}})
                      + Cardinality({c \in Client : cpc[c] = "notify"})

\* "don't allow enqueueing after stopping the pool" (l. 77).
ClosedWhenStopped == [][stop => queued' = queued]_vars

\* The build that keeps the assertion keeps its promise: whatever a task does
\* while the destructor waits for it, nothing enters the queue (l. 77-78).
ClosedInDebug == [][stop /\ ~ndebug => queued' = queued]_vars

\* Every task that entered the queue runs, with no help of spurious wake-ups.
EveryTaskRuns == \A t \in Task : t \in Elements(queued) ~> t \in finished \/ aborted

\* The destructor returns: no worker sleeps through stop.
DestructorReturns == owner = "stopping" ~> owner = "gone" \/ aborted

\* Nothing that was begun is left undone, tasks and destructor (l. 47-53, 82, 87-95).
WorkEnds == EveryTaskRuns /\ DestructorReturns

=============================================================================
