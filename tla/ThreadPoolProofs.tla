--------------------------- MODULE ThreadPoolProofs ---------------------------
(***************************************************************************)
(* Theorems about ThreadPool, for any number of workers, clients and       *)
(* tasks, whatever task enqueues whatever other.                           *)
(***************************************************************************)
EXTENDS ThreadPool, FiniteSetTheorems, TLAPS

(* The inductive invariant, in parts.                                      *)

\* A worker has a task while it runs it, the call to enqueue included.
WorkerInv == \A w \in Worker : job[w] # None <=> wpc[w] \in {"run", "notify"}

\* The destructor sets stop; a worker exits after that, the last join after all.
OwnerInv ==
    /\ stop <=> owner \in {"stopping", "joining", "gone"}
    /\ \A w \in Worker : wpc[w] = "exit" => stop
    /\ owner = "gone" => \A w \in Worker : wpc[w] = "exit"

\* A task that was started has returned or is some worker's.
InHand == {job[w] : w \in Worker} \ {None}
JobInv == Elements(started) = finished \cup InHand

\* Somebody is left for a task in the queue.
DrainInv == tasks # <<>> => \E w \in Worker : wpc[w] # "exit"

IInv == TypeOK /\ WorkerInv /\ OwnerInv /\ StartedInOrder /\ JobInv /\ DrainInv

-----------------------------------------------------------------------------
(* Sequences.                                                              *)

LEMMA AppendElements ==
    ASSUME NEW S, NEW s \in Seq(S), NEW x \in S
    PROVE  Elements(Append(s, x)) = Elements(s) \cup {x}
  <1>1. /\ DOMAIN s = 1 .. Len(s) /\ DOMAIN Append(s, x) = 1 .. Len(s) + 1
        /\ Len(s) \in Nat
        /\ \A i \in 1 .. Len(s) : Append(s, x)[i] = s[i]
        /\ Append(s, x)[Len(s) + 1] = x
    OBVIOUS
  <1>2. 1 .. Len(s) + 1 = (1 .. Len(s)) \cup {Len(s) + 1}
    BY <1>1
  <1>. QED
    BY <1>1, <1>2 DEF Elements

\* A task that moves from the head of a sequence to the end of another one.
LEMMA MoveHead ==
    ASSUME NEW S, NEW s \in Seq(S), NEW t \in Seq(S), t # <<>>
    PROVE  Append(s, Head(t)) \o Tail(t) = s \o t
  <1>1. Head(t) \in S /\ Tail(t) \in Seq(S) /\ Len(Tail(t)) = Len(t) - 1 /\ Len(t) > 0
    OBVIOUS
  <1>2. Append(s, Head(t)) \in Seq(S)
    BY <1>1
  <1>3. Len(Append(s, Head(t)) \o Tail(t)) = Len(s \o t)
    BY <1>1, <1>2
  <1>4. ASSUME NEW i \in 1 .. Len(s \o t)
        PROVE  (Append(s, Head(t)) \o Tail(t))[i] = (s \o t)[i]
    <2>1. CASE i <= Len(s)
      BY <1>1, <1>2, <1>3, <2>1
    <2>2. CASE i = Len(s) + 1
      BY <1>1, <1>2, <1>3, <2>2
    <2>3. CASE i > Len(s) + 1
      BY <1>1, <1>2, <1>3, <2>3
    <2>. QED
      BY <2>1, <2>2, <2>3
  <1>. QED
    BY <1>1, <1>2, <1>3, <1>4

\* A task that comes in at the end.
LEMMA AddLast ==
    ASSUME NEW S, NEW s \in Seq(S), NEW t \in Seq(S), NEW x \in S
    PROVE  s \o Append(t, x) = Append(s \o t, x)
  <1>1. s \o t \in Seq(S) /\ Append(t, x) \in Seq(S)
    OBVIOUS
  <1>2. Len(s \o Append(t, x)) = Len(Append(s \o t, x))
    BY <1>1
  <1>3. ASSUME NEW i \in 1 .. Len(Append(s \o t, x))
        PROVE  (s \o Append(t, x))[i] = Append(s \o t, x)[i]
    <2>1. CASE i <= Len(s)
      BY <1>1, <1>2, <2>1
    <2>2. CASE i > Len(s) /\ i <= Len(s) + Len(t)
      BY <1>1, <1>2, <2>2
    <2>3. CASE i = Len(s) + Len(t) + 1
      BY <1>1, <1>2, <2>3
    <2>. QED
      BY <1>1, <2>1, <2>2, <2>3
  <1>. QED
    BY <1>1, <1>2, <1>3

-----------------------------------------------------------------------------
(* Wake-ups.                                                               *)

WorkerPc == {"none", "loop", "asleep", "run", "notify", "exit"}

\* notify_one wakes one sleeper if there is one, and nobody else moves.
LEMMA WokenEffect ==
    ASSUME NEW f \in [Worker -> WorkerPc], NEW g \in Woken(f)
    PROVE  /\ g \in [Worker -> WorkerPc]
           /\ \/ g = f /\ \A v \in Worker : f[v] # "asleep"
              \/ \E v \in Worker : f[v] = "asleep" /\ g = [f EXCEPT ![v] = "loop"]
  BY DEF Woken, WorkerPc

-----------------------------------------------------------------------------
(* Types, and what a worker has in hand.                                   *)

LEMMA Init_IInv == Init => IInv
  <1>. SUFFICES ASSUME Init PROVE IInv
    OBVIOUS
  <1>. USE PoolAssumption DEF PoolAssumption, Init
  <1>1. TypeOK
    <2>1. wpc \in [Worker -> WorkerPc]
      BY DEF WorkerPc
    <2>2. /\ job \in [Worker -> Task \cup {None}]
          /\ cpc \in [Client -> {"idle", "notify"}]
      OBVIOUS
    <2>3. /\ tasks \in Seq(Task) /\ queued \in Seq(Task) /\ started \in Seq(Task)
          /\ finished \in SUBSET Task
      OBVIOUS
    <2>4. stop \in BOOLEAN /\ aborted \in BOOLEAN /\ ndebug \in BOOLEAN /\ owner = "building"
      OBVIOUS
    <2>. QED
      BY <2>1, <2>2, <2>3, <2>4, Zenon DEF TypeOK, WorkerPc
  <1>2. WorkerInv
    BY DEF WorkerInv
  <1>3. OwnerInv
    BY DEF OwnerInv
  <1>4. StartedInOrder /\ DrainInv
    BY DEF StartedInOrder, DrainInv
  <1>5. JobInv
    BY DEF JobInv, InHand, Elements
  <1>. QED
    BY <1>1, <1>2, <1>3, <1>4, <1>5 DEF IInv

\* Next, action by action.
LEMMA NextCases ==
    ASSUME [Next]_vars
    PROVE  \/ \E w \in Worker : \/ Sleep(w) \/ WakeSpuriously(w) \/ Take(w) \/ Exit(w)
                               \/ Finish(w) \/ Spawn(w) \/ AssertFails(w)
                               \/ WorkerNotifies(w) \/ Launch(w)
           \/ \E c \in Client, t \in Task : Enqueue(c, t)
           \/ \E c \in Client : ClientNotifies(c)
           \/ Built \/ NotifyAll \/ Join \/ Stop \/ UNCHANGED vars
  BY DEF Next, WorkerStep, OwnerStep, Over

LEMMA TypeStep == TypeOK /\ WorkerInv /\ [Next]_vars => TypeOK' /\ WorkerInv'
  <1>. SUFFICES ASSUME TypeOK, WorkerInv, [Next]_vars PROVE TypeOK' /\ WorkerInv'
    OBVIOUS
  <1>. USE PoolAssumption DEF PoolAssumption
  <1>1. ASSUME NEW w \in Worker,
               Sleep(w) \/ WakeSpuriously(w) \/ Exit(w) \/ AssertFails(w) \/ Launch(w)
        PROVE  TypeOK' /\ WorkerInv'
    BY <1>1 DEF TypeOK, WorkerInv, Sleep, WakeSpuriously, Exit, AssertFails, Launch,
                WorkerAt, history
  <1>2. ASSUME NEW w \in Worker, Take(w)
        PROVE  TypeOK' /\ WorkerInv'
    <2>1. Head(tasks) \in Task /\ Tail(tasks) \in Seq(Task)
      BY <1>2 DEF TypeOK, Take
    <2>2. Append(started, Head(tasks)) \in Seq(Task)
      BY <2>1 DEF TypeOK
    <2>. QED
      BY <1>2, <2>1, <2>2 DEF TypeOK, WorkerInv, Take, WorkerAt
  <1>3. ASSUME NEW w \in Worker, Finish(w)
        PROVE  TypeOK' /\ WorkerInv'
    <2>1. job[w] \in Task
      BY <1>3 DEF TypeOK, WorkerInv, Finish
    <2>. QED
      BY <1>3, <2>1 DEF TypeOK, WorkerInv, Finish, WorkerAt
  <1>4. ASSUME NEW w \in Worker, Spawn(w)
        PROVE  TypeOK' /\ WorkerInv'
    <2>1. job[w] \in Task
      BY <1>4 DEF TypeOK, WorkerInv, Spawn
    <2>2. Spawned[job[w]] \in Task
      BY <1>4, <2>1 DEF Spawn
    <2>. QED
      BY <1>4, <2>2 DEF TypeOK, WorkerInv, Spawn, Push, WorkerAt
  <1>5. ASSUME NEW w \in Worker, WorkerNotifies(w)
        PROVE  TypeOK' /\ WorkerInv'
    <2>. DEFINE f == [wpc EXCEPT ![w] = "run"]
    <2>1. f \in [Worker -> WorkerPc] /\ wpc' \in Woken(f)
      BY <1>5 DEF TypeOK, WorkerNotifies, WorkerPc
    <2>2. /\ wpc' \in [Worker -> WorkerPc]
          /\ \/ wpc' = f /\ \A v \in Worker : f[v] # "asleep"
             \/ \E v \in Worker : f[v] = "asleep" /\ wpc' = [f EXCEPT ![v] = "loop"]
      BY <2>1, WokenEffect
    <2>3. \A v \in Worker : wpc'[v] \in {"run", "notify"} <=> wpc[v] \in {"run", "notify"}
      BY <1>5, <2>2 DEF TypeOK, WorkerNotifies
    <2>. QED
      BY <1>5, <2>2, <2>3 DEF TypeOK, WorkerInv, WorkerNotifies, WorkerPc, history
  <1>6. ASSUME NEW c \in Client, NEW t \in Task, Enqueue(c, t)
        PROVE  TypeOK' /\ WorkerInv'
    BY <1>6 DEF TypeOK, WorkerInv, Enqueue, Push
  <1>7. ASSUME NEW c \in Client, ClientNotifies(c)
        PROVE  TypeOK' /\ WorkerInv'
    <2>1. wpc \in [Worker -> WorkerPc] /\ wpc' \in Woken(wpc)
      BY <1>7 DEF TypeOK, ClientNotifies, WorkerPc
    <2>2. /\ wpc' \in [Worker -> WorkerPc]
          /\ \/ wpc' = wpc
             \/ \E v \in Worker : wpc[v] = "asleep" /\ wpc' = [wpc EXCEPT ![v] = "loop"]
      BY <2>1, WokenEffect
    <2>3. \A v \in Worker : wpc'[v] \in {"run", "notify"} <=> wpc[v] \in {"run", "notify"}
      BY <2>2 DEF TypeOK
    <2>. QED
      BY <1>7, <2>2, <2>3 DEF TypeOK, WorkerInv, ClientNotifies, WorkerPc, history
  <1>8. ASSUME NotifyAll
        PROVE  TypeOK' /\ WorkerInv'
    BY <1>8 DEF TypeOK, WorkerInv, NotifyAll, history
  <1>9. ASSUME Built \/ Join \/ Stop \/ UNCHANGED vars
        PROVE  TypeOK' /\ WorkerInv'
    BY <1>9 DEF TypeOK, WorkerInv, Built, Join, Stop, vars, history
  <1>. QED
    BY <1>1, <1>2, <1>3, <1>4, <1>5, <1>6, <1>7, <1>8, <1>9, NextCases

\* notify_one lets nobody out of the pool and touches nothing else.
LEMMA NotifyEffect ==
    ASSUME TypeOK,
           \/ \E w \in Worker : WorkerNotifies(w)
           \/ \E c \in Client : ClientNotifies(c)
    PROVE  /\ \A v \in Worker : wpc'[v] = "exit" <=> wpc[v] = "exit"
           /\ UNCHANGED <<tasks, stop, owner, job, queued, started, finished>>
  <1>1. ASSUME NEW w \in Worker, WorkerNotifies(w)
        PROVE  \A v \in Worker : wpc'[v] = "exit" <=> wpc[v] = "exit"
    <2>. DEFINE f == [wpc EXCEPT ![w] = "run"]
    <2>1. f \in [Worker -> WorkerPc] /\ wpc' \in Woken(f)
      BY <1>1 DEF TypeOK, WorkerNotifies, WorkerPc
    <2>2. wpc' = f \/ \E v \in Worker : f[v] = "asleep" /\ wpc' = [f EXCEPT ![v] = "loop"]
      BY <2>1, WokenEffect
    <2>. QED
      BY <1>1, <2>2 DEF TypeOK, WorkerNotifies
  <1>2. ASSUME NEW c \in Client, ClientNotifies(c)
        PROVE  \A v \in Worker : wpc'[v] = "exit" <=> wpc[v] = "exit"
    <2>1. wpc \in [Worker -> WorkerPc] /\ wpc' \in Woken(wpc)
      BY <1>2 DEF TypeOK, ClientNotifies, WorkerPc
    <2>2. wpc' = wpc
          \/ \E v \in Worker : wpc[v] = "asleep" /\ wpc' = [wpc EXCEPT ![v] = "loop"]
      BY <2>1, WokenEffect
    <2>. QED
      BY <2>2 DEF TypeOK
  <1>. QED
    BY <1>1, <1>2 DEF WorkerNotifies, ClientNotifies, history

-----------------------------------------------------------------------------
(* The destructor and the way out.                                         *)

LEMMA OwnerKept == TypeOK /\ OwnerInv /\ [Next]_vars => OwnerInv'
  <1>. SUFFICES ASSUME TypeOK, OwnerInv, [Next]_vars PROVE OwnerInv'
    OBVIOUS
  <1>1. ASSUME NEW w \in Worker,
               \/ Sleep(w) \/ WakeSpuriously(w) \/ Take(w) \/ Exit(w)
               \/ Finish(w) \/ Spawn(w) \/ Launch(w)
        PROVE  OwnerInv'
    <2>1. /\ UNCHANGED <<stop, owner>> /\ wpc[w] # "exit"
          /\ \A v \in Worker \ {w} : wpc'[v] = wpc[v]
          /\ wpc'[w] = "exit" => stop
      BY <1>1 DEF TypeOK, Sleep, WakeSpuriously, Take, Exit, Finish, Spawn, Launch,
                  WorkerAt, Push
    <2>. QED
      BY <2>1 DEF OwnerInv
  <1>2. ASSUME NEW w \in Worker, AssertFails(w)
        PROVE  OwnerInv'
    BY <1>2 DEF OwnerInv, AssertFails
  <1>3. ASSUME \/ \E w \in Worker : WorkerNotifies(w)
               \/ \E c \in Client : ClientNotifies(c)
        PROVE  OwnerInv'
    BY <1>3, NotifyEffect DEF OwnerInv
  <1>4. ASSUME NEW c \in Client, NEW t \in Task, Enqueue(c, t)
        PROVE  OwnerInv'
    BY <1>4 DEF OwnerInv, Enqueue, Push
  <1>5. ASSUME NotifyAll
        PROVE  OwnerInv'
    <2>1. /\ stop' = stop /\ owner = "stopping" /\ owner' = "joining"
          /\ \A v \in Worker : wpc'[v] = "exit" => wpc[v] = "exit"
      BY <1>5 DEF NotifyAll
    <2>. QED
      BY <2>1 DEF OwnerInv
  <1>6. ASSUME Built \/ Stop \/ Join
        PROVE  OwnerInv'
    <2>1. CASE Built
      BY <2>1 DEF OwnerInv, Built
    <2>2. CASE Stop
      BY <2>2 DEF OwnerInv, Stop
    <2>3. CASE Join
      BY <2>3 DEF OwnerInv, Join
    <2>. QED
      BY <1>6, <2>1, <2>2, <2>3
  <1>7. ASSUME UNCHANGED vars
        PROVE  OwnerInv'
    BY <1>7 DEF OwnerInv, vars
  <1>. QED
    BY <1>1, <1>2, <1>3, <1>4, <1>5, <1>6, <1>7, NextCases

-----------------------------------------------------------------------------
(* The queue.                                                              *)

\* A task that comes into the queue comes in last.
LEMMA PushOrder ==
    ASSUME TypeOK, StartedInOrder, NEW t \in Task, Push(t)
    PROVE  StartedInOrder'
  <1>1. started \o Append(tasks, t) = Append(started \o tasks, t)
    BY AddLast DEF TypeOK
  <1>. QED
    BY <1>1 DEF StartedInOrder, Push

\* The task that Spawn puts into the queue.
LEMMA SpawnTask ==
    ASSUME TypeOK, WorkerInv, NEW w \in Worker, Spawn(w)
    PROVE  Spawned[job[w]] \in Task
  <1>1. job[w] \in Task
    BY DEF TypeOK, WorkerInv, Spawn
  <1>. QED
    BY <1>1, PoolAssumption DEF PoolAssumption, Spawn

LEMMA OrderKept ==
    TypeOK /\ WorkerInv /\ StartedInOrder /\ [Next]_vars => StartedInOrder'
  <1>. SUFFICES ASSUME TypeOK, WorkerInv, StartedInOrder, [Next]_vars PROVE StartedInOrder'
    OBVIOUS
  <1>1. ASSUME UNCHANGED <<tasks, started, queued>>
        PROVE  StartedInOrder'
    BY <1>1 DEF StartedInOrder
  <1>2. ASSUME NEW w \in Worker, Take(w)
        PROVE  StartedInOrder'
    <2>1. Append(started, Head(tasks)) \o Tail(tasks) = started \o tasks
      BY <1>2, MoveHead DEF TypeOK, Take
    <2>. QED
      BY <1>2, <2>1 DEF StartedInOrder, Take
  <1>3. ASSUME NEW w \in Worker, Spawn(w)
        PROVE  StartedInOrder'
    BY <1>3, SpawnTask, PushOrder DEF Spawn
  <1>4. ASSUME NEW c \in Client, NEW t \in Task, Enqueue(c, t)
        PROVE  StartedInOrder'
    BY <1>4, PushOrder DEF Enqueue
  <1>5. ASSUME NEW w \in Worker,
               \/ Sleep(w) \/ WakeSpuriously(w) \/ Exit(w) \/ Finish(w)
               \/ AssertFails(w) \/ WorkerNotifies(w) \/ Launch(w)
        PROVE  UNCHANGED <<tasks, started, queued>>
    BY <1>5 DEF Sleep, WakeSpuriously, Exit, Finish, AssertFails, WorkerNotifies, Launch, history
  <1>6. ASSUME NEW c \in Client, ClientNotifies(c)
        PROVE  UNCHANGED <<tasks, started, queued>>
    BY <1>6 DEF ClientNotifies, history
  <1>7. ASSUME Built \/ NotifyAll \/ Join \/ Stop \/ UNCHANGED vars
        PROVE  UNCHANGED <<tasks, started, queued>>
    BY <1>7 DEF Built, NotifyAll, Join, Stop, vars, history
  <1>. QED
    BY <1>1, <1>2, <1>3, <1>4, <1>5, <1>6, <1>7, NextCases

\* A task that was started is in hand until it is counted.
LEMMA JobKept == TypeOK /\ WorkerInv /\ JobInv /\ [Next]_vars => JobInv'
  <1>. SUFFICES ASSUME TypeOK, WorkerInv, JobInv, [Next]_vars PROVE JobInv'
    OBVIOUS
  <1>1. ASSUME UNCHANGED <<job, started, finished>>
        PROVE  JobInv'
    BY <1>1 DEF JobInv, InHand
  <1>2. ASSUME NEW w \in Worker, Take(w)
        PROVE  JobInv'
    <2>1. Head(tasks) \in Task /\ job[w] = None
      <3>1. wpc[w] = "loop" /\ tasks # <<>>
        BY <1>2 DEF Take
      <3>2. tasks \in Seq(Task)
        BY DEF TypeOK
      <3>. QED
        BY <3>1, <3>2 DEF WorkerInv
    <2>2. Elements(started)' = Elements(started) \cup {Head(tasks)}
      <3>1. Elements(Append(started, Head(tasks))) = Elements(started) \cup {Head(tasks)}
        BY <2>1, AppendElements DEF TypeOK
      <3>2. started' = Append(started, Head(tasks))
        BY <1>2 DEF Take
      <3>. QED
        BY <3>1, <3>2 DEF Elements
    <2>3. job'[w] = Head(tasks) /\ \A v \in Worker \ {w} : job'[v] = job[v]
      BY <1>2 DEF TypeOK, Take
    <2>4. Head(tasks) # None
      BY <2>1, PoolAssumption DEF PoolAssumption
    <2>5. InHand' = InHand \cup {Head(tasks)}
      BY <2>1, <2>3, <2>4 DEF InHand
    <2>. QED
      BY <1>2, <2>2, <2>5 DEF JobInv, Take
  <1>3. ASSUME NEW w \in Worker, Finish(w)
        PROVE  JobInv'
    <2>1. job[w] # None
      BY <1>3 DEF WorkerInv, Finish
    <2>2. job'[w] = None /\ \A v \in Worker \ {w} : job'[v] = job[v]
      BY <1>3 DEF TypeOK, Finish
    <2>3. InHand \cup {job[w]} = InHand' \cup {job[w]} /\ job[w] \in InHand
      BY <2>1, <2>2 DEF InHand
    <2>4. finished' = finished \cup {job[w]} /\ Elements(started)' = Elements(started)
      BY <1>3 DEF Finish, Elements
    <2>. QED
      BY <2>3, <2>4 DEF JobInv
  <1>4. ASSUME NEW w \in Worker,
               \/ Sleep(w) \/ WakeSpuriously(w) \/ Exit(w) \/ Spawn(w)
               \/ AssertFails(w) \/ WorkerNotifies(w) \/ Launch(w)
        PROVE  UNCHANGED <<job, started, finished>>
    BY <1>4 DEF Sleep, WakeSpuriously, Exit, Spawn, Push, AssertFails, WorkerNotifies,
                Launch, history
  <1>5. ASSUME NEW c \in Client, ClientNotifies(c) \/ \E t \in Task : Enqueue(c, t)
        PROVE  UNCHANGED <<job, started, finished>>
    BY <1>5 DEF ClientNotifies, Enqueue, Push, history
  <1>6. ASSUME Built \/ NotifyAll \/ Join \/ Stop \/ UNCHANGED vars
        PROVE  UNCHANGED <<job, started, finished>>
    BY <1>6 DEF Built, NotifyAll, Join, Stop, vars, history
  <1>. QED
    BY <1>1, <1>2, <1>3, <1>4, <1>5, <1>6, NextCases

\* The last worker leaves an empty queue behind.
LEMMA DrainKept == TypeOK /\ OwnerInv /\ DrainInv /\ [Next]_vars => DrainInv'
  <1>. SUFFICES ASSUME TypeOK, OwnerInv, DrainInv, [Next]_vars PROVE DrainInv'
    OBVIOUS
  <1>1. ASSUME NEW w \in Worker,
               \/ Sleep(w) \/ WakeSpuriously(w) \/ Take(w)
               \/ Finish(w) \/ Spawn(w) \/ Launch(w)
        PROVE  DrainInv'
    <2>1. wpc'[w] # "exit"
      BY <1>1 DEF TypeOK, Sleep, WakeSpuriously, Take, Finish, Spawn, Launch, WorkerAt
    <2>. QED
      BY <2>1 DEF DrainInv
  <1>2. ASSUME NEW w \in Worker, Exit(w)
        PROVE  DrainInv'
    BY <1>2 DEF DrainInv, Exit
  <1>3. ASSUME \/ \E w \in Worker : WorkerNotifies(w)
               \/ \E c \in Client : ClientNotifies(c)
        PROVE  DrainInv'
    BY <1>3, NotifyEffect DEF DrainInv
  <1>4. ASSUME NEW c \in Client, NEW t \in Task, Enqueue(c, t)
        PROVE  DrainInv'
    <2>1. \A w \in Worker : wpc'[w] # "exit"
      BY <1>4 DEF OwnerInv, Enqueue
    <2>. QED
      BY <2>1, PoolAssumption DEF DrainInv, PoolAssumption
  <1>5. ASSUME NotifyAll
        PROVE  DrainInv'
    <2>1. tasks' = tasks /\ \A v \in Worker : wpc'[v] = "exit" => wpc[v] = "exit"
      BY <1>5 DEF NotifyAll
    <2>. QED
      BY <2>1 DEF DrainInv
  <1>6. ASSUME Built \/ Stop \/ Join \/ UNCHANGED vars \/ \E w \in Worker : AssertFails(w)
        PROVE  DrainInv'
    BY <1>6 DEF DrainInv, Built, Stop, Join, AssertFails, vars
  <1>. QED
    BY <1>1, <1>2, <1>3, <1>4, <1>5, <1>6, NextCases

LEMMA Step_IInv == IInv /\ [Next]_vars => IInv'
  BY TypeStep, OwnerKept, OrderKept, JobKept, DrainKept DEF IInv

LEMMA PoolInvariance == Spec => []IInv
  BY Init_IInv, Step_IInv, PTL DEF Spec

-----------------------------------------------------------------------------
(* No lost wake-up: with the types, the property carries itself.           *)

Asleep   == {w \in Worker : wpc[w] = "asleep"}
Coming   == {w \in Worker : wpc[w] \in {"loop", "notify"}}
Calling  == {c \in Client : cpc[c] = "notify"}

LEMMA WorkersAreFinite ==
    ASSUME NEW F \in SUBSET Worker
    PROVE  IsFiniteSet(F) /\ Cardinality(F) \in Nat
  BY FS_Subset, FS_CardinalityType, PoolAssumption DEF PoolAssumption

LEMMA ClientsAreFinite ==
    ASSUME NEW F \in SUBSET Client
    PROVE  IsFiniteSet(F) /\ Cardinality(F) \in Nat
  BY FS_Subset, FS_CardinalityType, PoolAssumption DEF PoolAssumption

LEMMA OneMore ==
    ASSUME NEW F, IsFiniteSet(F), NEW x, x \notin F
    PROVE  Cardinality(F \cup {x}) = Cardinality(F) + 1
  BY FS_AddElement

LEMMA OneLess ==
    ASSUME NEW F, IsFiniteSet(F), NEW x, x \in F
    PROVE  Cardinality(F \ {x}) = Cardinality(F) - 1
  BY FS_RemoveElement

\* What every step has to show.
LEMMA NoIdleGoal ==
    ASSUME Asleep' # {} => Len(tasks') <= Cardinality(Coming') + Cardinality(Calling')
    PROVE  NoIdleWhileWork'
  BY DEF NoIdleWhileWork, Asleep, Coming, Calling

LEMMA NoIdleIs ==
    ASSUME NoIdleWhileWork, Asleep # {}
    PROVE  Len(tasks) <= Cardinality(Coming) + Cardinality(Calling)
  BY DEF NoIdleWhileWork, Asleep, Coming, Calling

LEMMA NoIdleKept == TypeOK /\ NoIdleWhileWork /\ [Next]_vars => NoIdleWhileWork'
  <1>. SUFFICES ASSUME TypeOK, NoIdleWhileWork, [Next]_vars PROVE NoIdleWhileWork'
    OBVIOUS
  <1>. DEFINE m == Cardinality(Coming)    n == Cardinality(Calling)
  <1>0. /\ IsFiniteSet(Coming) /\ m \in Nat /\ IsFiniteSet(Calling) /\ n \in Nat
        /\ Cardinality(Coming') \in Nat /\ Cardinality(Calling') \in Nat
        /\ Len(tasks) \in Nat
    <2>1. /\ Coming \in SUBSET Worker /\ Coming' \in SUBSET Worker
          /\ Calling \in SUBSET Client /\ Calling' \in SUBSET Client
      BY DEF Coming, Calling
    <2>2. Len(tasks) \in Nat
      BY DEF TypeOK
    <2>. QED
      BY <2>1, <2>2, WorkersAreFinite, ClientsAreFinite
  \* A worker that was elsewhere comes; the queue is the same or has one more.
  <1>1. ASSUME NEW w \in Worker,
               \/ WakeSpuriously(w) \/ Launch(w) \/ Finish(w) \/ Spawn(w)
        PROVE  NoIdleWhileWork'
    <2>1. /\ w \notin Coming /\ Coming' = Coming \cup {w} /\ Calling' = Calling
          /\ Asleep' \subseteq Asleep
      BY <1>1 DEF TypeOK, WakeSpuriously, Launch, Finish, Spawn, WorkerAt, Coming, Calling, Asleep
    <2>2. Cardinality(Coming') = m + 1
      BY <2>1, <1>0, OneMore
    <2>3. Len(tasks') <= Len(tasks) + 1
      BY <1>1, <1>0 DEF TypeOK, WakeSpuriously, Launch, Finish, Spawn, Push
    <2>. QED
      BY <1>0, <2>1, <2>2, <2>3, NoIdleIs, NoIdleGoal
  \* A worker takes a task out of the queue.
  <1>2. ASSUME NEW w \in Worker, Take(w)
        PROVE  NoIdleWhileWork'
    <2>1. /\ w \in Coming /\ Coming' = Coming \ {w} /\ Calling' = Calling
          /\ Asleep' = Asleep
      BY <1>2 DEF TypeOK, Take, WorkerAt, Coming, Calling, Asleep
    <2>2. Cardinality(Coming') = m - 1
      BY <2>1, <1>0, OneLess
    <2>3. Len(tasks') = Len(tasks) - 1
      BY <1>2 DEF TypeOK, Take
    <2>. QED
      BY <1>0, <2>1, <2>2, <2>3, NoIdleIs, NoIdleGoal
  \* The queue is empty.
  <1>3. ASSUME NEW w \in Worker, Sleep(w) \/ Exit(w)
        PROVE  NoIdleWhileWork'
    <2>1. Len(tasks') = 0
      BY <1>3 DEF Sleep, Exit
    <2>. QED
      BY <1>0, <2>1, NoIdleGoal
  \* A worker's notify_one.
  <1>4. ASSUME NEW w \in Worker, WorkerNotifies(w)
        PROVE  NoIdleWhileWork'
    <2>. DEFINE f == [wpc EXCEPT ![w] = "run"]
    <2>1. f \in [Worker -> WorkerPc] /\ wpc' \in Woken(f)
      BY <1>4 DEF TypeOK, WorkerNotifies, WorkerPc
    <2>2. \/ wpc' = f /\ \A v \in Worker : f[v] # "asleep"
          \/ \E v \in Worker : f[v] = "asleep" /\ wpc' = [f EXCEPT ![v] = "loop"]
      BY <2>1, WokenEffect
    <2>3. Calling' = Calling /\ tasks' = tasks /\ wpc[w] = "notify"
      BY <1>4 DEF WorkerNotifies, Calling
    <2>4. CASE wpc' = f /\ \A v \in Worker : f[v] # "asleep"
      <3>1. Asleep' = {}
        BY <2>4 DEF Asleep
      <3>. QED
        BY <3>1, NoIdleGoal
    <2>5. ASSUME NEW v \in Worker, f[v] = "asleep", wpc' = [f EXCEPT ![v] = "loop"]
          PROVE  NoIdleWhileWork'
      <3>1. v # w /\ wpc[v] = "asleep"
        BY <2>5 DEF TypeOK
      <3>2. /\ w \in Coming /\ v \notin Coming \ {w} /\ v \in Asleep
            /\ Coming' = (Coming \ {w}) \cup {v}
        BY <2>3, <2>5, <3>1 DEF TypeOK, Coming, Asleep
      <3>3. Cardinality(Coming \ {w}) = m - 1 /\ IsFiniteSet(Coming \ {w})
        BY <1>0, <3>2, OneLess, FS_RemoveElement
      <3>4. Cardinality(Coming') = m
        BY <1>0, <3>2, <3>3, OneMore
      <3>. QED
        BY <1>0, <2>3, <3>2, <3>4, NoIdleIs, NoIdleGoal
    <2>. QED
      BY <2>2, <2>4, <2>5
  \* A client's task comes in, and its notify_one is due.
  <1>5. ASSUME NEW c \in Client, NEW t \in Task, Enqueue(c, t)
        PROVE  NoIdleWhileWork'
    <2>1. /\ c \notin Calling /\ Calling' = Calling \cup {c} /\ Coming' = Coming
          /\ Asleep' = Asleep
      BY <1>5 DEF TypeOK, Enqueue, Coming, Calling, Asleep
    <2>2. Cardinality(Calling') = n + 1
      BY <2>1, <1>0, OneMore
    <2>3. Len(tasks') = Len(tasks) + 1
      BY <1>5 DEF TypeOK, Enqueue, Push
    <2>. QED
      BY <1>0, <2>1, <2>2, <2>3, NoIdleIs, NoIdleGoal
  \* A client's notify_one.
  <1>6. ASSUME NEW c \in Client, ClientNotifies(c)
        PROVE  NoIdleWhileWork'
    <2>1. wpc \in [Worker -> WorkerPc] /\ wpc' \in Woken(wpc)
      BY <1>6 DEF TypeOK, ClientNotifies, WorkerPc
    <2>2. \/ wpc' = wpc /\ \A v \in Worker : wpc[v] # "asleep"
          \/ \E v \in Worker : wpc[v] = "asleep" /\ wpc' = [wpc EXCEPT ![v] = "loop"]
      BY <2>1, WokenEffect
    <2>3. c \in Calling /\ Calling' = Calling \ {c} /\ tasks' = tasks
      BY <1>6 DEF TypeOK, ClientNotifies, Calling
    <2>4. CASE wpc' = wpc /\ \A v \in Worker : wpc[v] # "asleep"
      <3>1. Asleep' = {}
        BY <2>4 DEF Asleep
      <3>. QED
        BY <3>1, NoIdleGoal
    <2>5. ASSUME NEW v \in Worker, wpc[v] = "asleep", wpc' = [wpc EXCEPT ![v] = "loop"]
          PROVE  NoIdleWhileWork'
      <3>1. v \notin Coming /\ v \in Asleep /\ Coming' = Coming \cup {v}
        BY <2>5 DEF TypeOK, Coming, Asleep
      <3>2. Cardinality(Coming') = m + 1 /\ Cardinality(Calling') = n - 1
        BY <1>0, <2>3, <3>1, OneMore, OneLess
      <3>. QED
        BY <1>0, <2>3, <3>1, <3>2, NoIdleIs, NoIdleGoal
    <2>. QED
      BY <2>2, <2>4, <2>5
  <1>7. ASSUME NotifyAll
        PROVE  NoIdleWhileWork'
    <2>1. Asleep' = {}
      BY <1>7 DEF NotifyAll, Asleep
    <2>. QED
      BY <2>1, NoIdleGoal
  <1>8. ASSUME \/ Built \/ Join \/ Stop \/ UNCHANGED vars
               \/ \E w \in Worker : AssertFails(w)
        PROVE  NoIdleWhileWork'
    <2>1. UNCHANGED <<tasks, wpc, cpc>>
      BY <1>8 DEF Built, Join, Stop, AssertFails, vars
    <2>. QED
      BY <2>1 DEF NoIdleWhileWork
  <1>. QED
    BY <1>1, <1>2, <1>3, <1>4, <1>5, <1>6, <1>7, <1>8, NextCases

-----------------------------------------------------------------------------
(* The theorems.                                                           *)

\* Every variable keeps its type.
THEOREM TypeCorrect == Spec => []TypeOK
  <1>1. IInv => TypeOK
    BY DEF IInv
  <1>. QED
    BY PoolInvariance, <1>1, PTL

\* Tasks are started first in, first out, each once, whatever the number of
\* workers that take them (l. 54-55, 80).
THEOREM FirstInFirstOut == Spec => []StartedInOrder
  <1>1. IInv => StartedInOrder
    BY DEF IInv
  <1>. QED
    BY PoolInvariance, <1>1, PTL

\* When the destructor has returned, every task that ever entered the queue has
\* returned, the ones that tasks enqueued during the joins too (l. 52-53, 87-95).
THEOREM DestructorDrains == Spec => []JoinedMeansRun
  <1>1. IInv => JoinedMeansRun
    <2>. SUFFICES ASSUME IInv, owner = "gone" PROVE finished = Elements(queued)
      BY DEF JoinedMeansRun
    <2>1. \A w \in Worker : wpc[w] = "exit"
      BY DEF IInv, OwnerInv
    <2>2. tasks = <<>>
      BY <2>1 DEF IInv, DrainInv
    <2>3. started = queued
      BY <2>2 DEF IInv, StartedInOrder, TypeOK
    <2>4. InHand = {}
      BY <2>1 DEF IInv, WorkerInv, InHand
    <2>. QED
      BY <2>3, <2>4 DEF IInv, JobInv
  <1>. QED
    BY PoolInvariance, <1>1, PTL

\* No task waits while a worker sleeps, unless somebody is on the way to it: no
\* wake-up is lost though notify_one is called outside the mutex (l. 47-51, 82).
THEOREM NoLostWakeUp == Spec => []NoIdleWhileWork
  <1>1. Init => NoIdleWhileWork
    BY DEF Init, NoIdleWhileWork
  <1>. QED
    BY TypeCorrect, <1>1, NoIdleKept, PTL DEF Spec

\* In a build without NDEBUG nothing enters the queue after stop (l. 77-78).
THEOREM NothingAfterStop == Spec => ClosedInDebug
  <1>1. IInv /\ [Next]_vars => (stop /\ ~ndebug => queued' = queued)
    <2>. SUFFICES ASSUME IInv, [Next]_vars, stop, ~ndebug PROVE queued' = queued
      OBVIOUS
    <2>1. ASSUME NEW w \in Worker, Spawn(w) PROVE FALSE
      BY <2>1 DEF Spawn, Allowed
    <2>2. ASSUME NEW c \in Client, NEW t \in Task, Enqueue(c, t) PROVE FALSE
      BY <2>2 DEF Enqueue, IInv, OwnerInv
    <2>3. ASSUME NEW w \in Worker,
                 \/ Sleep(w) \/ WakeSpuriously(w) \/ Take(w) \/ Exit(w) \/ Finish(w)
                 \/ AssertFails(w) \/ WorkerNotifies(w) \/ Launch(w)
          PROVE  queued' = queued
      BY <2>3 DEF Sleep, WakeSpuriously, Take, Exit, Finish, AssertFails, WorkerNotifies,
                  Launch, history
    <2>4. ASSUME NEW c \in Client, ClientNotifies(c) PROVE queued' = queued
      BY <2>4 DEF ClientNotifies, history
    <2>5. ASSUME Built \/ NotifyAll \/ Join \/ Stop \/ UNCHANGED vars
          PROVE  queued' = queued
      BY <2>5 DEF Built, NotifyAll, Join, Stop, vars, history
    <2>. QED
      BY <2>1, <2>2, <2>3, <2>4, <2>5, NextCases
  <1>. QED
    BY PoolInvariance, <1>1, PTL DEF Spec, ClosedInDebug

=============================================================================
