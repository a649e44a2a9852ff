---------------------------- MODULE ProcessesProofs ----------------------------
(***************************************************************************)
(* Theorems about SingleCase and about all parts of Processes, for any     *)
(* processes, threads, packages, hooks, lines, scripts and pipes.          *)
(*                                                                         *)
(* What is proved of SingleCase and of Shell is proved here; MainLog and   *)
(* FieldAccess have modules of their own, whose theorems are carried over  *)
(* (LogTheorems, FieldTheorems).                                           *)
(***************************************************************************)
EXTENDS Processes, SequenceTheorems, TLAPS

-----------------------------------------------------------------------------
(* SingleCase: the inductive invariant, in parts.                          *)

\* A granted lock is kept by a thread that is by itself.
KeptInv == \A t \in Thread : pc[t] \in {"callback", "unlock"} /\ ~crowd[t] => lock = Home[t]

HasFile(t) == pc[t] \notin {"idle", "denied"}

\* Two threads of a process that have the file open together both know it.
CrowdInv == \A t, u \in Thread :
                t # u /\ Home[t] = Home[u] /\ HasFile(t) /\ HasFile(u) => crowd[t]

CaseInv == TypeOK /\ KeptInv /\ CrowdInv /\ LockIsOwed

\* A lock that is taken away was of the same process: any other thread of it that
\* counts on the lock is not by itself.
LEMMA ReleaseKeeps ==
    ASSUME CaseInv, NEW t \in Thread, HasFile(t), Release(Home[t]),
           NEW u \in Thread \ {t}, pc[u] \in {"callback", "unlock"}, ~crowd[u]
    PROVE  lock' = Home[u]
  <1>1. Home[t] # Home[u]
    BY DEF CaseInv, CrowdInv, HasFile
  <1>2. lock = Home[u]
    BY DEF CaseInv, KeptInv
  <1>. QED
    BY <1>1, <1>2 DEF Release

LEMMA CaseTypeStep == TypeOK /\ [Next]_vars => TypeOK'
  <1>. SUFFICES ASSUME TypeOK, [Next]_vars PROVE TypeOK'
    OBVIOUS
  <1>. USE CaseAssumption DEF CaseAssumption, TypeOK, Pc
  <1>1. ASSUME NEW t \in Thread, Open(t) PROVE TypeOK'
    BY <1>1 DEF Open, Goto, Fellows
  <1>2. ASSUME NEW t \in Thread, SetLock(t) PROVE TypeOK'
    BY <1>2 DEF SetLock, Goto
  <1>3. ASSUME NEW t \in Thread, Refused(t) \/ SetLockFails(t) PROVE TypeOK'
    BY <1>3 DEF Refused, SetLockFails, Fail, Goto
  <1>4. ASSUME NEW t \in Thread, CallbackEnds(t) PROVE TypeOK'
    BY <1>4 DEF CallbackEnds, Goto
  <1>5. ASSUME NEW t \in Thread, Unlock(t) \/ UnlockFails(t) PROVE TypeOK'
    BY <1>5 DEF Unlock, UnlockFails, Fail, Release, Goto
  <1>6. ASSUME NEW t \in Thread, Close(t) PROVE TypeOK'
    BY <1>6 DEF Close, Release, Goto
  <1>7. ASSUME NEW p \in Proc, Kill(p) PROVE TypeOK'
    BY <1>7 DEF Kill, Release
  <1>8. ASSUME NEW t \in Thread, OpenFails(t) \/ ReturnDenied(t) PROVE TypeOK'
    BY <1>8 DEF OpenFails, ReturnDenied, Fail, Goto
  <1>9. ASSUME UNCHANGED vars PROVE TypeOK'
    BY <1>9 DEF vars
  <1>. QED
    BY <1>1, <1>2, <1>3, <1>4, <1>5, <1>6, <1>7, <1>8, <1>9 DEF Next, Inside

LEMMA KeptStep == CaseInv /\ [Next]_vars => KeptInv'
  <1>. SUFFICES ASSUME CaseInv, [Next]_vars PROVE KeptInv'
    OBVIOUS
  <1>. USE CaseAssumption DEF CaseAssumption
  <1>0. TypeOK /\ KeptInv
    BY DEF CaseInv
  <1>1. ASSUME NEW t \in Thread, Open(t) PROVE KeptInv'
    <2>1. /\ lock' = lock /\ pc'[t] = "opened"
          /\ \A u \in Thread \ {t} : pc'[u] = pc[u] /\ (crowd[u] => crowd'[u])
      BY <1>0, <1>1 DEF TypeOK, Open, Goto
    <2>. QED
      BY <1>0, <2>1 DEF KeptInv
  \* Whoever counts on the lock has it already.
  <1>2. ASSUME NEW t \in Thread, SetLock(t) PROVE KeptInv'
    <2>1. /\ lock \in {None, Home[t]} /\ lock' = Home[t] /\ crowd' = crowd
          /\ \A u \in Thread \ {t} : pc'[u] = pc[u]
      BY <1>0, <1>2 DEF TypeOK, SetLock, Goto
    <2>2. \A u \in Thread : Home[u] # None
      OBVIOUS
    <2>. QED
      BY <1>0, <2>1, <2>2 DEF KeptInv
  <1>3. ASSUME NEW t \in Thread,
               \/ OpenFails(t) \/ Refused(t) \/ SetLockFails(t)
               \/ CallbackEnds(t) \/ UnlockFails(t) \/ ReturnDenied(t)
        PROVE  KeptInv'
    <2>1. /\ lock' = lock /\ crowd' = crowd
          /\ \A u \in Thread \ {t} : pc'[u] = pc[u]
          /\ pc'[t] \in {"callback", "unlock"} => pc[t] \in {"callback", "unlock"}
      BY <1>0, <1>3 DEF TypeOK, OpenFails, Refused, SetLockFails, CallbackEnds,
         UnlockFails, ReturnDenied, Goto
    <2>. QED
      BY <1>0, <2>1 DEF KeptInv
  <1>4. ASSUME NEW t \in Thread, Unlock(t) \/ Close(t) PROVE KeptInv'
    <2>1. /\ Release(Home[t]) /\ HasFile(t) /\ pc'[t] \in {"close", "idle"}
          /\ \A u \in Thread \ {t} : pc'[u] = pc[u] /\ crowd'[u] = crowd[u]
      BY <1>0, <1>4 DEF TypeOK, Unlock, Close, Goto, HasFile
    <2>. QED
      BY <2>1, ReleaseKeeps DEF KeptInv
  <1>5. ASSUME NEW p \in Proc, Kill(p) PROVE KeptInv'
    <2>1. \A u \in Thread : /\ Home[u] = p => pc'[u] = "idle"
                            /\ Home[u] # p => pc'[u] = pc[u] /\ crowd'[u] = crowd[u]
      BY <1>5 DEF Kill
    <2>2. lock # p => lock' = lock
      BY <1>5 DEF Kill, Release
    <2>. QED
      BY <1>0, <2>1, <2>2 DEF KeptInv
  <1>6. ASSUME UNCHANGED vars PROVE KeptInv'
    BY <1>0, <1>6 DEF KeptInv, vars
  <1>. QED
    BY <1>1, <1>2, <1>3, <1>4, <1>5, <1>6 DEF Next, Inside

LEMMA CrowdStep == TypeOK /\ CrowdInv /\ [Next]_vars => CrowdInv'
  <1>. SUFFICES ASSUME TypeOK, CrowdInv, [Next]_vars PROVE CrowdInv'
    OBVIOUS
  <1>1. ASSUME NEW t \in Thread, Open(t) PROVE CrowdInv'
    <2>1. /\ \A u \in Thread \ {t} : pc'[u] = pc[u]
          /\ crowd' = [u \in Thread |-> IF u = t THEN Fellows(t) # {}
                                        ELSE crowd[u] \/ u \in Fellows(t)]
      BY <1>1 DEF TypeOK, Open, Goto
    <2>2. \A u \in Thread \ {t} : Home[u] = Home[t] /\ HasFile(u) => u \in Fellows(t)
      BY DEF Fellows, HasFile
    <2>. QED
      BY <2>1, <2>2 DEF CrowdInv, HasFile
  <1>2. ASSUME NEW t \in Thread,
               \/ SetLock(t) \/ Refused(t) \/ SetLockFails(t)
               \/ CallbackEnds(t) \/ Unlock(t) \/ UnlockFails(t)
        PROVE  CrowdInv'
    <2>1. HasFile(t) /\ crowd' = crowd /\ \A u \in Thread \ {t} : pc'[u] = pc[u]
      BY <1>2 DEF TypeOK, SetLock, Refused, SetLockFails, CallbackEnds, Unlock, UnlockFails,
         Goto, HasFile
    <2>. QED
      BY <2>1 DEF CrowdInv, HasFile
  <1>3. ASSUME NEW t \in Thread, Close(t) \/ OpenFails(t) \/ ReturnDenied(t) PROVE CrowdInv'
    <2>1. pc'[t] \in {"idle", "denied"}
          /\ \A u \in Thread \ {t} : pc'[u] = pc[u] /\ crowd'[u] = crowd[u]
      BY <1>3 DEF TypeOK, Close, OpenFails, ReturnDenied, Goto
    <2>. QED
      BY <2>1 DEF CrowdInv, HasFile
  <1>4. ASSUME NEW p \in Proc, Kill(p) PROVE CrowdInv'
    <2>1. \A u \in Thread : /\ Home[u] = p => pc'[u] = "idle"
                            /\ Home[u] # p => pc'[u] = pc[u] /\ crowd'[u] = crowd[u]
      BY <1>4 DEF Kill
    <2>. QED
      BY <2>1 DEF CrowdInv, HasFile
  <1>5. ASSUME UNCHANGED vars PROVE CrowdInv'
    BY <1>5 DEF CrowdInv, HasFile, vars
  <1>. QED
    BY <1>1, <1>2, <1>3, <1>4, <1>5 DEF Next, Inside

LEMMA OwedStep == TypeOK /\ LockIsOwed /\ [Next]_vars => LockIsOwed'
  <1>. SUFFICES ASSUME TypeOK, LockIsOwed, [Next]_vars PROVE LockIsOwed'
    OBVIOUS
  \* Nobody who owes the lock stops owing it.
  <1>1. ASSUME lock' = lock, \A u \in Thread : Owes(u) => Owes(u)'
        PROVE  LockIsOwed'
    BY <1>1 DEF LockIsOwed
  <1>2. ASSUME NEW t \in Thread,
               \/ Open(t) \/ OpenFails(t) \/ Refused(t) \/ SetLockFails(t)
               \/ CallbackEnds(t) \/ UnlockFails(t) \/ ReturnDenied(t)
        PROVE  LockIsOwed'
    <2>1. lock' = lock /\ \A u \in Thread : Owes(u) => Owes(u)'
      BY <1>2 DEF TypeOK, Open, OpenFails, Refused, SetLockFails, CallbackEnds, UnlockFails,
         ReturnDenied, Goto, Fail, Owes
    <2>. QED
      BY <1>1, <2>1
  <1>3. ASSUME NEW t \in Thread, SetLock(t) PROVE LockIsOwed'
    <2>1. lock' = Home[t] /\ Owes(t)'
      BY <1>3 DEF TypeOK, SetLock, Goto, Owes
    <2>. QED
      BY <2>1 DEF LockIsOwed
  <1>4. ASSUME NEW t \in Thread, Unlock(t) \/ Close(t) PROVE LockIsOwed'
    <2>1. Release(Home[t]) /\ \A u \in Thread \ {t} : Owes(u) => Owes(u)'
      BY <1>4 DEF TypeOK, Unlock, Close, Goto, Owes
    <2>. QED
      BY <2>1 DEF LockIsOwed, Release
  <1>5. ASSUME NEW p \in Proc, Kill(p) PROVE LockIsOwed'
    <2>1. Release(p) /\ \A u \in Thread : Home[u] # p /\ Owes(u) => Owes(u)'
      BY <1>5 DEF Kill, Owes
    <2>. QED
      BY <2>1 DEF LockIsOwed, Release
  <1>6. ASSUME UNCHANGED vars PROVE LockIsOwed'
    BY <1>1, <1>6 DEF vars, Owes
  <1>. QED
    BY <1>2, <1>3, <1>4, <1>5, <1>6 DEF Next, Inside

LEMMA CaseInvariance == Spec => []CaseInv
  <1>1. Init => CaseInv
    BY CaseAssumption DEF CaseAssumption, Init, CaseInv, TypeOK, Pc, KeptInv, CrowdInv,
       HasFile, LockIsOwed
  <1>2. CaseInv /\ [Next]_vars => CaseInv'
    BY CaseTypeStep, KeptStep, CrowdStep, OwedStep DEF CaseInv
  <1>. QED
    BY <1>1, <1>2, PTL DEF Spec

-----------------------------------------------------------------------------
(* The theorems about SingleCase.                                          *)

\* The variables of singleCase keep their types: the lock is a process's or nobody's.
THEOREM CaseTypes == Spec => []TypeOK
  <1>1. CaseInv => TypeOK
    BY DEF CaseInv
  <1>. QED
    BY CaseInvariance, <1>1, PTL

\* Callbacks of different processes exclude each other as long as no process has
\* two threads in singleCase (l. 92-109).
THEOREM MutualExclusion == Spec => []Exclusive
  <1>1. CaseInv => Exclusive
    BY DEF CaseInv, KeptInv, Exclusive
  <1>. QED
    BY CaseInvariance, <1>1, PTL

\* No call, finished or killed, leaves the lock behind, not even when its F_UNLCK fails
\* (l. 92-109).
THEOREM NoLockLeaks == Spec => []LockIsOwed
  <1>1. CaseInv => LockIsOwed
    BY DEF CaseInv
  <1>. QED
    BY CaseInvariance, <1>1, PTL

\* A caller whose own system calls succeed is refused only while another process has a
\* thread that owes the lock (l. 86-105).
THEOREM RefusalJustified == Spec => RefusedForAReason
  <1>1. CaseInv /\ [Next]_vars =>
          \A t \in Thread : pc[t] = "opened" /\ pc'[t] = "close" /\ ~failed'[t] =>
            \E u \in Thread : Home[u] # Home[t] /\ Owes(u)
    <2>. SUFFICES ASSUME CaseInv, [Next]_vars, NEW t \in Thread, pc[t] = "opened",
                         pc'[t] = "close", ~failed'[t]
                  PROVE  \E u \in Thread : Home[u] # Home[t] /\ Owes(u)
      OBVIOUS
    <2>1. Refused(t)
      <3>1. TypeOK
        BY DEF CaseInv
      <3>2. ~UNCHANGED vars /\ \A p \in Proc : ~Kill(p)
        BY DEF vars, Kill
      <3>3. ASSUME NEW u \in Thread, Open(u) \/ OpenFails(u) \/ Inside(u)
            PROVE  Refused(t)
        <4>1. u = t /\ (Refused(u) \/ SetLockFails(u))
          BY <3>1, <3>3 DEF TypeOK, Inside, Open, OpenFails, SetLock, Refused, SetLockFails,
             CallbackEnds, Unlock, UnlockFails, Close, ReturnDenied, Goto
        <4>2. ~SetLockFails(t)
          BY <3>1 DEF TypeOK, SetLockFails, Fail
        <4>. QED
          BY <4>1, <4>2
      <3>. QED
        BY <3>2, <3>3 DEF Next
    <2>. QED
      BY <2>1 DEF CaseInv, LockIsOwed, Refused
  <1>. QED
    BY CaseInvariance, <1>1, PTL DEF Spec, RefusedForAReason

-----------------------------------------------------------------------------
(* Shell: the inductive invariant, in parts.                               *)

\* Numbers that grow along a sequence.
Grows(ns) == \A i, j \in DOMAIN ns : i < j => ns[i] < ns[j]

\* Every write is in one of the pipes, or was read.
CountInv ==
    /\ Len(readFrom["out"]) + Len(pipe["out"]) + Len(readFrom["err"]) + Len(pipe["err"]) = sent
    /\ exited => sent = Len(script)

\* What was read of a stream comes before what is in its pipe.
OrderInv ==
    \A s \in Sh!Stream :
        /\ Grows(readFrom[s]) /\ Grows(pipe[s])
        /\ \A i \in DOMAIN readFrom[s], j \in DOMAIN pipe[s] : readFrom[s][i] < pipe[s][j]

\* RunUserShell has all writes in one pipe, and reads them one after the other.
UserInv ==
    function = "user" =>
        /\ readFrom["err"] = <<>> /\ pipe["err"] = <<>> /\ result = readFrom["out"]
        /\ \A i \in DOMAIN readFrom["out"] : readFrom["out"][i] = i
        /\ \A j \in DOMAIN pipe["out"] : pipe["out"][j] = Len(readFrom["out"]) + j

\* RunShell counts what it reads.
RootInv == function = "root" => Sh!AddUp(result, Len(readFrom["out"]) + Len(readFrom["err"]))

\* The caller leaves a stream at its end.
EndInv ==
    /\ listener \notin {"out", "failed"} => exited /\ pipe["out"] = <<>>
    /\ listener = "err" => function = "root"
    /\ listener = "wait" => function = "user"
    /\ Sh!Answered => pipe["err"] = <<>>

ShellInv == Sh!TypeOK /\ CountInv /\ OrderInv /\ UserInv /\ RootInv /\ EndInv

-----------------------------------------------------------------------------
(* Shell: sequences and sums.                                              *)

\* A read moves the head of the pipe to the end of what was read.
LEMMA ReadMoves ==
    ASSUME NEW S, NEW f \in Seq(S), NEW h \in Seq(S), NEW n \in 1 .. Len(h)
    PROVE  /\ Len(f) \in Nat /\ Len(h) \in Nat
           /\ SubSeq(h, 1, n) \in Seq(S) /\ Len(SubSeq(h, 1, n)) = n
           /\ f \o SubSeq(h, 1, n) \in Seq(S) /\ Len(f \o SubSeq(h, 1, n)) = Len(f) + n
           /\ \A i \in 1 .. Len(f) : (f \o SubSeq(h, 1, n))[i] = f[i]
           /\ \A i \in 1 .. n : (f \o SubSeq(h, 1, n))[Len(f) + i] = h[i]
           /\ SubSeq(h, n + 1, Len(h)) \in Seq(S) /\ Len(SubSeq(h, n + 1, Len(h))) = Len(h) - n
           /\ \A i \in 1 .. Len(h) - n : SubSeq(h, n + 1, Len(h))[i] = h[n + i]
  <1>1. Len(f) \in Nat /\ Len(h) \in Nat /\ n \in Nat /\ 1 <= n /\ n <= Len(h)
    BY LenProperties
  <1>2. \A i \in 1 .. Len(h) : h[i] \in S
    BY ElementOfSeq
  <1>3. PICK a : a = SubSeq(h, 1, n)
    OBVIOUS
  <1>4. a \in Seq(S) /\ Len(a) = n /\ \A i \in 1 .. n : a[i] = h[i]
    <2>1. /\ SubSeq(h, 1, n) \in Seq(S)
          /\ Len(SubSeq(h, 1, n)) = IF 1 <= n THEN n - 1 + 1 ELSE 0
          /\ \A i \in 1 .. n - 1 + 1 : SubSeq(h, 1, n)[i] = h[1 + i - 1]
      <3>1. \A i \in 1 .. n : h[i] \in S
        BY <1>1, <1>2
      <3>2. 1 \in Int /\ n \in Int
        BY <1>1
      <3>. QED
        BY <3>1, <3>2, SubSeqProperties
    <2>2. n - 1 + 1 = n
      BY <1>1
    <2>3. \A i \in 1 .. n : a[i] = h[i]
      <3>1. ASSUME NEW i \in 1 .. n
            PROVE  a[i] = h[i]
        <4>1. 1 + i - 1 = i
          BY <1>1
        <4>2. i \in 1 .. n - 1 + 1
          BY <2>2
        <4>3. a[i] = h[1 + i - 1]
          BY <1>3, <2>1, <4>2
        <4>. QED
          BY <4>1, <4>3, Zenon
      <3>. QED
        BY <3>1
    <2>4. Len(a) = n
      BY <1>1, <1>3, <2>1, <2>2
    <2>. QED
      BY <1>3, <2>1, <2>3, <2>4, Zenon
  <1>5. PICK b : b = f \o a
    OBVIOUS
  <1>6. /\ b \in Seq(S) /\ Len(b) = Len(f) + n
        /\ \A i \in 1 .. Len(f) + n : b[i] = IF i <= Len(f) THEN f[i] ELSE a[i - Len(f)]
    <2>1. a \in Seq(S) /\ Len(a) = n
      BY <1>4
    <2>2. /\ f \o a \in Seq(S) /\ Len(f \o a) = Len(f) + Len(a)
          /\ \A i \in 1 .. Len(f) + Len(a) : (f \o a)[i] = IF i <= Len(f) THEN f[i] ELSE a[i - Len(f)]
      BY <2>1, ConcatProperties
    <2>. QED
      BY <1>5, <2>1, <2>2, Zenon
  <1>7. \A i \in 1 .. Len(f) : b[i] = f[i]
    BY <1>1, <1>6
  <1>8. \A i \in 1 .. n : b[Len(f) + i] = h[i]
    <2>1. ASSUME NEW i \in 1 .. n
          PROVE  b[Len(f) + i] = h[i]
      <3>1. Len(f) + i \in 1 .. Len(f) + n /\ ~(Len(f) + i <= Len(f)) /\ Len(f) + i - Len(f) = i
        BY <1>1
      <3>. QED
        BY <1>4, <1>6, <3>1
    <2>. QED
      BY <2>1
  <1>9. PICK c : c = SubSeq(h, n + 1, Len(h))
    OBVIOUS
  <1>10. c \in Seq(S) /\ Len(c) = Len(h) - n /\ \A i \in 1 .. Len(h) - n : c[i] = h[n + i]
    <2>1. /\ SubSeq(h, n + 1, Len(h)) \in Seq(S)
          /\ Len(SubSeq(h, n + 1, Len(h))) = IF n + 1 <= Len(h) THEN Len(h) - (n + 1) + 1 ELSE 0
          /\ \A i \in 1 .. Len(h) - (n + 1) + 1 : SubSeq(h, n + 1, Len(h))[i] = h[n + 1 + i - 1]
      <3>1. \A i \in n + 1 .. Len(h) : h[i] \in S
        BY <1>1, <1>2
      <3>2. n + 1 \in Int /\ Len(h) \in Int
        BY <1>1
      <3>. QED
        BY <3>1, <3>2, SubSeqProperties
    <2>2. Len(h) - (n + 1) + 1 = Len(h) - n /\ (~(n + 1 <= Len(h)) => Len(h) - n = 0)
      BY <1>1
    <2>3. \A i \in 1 .. Len(h) - n : n + 1 + i - 1 = n + i
      BY <1>1
    <2>. QED
      BY <1>9, <2>1, <2>2, <2>3
  <1>. QED
    BY <1>1, <1>3, <1>4, <1>5, <1>6, <1>7, <1>8, <1>9, <1>10

\* One more number.
LEMMA AddUpOneMore ==
    ASSUME NEW ns \in Seq(Nat), NEW n \in Nat, NEW k \in Nat, Sh!AddUp(ns, n)
    PROVE  Sh!AddUp(ns \o <<k>>, n + k)
  <1>1. PICK sum \in [0 .. Len(ns) -> 0 .. n] :
            sum[0] = 0 /\ sum[Len(ns)] = n /\ \A i \in 1 .. Len(ns) : sum[i] = sum[i - 1] + ns[i]
    BY DEF Sh!AddUp
  <1>2. PICK m \in Nat : m = Len(ns)
    BY LenProperties
  <1>3. PICK ms : ms = ns \o <<k>>
    OBVIOUS
  <1>4. Len(ms) = m + 1 /\ (\A i \in 1 .. m : ms[i] = ns[i]) /\ ms[m + 1] = k
    <2>1. <<k>> \in Seq(Nat) /\ Len(<<k>>) = 1 /\ <<k>>[1] = k
      OBVIOUS
    <2>0. PICK one \in Seq(Nat) : one = <<k>>
      BY <2>1
    <2>2. /\ Len(ms) = m + 1
          /\ \A i \in 1 .. m + 1 : ms[i] = IF i <= m THEN ns[i] ELSE one[i - m]
      BY <1>2, <1>3, <2>0, <2>1, ConcatProperties
    <2>3. m + 1 \in 1 .. m + 1 /\ ~(m + 1 <= m) /\ m + 1 - m = 1
      BY <1>2
    <2>4. \A i \in 1 .. m : i \in 1 .. m + 1 /\ i <= m
      BY <1>2
    <2>. QED
      BY <2>0, <2>1, <2>2, <2>3, <2>4
  <1>5. PICK more : more = [i \in 0 .. m + 1 |-> IF i <= m THEN sum[i] ELSE n + k]
    OBVIOUS
  <1>6. more \in [0 .. m + 1 -> 0 .. n + k]
    <2>1. \A i \in 0 .. m + 1 : (IF i <= m THEN sum[i] ELSE n + k) \in 0 .. n + k
      <3>1. \A i \in 0 .. m : sum[i] \in 0 .. n
        BY <1>1, <1>2
      <3>2. \A i \in 0 .. m + 1 : i <= m => i \in 0 .. m
        BY <1>2
      <3>. QED
        BY <3>1, <3>2
    <2>. QED
      BY <1>5, <2>1
  <1>7. more[0] = 0
    BY <1>1, <1>2, <1>5
  <1>8. more[m + 1] = n + k
    BY <1>2, <1>5
  <1>9. \A i \in 1 .. m + 1 : more[i] = more[i - 1] + ms[i]
    <2>1. ASSUME NEW i \in 1 .. m
          PROVE  more[i] = more[i - 1] + ms[i]
      <3>1. i \in 0 .. m + 1 /\ i <= m /\ i - 1 \in 0 .. m + 1 /\ i - 1 <= m
        BY <1>2
      <3>2. more[i] = sum[i] /\ more[i - 1] = sum[i - 1]
        BY <1>5, <3>1
      <3>3. sum[i] = sum[i - 1] + ns[i]
        BY <1>1, <1>2
      <3>. QED
        BY <1>4, <3>2, <3>3
    <2>2. more[m + 1 - 1] = n
      <3>1. m + 1 - 1 = m /\ m \in 0 .. m + 1 /\ m <= m
        BY <1>2
      <3>. QED
        BY <1>1, <1>2, <1>5, <3>1
    <2>3. \A i \in 1 .. m + 1 : i \in 1 .. m \/ i = m + 1
      BY <1>2
    <2>4. more[m + 1] = more[m + 1 - 1] + ms[m + 1]
      BY <1>4, <1>8, <2>2
    <2>5. ASSUME NEW i \in 1 .. m + 1
          PROVE  more[i] = more[i - 1] + ms[i]
      <3>1. CASE i \in 1 .. m
        BY <2>1, <3>1
      <3>2. CASE i = m + 1
        BY <2>2, <1>4, <1>8, <3>2
      <3>. QED
        BY <2>3, <3>1, <3>2
    <2>. QED
      BY <2>5
  <1>. QED
    BY <1>3, <1>4, <1>6, <1>7, <1>8, <1>9 DEF Sh!AddUp

-----------------------------------------------------------------------------
(* Shell: the steps.                                                       *)

\* A script has MaxWrites writes at most, and no more than those are done.
LEMMA ScriptFits ==
    ASSUME Sh!ShellAssumption, Sh!TypeOK
    PROVE  /\ Len(script) \in Nat /\ Len(script) <= MaxWrites
           /\ \A i \in 1 .. Len(script) : script[i] \in Sh!Stream
           /\ sent \in Nat /\ sent <= Len(script)
  <1>1. PICK n \in 0 .. MaxWrites : script \in [1 .. n -> Sh!Stream]
    BY DEF Sh!TypeOK, Sh!Scripts
  <1>2. n \in Nat /\ n <= MaxWrites
    BY <1>1 DEF Sh!ShellAssumption
  <1>3. script \in Seq(Sh!Stream) /\ Len(script) = n
    BY <1>1, <1>2, SeqDef, LenProperties
  <1>. QED
    BY <1>1, <1>2, <1>3 DEF Sh!TypeOK

\* The writes in the pipes, and those that were read, are among those that were done.
LEMMA DoneBefore ==
    ASSUME Sh!ShellAssumption, Sh!TypeOK, NEW s \in Sh!Stream
    PROVE  /\ pipe[s] \in Seq(1 .. sent) /\ readFrom[s] \in Seq(1 .. sent)
           /\ Len(pipe[s]) \in Nat /\ DOMAIN pipe[s] = 1 .. Len(pipe[s])
           /\ Len(readFrom[s]) \in Nat /\ DOMAIN readFrom[s] = 1 .. Len(readFrom[s])
           /\ \A i \in DOMAIN pipe[s] : pipe[s][i] \in 1 .. sent
           /\ \A i \in DOMAIN readFrom[s] : readFrom[s][i] \in 1 .. sent
  <1>1. pipe[s] \in Seq(1 .. sent) /\ readFrom[s] \in Seq(1 .. sent)
    BY DEF Sh!TypeOK
  <1>. QED
    BY <1>1, LenProperties, ElementOfSeq

LEMMA WriteStep ==
    ASSUME Sh!ShellAssumption, ShellInv, Sh!Write
    PROVE  ShellInv'
  <1>0. Sh!TypeOK /\ CountInv /\ OrderInv /\ UserInv /\ RootInv /\ EndInv
    BY DEF ShellInv
  <1>1. PICK w \in Nat : w = sent
    BY <1>0, ScriptFits
  <1>2. PICK s \in Sh!Stream : s = Sh!Target(w + 1)
    <2>1. w + 1 \in 1 .. Len(script)
      BY <1>0, <1>1, ScriptFits DEF Sh!Write
    <2>2. script[w + 1] \in Sh!Stream
      BY <1>0, <2>1, ScriptFits
    <2>. QED
      BY <2>2 DEF Sh!Target, Sh!Stream
  <1>3. /\ w < Len(script) /\ Len(pipe[s]) < Capacity /\ sent' = w + 1
        /\ UNCHANGED <<function, script, exit, exited, listener, result, readFrom>>
    BY <1>1, <1>2 DEF Sh!Write, Sh!HasRoom
  <1>4. \A e \in Sh!Stream :
            /\ pipe[e] \in Seq(1 .. w + 1) /\ readFrom[e] \in Seq(1 .. w + 1)
            /\ Len(pipe[e]) \in Nat /\ DOMAIN pipe[e] = 1 .. Len(pipe[e])
            /\ \A i \in DOMAIN pipe[e] : pipe[e][i] < w + 1
            /\ \A i \in DOMAIN readFrom[e] : readFrom[e][i] < w + 1
    <2>1. 1 .. w \subseteq 1 .. w + 1 /\ \A i \in 1 .. w : i < w + 1
      BY <1>1
    <2>. QED
      BY <1>0, <1>1, <2>1, DoneBefore, SeqMonotonic
  <1>5. /\ \A e \in Sh!Stream \ {s} : pipe'[e] = pipe[e]
        /\ pipe'[s] = Append(pipe[s], w + 1)
        /\ DOMAIN pipe' = Sh!Stream
    BY <1>0, <1>1, <1>2 DEF Sh!Write, Sh!TypeOK
  <1>6. /\ pipe'[s] \in Seq(1 .. w + 1) /\ Len(pipe'[s]) = Len(pipe[s]) + 1
        /\ DOMAIN pipe'[s] = 1 .. Len(pipe[s]) + 1
        /\ \A i \in 1 .. Len(pipe[s]) : pipe'[s][i] = pipe[s][i]
        /\ pipe'[s][Len(pipe[s]) + 1] = w + 1
    <2>1. w + 1 \in 1 .. w + 1
      BY <1>1
    <2>2. pipe[s] \in Seq(1 .. w + 1)
      BY <1>4
    <2>3. /\ Append(pipe[s], w + 1) \in Seq(1 .. w + 1)
          /\ Len(Append(pipe[s], w + 1)) = Len(pipe[s]) + 1
          /\ \A i \in 1 .. Len(pipe[s]) : Append(pipe[s], w + 1)[i] = pipe[s][i]
          /\ Append(pipe[s], w + 1)[Len(pipe[s]) + 1] = w + 1
      BY <2>1, <2>2, AppendProperties
    <2>. QED
      BY <1>5, <2>3, LenProperties
  <1>7. ~exited /\ listener \in {"out", "failed"}
    <2>1. Len(script) \in Nat
      BY <1>0, ScriptFits
    <2>. QED
      BY <1>0, <1>1, <1>3, <2>1 DEF CountInv, EndInv
  <1>8. Sh!TypeOK'
    <2>1. /\ pipe' \in [Sh!Stream -> Seq(1 .. w + 1)] /\ readFrom' \in [Sh!Stream -> Seq(1 .. w + 1)]
      <3>1. \A e \in Sh!Stream : pipe'[e] \in Seq(1 .. w + 1)
        BY <1>4, <1>5, <1>6
      <3>2. pipe' = [e \in Sh!Stream |-> pipe'[e]]
        BY <1>0, <1>5 DEF Sh!Write, Sh!TypeOK
      <3>. QED
        BY <1>0, <1>3, <1>4, <3>1, <3>2 DEF Sh!TypeOK
    <2>2. \A e \in Sh!Stream : Len(pipe'[e]) <= Capacity
      <3>1. Len(pipe[s]) + 1 <= Capacity
        BY <1>3, <1>4 DEF Sh!ShellAssumption
      <3>2. \A e \in Sh!Stream : Len(pipe[e]) <= Capacity
        BY <1>0 DEF Sh!TypeOK
      <3>. QED
        BY <1>5, <1>6, <3>1, <3>2
    <2>3. sent' \in 0 .. Len(script)
      BY <1>0, <1>1, <1>3, ScriptFits
    <2>. QED
      BY <1>0, <1>3, <2>1, <2>2, <2>3 DEF Sh!TypeOK
  <1>9. CountInv'
    <2>1. PICK fo \in Nat, fe \in Nat, po \in Nat, pe \in Nat :
              /\ fo = Len(readFrom["out"]) /\ fe = Len(readFrom["err"])
              /\ po = Len(pipe["out"]) /\ pe = Len(pipe["err"])
      BY <1>0, DoneBefore DEF Sh!Stream
    <2>2. fo + po + fe + pe = w
      BY <1>0, <1>1, <2>1, Zenon DEF CountInv
    <2>3. CASE s = "out"
      <3>1. Len(pipe'["out"]) = po + 1 /\ pipe'["err"] = pipe["err"]
        BY <1>5, <1>6, <2>1, <2>3 DEF Sh!Stream
      <3>2. fo + (po + 1) + fe + pe = w + 1
        BY <2>2
      <3>. QED
        BY <1>3, <1>7, <2>1, <3>1, <3>2, Zenon DEF CountInv
    <2>4. CASE s = "err"
      <3>1. Len(pipe'["err"]) = pe + 1 /\ pipe'["out"] = pipe["out"]
        BY <1>5, <1>6, <2>1, <2>4 DEF Sh!Stream
      <3>2. fo + po + fe + (pe + 1) = w + 1
        BY <2>2
      <3>. QED
        BY <1>3, <1>7, <2>1, <3>1, <3>2, Zenon DEF CountInv
    <2>. QED
      BY <2>3, <2>4 DEF Sh!Stream
  <1>10. OrderInv'
    <2>1. SUFFICES ASSUME NEW e \in Sh!Stream
          PROVE  /\ Grows(readFrom[e]) /\ Grows(pipe'[e])
                 /\ \A i \in DOMAIN readFrom[e], j \in DOMAIN pipe'[e] : readFrom[e][i] < pipe'[e][j]
      BY <1>3 DEF OrderInv, Grows
    <2>2. /\ Grows(readFrom[e]) /\ Grows(pipe[e])
          /\ \A i \in DOMAIN readFrom[e], j \in DOMAIN pipe[e] : readFrom[e][i] < pipe[e][j]
      BY <1>0 DEF OrderInv
    <2>3. CASE e # s
      BY <1>5, <2>2, <2>3
    <2>4. CASE e = s
      <3>1. PICK l \in Nat : l = Len(pipe[s])
        BY <1>4
      <3>2. \A j \in 1 .. l + 1 : j \in 1 .. l \/ j = l + 1
        BY <3>1
      <3>3. \A i, j \in 1 .. l + 1 : i < j => i \in 1 .. l
        BY <3>1
      <3>4. Grows(pipe'[s])
        <4>1. SUFFICES ASSUME NEW i \in 1 .. l + 1, NEW j \in 1 .. l + 1, i < j
              PROVE  pipe'[s][i] < pipe'[s][j]
          BY <1>6, <3>1 DEF Grows
        <4>2. i \in 1 .. l /\ pipe'[s][i] = pipe[s][i] /\ pipe[s][i] < w + 1
          BY <1>4, <1>6, <3>1, <3>3, <4>1
        <4>3. CASE j \in 1 .. l
          <5>1. pipe'[s][j] = pipe[s][j] /\ pipe[s][i] < pipe[s][j]
            BY <1>4, <1>6, <2>2, <2>4, <3>1, <4>1, <4>2, <4>3 DEF Grows
          <5>. QED
            BY <4>2, <5>1
        <4>4. CASE j = l + 1
          BY <1>6, <3>1, <4>2, <4>4
        <4>. QED
          BY <3>2, <4>3, <4>4
      <3>5. \A i \in DOMAIN readFrom[s], j \in 1 .. l + 1 : readFrom[s][i] < pipe'[s][j]
        <4>1. SUFFICES ASSUME NEW i \in DOMAIN readFrom[s], NEW j \in 1 .. l + 1
              PROVE  readFrom[s][i] < pipe'[s][j]
          OBVIOUS
        <4>2. CASE j \in 1 .. l
          BY <1>4, <1>6, <2>2, <2>4, <3>1, <4>2
        <4>3. CASE j = l + 1
          <5>1. pipe'[s][l + 1] = w + 1
            BY <1>6, <3>1, Zenon
          <5>2. readFrom[s][i] < w + 1
            BY <1>4
          <5>. QED
            BY <4>3, <5>1, <5>2, Zenon
        <4>. QED
          BY <3>2, <4>2, <4>3
      <3>. QED
        BY <1>6, <2>2, <2>4, <3>1, <3>4, <3>5
    <2>. QED
      BY <2>3, <2>4
  <1>11. UserInv'
    <2>1. SUFFICES ASSUME function = "user"
          PROVE  /\ readFrom["err"] = <<>> /\ pipe'["err"] = <<>> /\ result = readFrom["out"]
                 /\ \A i \in DOMAIN readFrom["out"] : readFrom["out"][i] = i
                 /\ \A j \in DOMAIN pipe'["out"] : pipe'["out"][j] = Len(readFrom["out"]) + j
      BY <1>3 DEF UserInv
    <2>2. s = "out"
      BY <1>2, <2>1 DEF Sh!Target
    <2>3. /\ readFrom["err"] = <<>> /\ pipe["err"] = <<>> /\ result = readFrom["out"]
          /\ \A i \in DOMAIN readFrom["out"] : readFrom["out"][i] = i
          /\ \A j \in DOMAIN pipe["out"] : pipe["out"][j] = Len(readFrom["out"]) + j
      BY <1>0, <2>1 DEF UserInv
    <2>4. pipe'["err"] = <<>>
      BY <1>5, <2>2, <2>3 DEF Sh!Stream
    <2>5. PICK l \in Nat, k \in Nat : l = Len(pipe["out"]) /\ k = Len(readFrom["out"])
      BY <1>0, DoneBefore DEF Sh!Stream
    <2>6. Len(<<>>) = 0
      BY EmptySeq
    <2>7. k + l = w
      <3>1. k + l + 0 + 0 = w
        BY <1>0, <1>1, <2>3, <2>5, <2>6, Zenon DEF CountInv
      <3>. QED
        BY <3>1
    <2>8. ASSUME NEW j \in 1 .. l + 1
          PROVE  pipe'["out"][j] = k + j
      <3>1. CASE j \in 1 .. l
        BY <1>4, <1>6, <2>2, <2>3, <2>5, <3>1
      <3>2. CASE j = l + 1
        <4>1. pipe'["out"][l + 1] = w + 1
          BY <1>6, <2>2, <2>5, Zenon
        <4>2. w + 1 = k + (l + 1)
          BY <2>7
        <4>. QED
          BY <3>2, <4>1, <4>2, Zenon
      <3>3. j \in 1 .. l \/ j = l + 1
        BY <2>5
      <3>. QED
        BY <3>1, <3>2, <3>3
    <2>. QED
      BY <1>6, <2>2, <2>3, <2>4, <2>5, <2>8
  <1>12. RootInv'
    BY <1>0, <1>3 DEF RootInv, Sh!AddUp
  <1>13. EndInv'
    BY <1>0, <1>3, <1>7 DEF EndInv, Sh!Answered
  <1>. QED
    BY <1>8, <1>9, <1>10, <1>11, <1>12, <1>13 DEF ShellInv

LEMMA ReadStep ==
    ASSUME Sh!ShellAssumption, ShellInv, NEW n \in 1 .. Capacity, Sh!Read(n)
    PROVE  ShellInv'
  <1>0. Sh!TypeOK /\ CountInv /\ OrderInv /\ UserInv /\ RootInv /\ EndInv
    BY DEF ShellInv
  <1>1. PICK w \in Nat : w = sent
    BY <1>0, ScriptFits
  <1>2. PICK r \in Sh!Stream : r = listener
    BY DEF Sh!Read
  <1>3. PICK f \in Seq(1 .. w), h \in Seq(1 .. w) : f = readFrom[r] /\ h = pipe[r]
    BY <1>0, <1>1, DoneBefore
  <1>4. n \in 1 .. Len(h) /\ (function = "user" => n = 1)
    BY <1>2, <1>3 DEF Sh!Read
  <1>5. PICK a, b, c : a = SubSeq(h, 1, n) /\ b = f \o a /\ c = SubSeq(h, n + 1, Len(h))
    OBVIOUS
  <1>6. PICK k \in Nat, l \in Nat : k = Len(f) /\ l = Len(h)
    BY LenProperties
  <1>7. /\ n \in Nat /\ 1 <= n /\ n <= l
        /\ a \in Seq(1 .. w) /\ Len(a) = n
        /\ b \in Seq(1 .. w) /\ Len(b) = k + n
        /\ \A i \in 1 .. k : b[i] = f[i]
        /\ \A i \in 1 .. n : b[k + i] = h[i]
        /\ c \in Seq(1 .. w) /\ Len(c) = l - n
        /\ \A i \in 1 .. l - n : c[i] = h[n + i]
    <2>1. n \in Nat /\ 1 <= n /\ n <= l
      BY <1>4, <1>6
    <2>2. /\ SubSeq(h, 1, n) \in Seq(1 .. w) /\ Len(SubSeq(h, 1, n)) = n
          /\ f \o SubSeq(h, 1, n) \in Seq(1 .. w) /\ Len(f \o SubSeq(h, 1, n)) = Len(f) + n
          /\ \A i \in 1 .. Len(f) : (f \o SubSeq(h, 1, n))[i] = f[i]
          /\ \A i \in 1 .. n : (f \o SubSeq(h, 1, n))[Len(f) + i] = h[i]
          /\ SubSeq(h, n + 1, Len(h)) \in Seq(1 .. w) /\ Len(SubSeq(h, n + 1, Len(h))) = Len(h) - n
          /\ \A i \in 1 .. Len(h) - n : SubSeq(h, n + 1, Len(h))[i] = h[n + i]
      <3>1. n \in 1 .. Len(h)
        BY <1>4
      <3>. QED
        BY <3>1, ReadMoves, SMTT(30)
    <2>. QED
      BY <1>5, <1>6, <2>1, <2>2, Zenon
  <1>8. /\ DOMAIN f = 1 .. k /\ DOMAIN h = 1 .. l
        /\ DOMAIN b = 1 .. k + n /\ DOMAIN c = 1 .. l - n
    BY <1>6, <1>7, LenProperties
  <1>18. n \in Nat /\ 1 <= n /\ n <= l
    BY <1>7
  <1>9. /\ pipe' = [pipe EXCEPT ![r] = c] /\ readFrom' = [readFrom EXCEPT ![r] = b]
        /\ result' = result \o (IF function = "root" THEN <<n>> ELSE a)
        /\ UNCHANGED <<function, script, exit, sent, exited, listener>>
    BY <1>2, <1>3, <1>5 DEF Sh!Read, Sh!Appended
  <1>10. /\ pipe'[r] = c /\ readFrom'[r] = b
         /\ \A e \in Sh!Stream \ {r} : pipe'[e] = pipe[e] /\ readFrom'[e] = readFrom[e]
    BY <1>0, <1>9 DEF Sh!TypeOK
  <1>11. n <= MaxWrites /\ w <= MaxWrites
    <2>1. l <= w
      <3>1. PICK fo \in Nat, fe \in Nat, po \in Nat, pe \in Nat :
                /\ fo = Len(readFrom["out"]) /\ fe = Len(readFrom["err"])
                /\ po = Len(pipe["out"]) /\ pe = Len(pipe["err"])
        BY <1>0, DoneBefore DEF Sh!Stream
      <3>2. fo + po + fe + pe = w
        BY <1>0, <1>1, <3>1, Zenon DEF CountInv
      <3>3. l = po \/ l = pe
        BY <1>3, <1>6, <3>1 DEF Sh!Stream
      <3>. QED
        BY <3>2, <3>3
    <2>2. w <= MaxWrites /\ MaxWrites \in Nat
      BY <1>0, <1>1, ScriptFits DEF Sh!ShellAssumption
    <2>. QED
      BY <1>1, <1>6, <1>7, <2>1, <2>2
  <1>12. Sh!TypeOK'
    <2>1. result' \in Seq(1 .. MaxWrites)
      <3>1. result \in Seq(1 .. MaxWrites) /\ MaxWrites \in Nat
        BY <1>0 DEF Sh!TypeOK, Sh!ShellAssumption
      <3>2. n \in 1 .. MaxWrites /\ 1 .. w \subseteq 1 .. MaxWrites
        BY <1>1, <1>7, <1>11, <3>1
      <3>3. a \in Seq(1 .. MaxWrites)
        BY <1>7, <3>2, SeqMonotonic
      <3>4. PICK x \in Seq(1 .. MaxWrites) : x = IF function = "root" THEN <<n>> ELSE a
        <4>1. Append(<<>>, n) \in Seq(1 .. MaxWrites)
          BY <3>2, EmptySeq, AppendProperties
        <4>2. Append(<<>>, n) = <<n>>
          OBVIOUS
        <4>. QED
          BY <3>3, <4>1, <4>2, Zenon
      <3>5. result \o x \in Seq(1 .. MaxWrites)
        BY <3>1, ConcatProperties
      <3>. QED
        BY <1>9, <3>4, <3>5
    <2>2. pipe' \in [Sh!Stream -> Seq(1 .. w)] /\ readFrom' \in [Sh!Stream -> Seq(1 .. w)]
      BY <1>0, <1>1, <1>7, <1>9 DEF Sh!TypeOK
    <2>3. \A e \in Sh!Stream : Len(pipe'[e]) <= Capacity
      <3>1. \A e \in Sh!Stream : Len(pipe[e]) <= Capacity
        BY <1>0 DEF Sh!TypeOK
      <3>2. l - n <= Capacity
        BY <1>3, <1>6, <1>7, <3>1 DEF Sh!ShellAssumption
      <3>. QED
        BY <1>7, <1>10, <3>1, <3>2
    <2>. QED
      BY <1>0, <1>1, <1>9, <2>1, <2>2, <2>3 DEF Sh!TypeOK
  <1>13. CountInv'
    <2>1. PICK fo \in Nat, fe \in Nat, po \in Nat, pe \in Nat :
              /\ fo = Len(readFrom["out"]) /\ fe = Len(readFrom["err"])
              /\ po = Len(pipe["out"]) /\ pe = Len(pipe["err"])
      BY <1>0, DoneBefore DEF Sh!Stream
    <2>2. fo + po + fe + pe = w
      BY <1>0, <1>1, <2>1, Zenon DEF CountInv
    <2>3. CASE r = "out"
      <3>1. /\ Len(pipe'["out"]) = po - n /\ pipe'["err"] = pipe["err"]
            /\ Len(readFrom'["out"]) = fo + n /\ readFrom'["err"] = readFrom["err"]
        BY <1>3, <1>6, <1>7, <1>10, <2>1, <2>3 DEF Sh!Stream
      <3>2. (fo + n) + (po - n) + fe + pe = w
        BY <1>7, <2>2
      <3>. QED
        BY <1>0, <1>1, <1>9, <2>1, <3>1, <3>2, Zenon DEF CountInv
    <2>4. CASE r = "err"
      <3>1. /\ Len(pipe'["err"]) = pe - n /\ pipe'["out"] = pipe["out"]
            /\ Len(readFrom'["err"]) = fe + n /\ readFrom'["out"] = readFrom["out"]
        BY <1>3, <1>6, <1>7, <1>10, <2>1, <2>4 DEF Sh!Stream
      <3>2. fo + po + (fe + n) + (pe - n) = w
        BY <1>7, <2>2
      <3>. QED
        BY <1>0, <1>1, <1>9, <2>1, <3>1, <3>2, Zenon DEF CountInv
    <2>. QED
      BY <2>3, <2>4 DEF Sh!Stream
  <1>14. OrderInv'
    <2>1. SUFFICES ASSUME NEW e \in Sh!Stream
          PROVE  /\ Grows(readFrom'[e]) /\ Grows(pipe'[e])
                 /\ \A i \in DOMAIN readFrom'[e], j \in DOMAIN pipe'[e] : readFrom'[e][i] < pipe'[e][j]
      BY DEF OrderInv, Grows
    <2>2. /\ Grows(readFrom[e]) /\ Grows(pipe[e])
          /\ \A i \in DOMAIN readFrom[e], j \in DOMAIN pipe[e] : readFrom[e][i] < pipe[e][j]
      BY <1>0 DEF OrderInv
    <2>3. CASE e # r
      BY <1>10, <2>2, <2>3
    <2>4. CASE e = r
      <3>1. /\ \A i, j \in 1 .. k : i < j => f[i] < f[j]
            /\ \A i, j \in 1 .. l : i < j => h[i] < h[j]
            /\ \A i \in 1 .. k, j \in 1 .. l : f[i] < h[j]
        BY <1>3, <1>8, <2>2, <2>4 DEF Grows
      <3>2. \A i \in 1 .. k + n :
                \/ i \in 1 .. k /\ b[i] = f[i]
                \/ i - k \in 1 .. n /\ ~(i <= k) /\ b[i] = h[i - k]
        <4>1. ASSUME NEW i \in 1 .. k + n, ~(i <= k)
              PROVE  i - k \in 1 .. n /\ b[i] = h[i - k]
          <5>1. i - k \in 1 .. n /\ k + (i - k) = i
            BY <4>1, <1>18
          <5>. QED
            BY <1>7, <5>1
        <4>2. ASSUME NEW i \in 1 .. k + n, i <= k
              PROVE  i \in 1 .. k
          BY <1>6, <1>7, <4>2
        <4>. QED
          BY <1>7, <4>1, <4>2
      <3>3. \A i \in 1 .. n : i \in 1 .. l
        BY <1>6, <1>7
      <3>4. Grows(b)
        <4>1. SUFFICES ASSUME NEW i \in 1 .. k + n, NEW j \in 1 .. k + n, i < j
              PROVE  b[i] < b[j]
          BY <1>8 DEF Grows
        <4>2. CASE i \in 1 .. k /\ j \in 1 .. k
          BY <1>7, <3>1, <4>1, <4>2
        <4>3. CASE i \in 1 .. k /\ ~(j \in 1 .. k)
          BY <1>7, <3>1, <3>2, <3>3, <4>3
        <4>4. CASE ~(i \in 1 .. k)
          <5>1. i - k \in 1 .. n /\ b[i] = h[i - k] /\ ~(i <= k)
            BY <3>2, <4>4
          <5>2. ~(j \in 1 .. k)
            BY <1>6, <4>1, <5>1
          <5>3. j - k \in 1 .. n /\ b[j] = h[j - k]
            BY <3>2, <5>2
          <5>4. i - k < j - k
            BY <1>6, <1>7, <4>1
          <5>. QED
            BY <3>1, <3>3, <5>1, <5>3, <5>4
        <4>. QED
          BY <4>2, <4>3, <4>4
      <3>5. \A i \in 1 .. l - n : n + i \in 1 .. l /\ c[i] = h[n + i]
        BY <1>6, <1>7
      <3>6. Grows(c)
        <4>1. SUFFICES ASSUME NEW i \in 1 .. l - n, NEW j \in 1 .. l - n, i < j
              PROVE  c[i] < c[j]
          BY <1>8 DEF Grows
        <4>2. n + i < n + j
          BY <1>6, <1>7, <4>1
        <4>. QED
          BY <3>1, <3>5, <4>2
      <3>7. \A i \in 1 .. k + n, j \in 1 .. l - n : b[i] < c[j]
        <4>1. SUFFICES ASSUME NEW i \in 1 .. k + n, NEW j \in 1 .. l - n
              PROVE  b[i] < c[j]
          OBVIOUS
        <4>2. CASE i \in 1 .. k
          BY <1>7, <3>1, <3>5, <4>2
        <4>3. CASE ~(i \in 1 .. k)
          <5>1. i - k \in 1 .. n /\ b[i] = h[i - k]
            BY <3>2, <4>3
          <5>2. i - k < n + j
            BY <1>6, <1>7, <5>1
          <5>. QED
            BY <3>1, <3>3, <3>5, <5>1, <5>2
        <4>. QED
          BY <4>2, <4>3
      <3>. QED
        BY <1>8, <1>10, <2>4, <3>4, <3>6, <3>7
    <2>. QED
      BY <2>3, <2>4
  <1>15. UserInv'
    <2>1. SUFFICES ASSUME function = "user"
          PROVE  /\ readFrom'["err"] = <<>> /\ pipe'["err"] = <<>> /\ result' = readFrom'["out"]
                 /\ \A i \in DOMAIN readFrom'["out"] : readFrom'["out"][i] = i
                 /\ \A j \in DOMAIN pipe'["out"] : pipe'["out"][j] = Len(readFrom'["out"]) + j
      BY <1>9 DEF UserInv
    <2>2. /\ readFrom["err"] = <<>> /\ pipe["err"] = <<>> /\ result = readFrom["out"]
          /\ \A i \in DOMAIN readFrom["out"] : readFrom["out"][i] = i
          /\ \A j \in DOMAIN pipe["out"] : pipe["out"][j] = Len(readFrom["out"]) + j
      BY <1>0, <2>1 DEF UserInv
    <2>3. r = "out" /\ n = 1
      BY <1>0, <1>2, <1>4, <2>1 DEF EndInv, Sh!Stream
    <2>4. readFrom'["err"] = <<>> /\ pipe'["err"] = <<>> /\ readFrom'["out"] = b /\ pipe'["out"] = c
      BY <1>10, <2>2, <2>3 DEF Sh!Stream
    <2>5. result' = b
      BY <1>3, <1>5, <1>9, <2>1, <2>2, <2>3
    <2>6. \A i \in 1 .. k + 1 : b[i] = i
      <3>1. ASSUME NEW i \in 1 .. k
            PROVE  b[i] = i
        BY <1>3, <1>7, <1>8, <2>2, <2>3
      <3>2. b[k + 1] = h[1] /\ 1 \in 1 .. l
        BY <1>7, <1>6, <2>3
      <3>3. h[1] = k + 1
        BY <1>3, <1>6, <1>8, <2>2, <2>3, <3>2
      <3>4. \A i \in 1 .. k + 1 : i \in 1 .. k \/ i = k + 1
        BY <1>6
      <3>. QED
        BY <3>1, <3>2, <3>3, <3>4
    <2>7. ASSUME NEW j \in 1 .. l - 1
          PROVE  c[j] = k + 1 + j
      <3>1. c[j] = h[1 + j] /\ 1 + j \in 1 .. l
        BY <1>6, <1>7, <2>3
      <3>2. h[1 + j] = k + (1 + j)
        BY <1>3, <1>6, <1>8, <2>2, <2>3, <3>1
      <3>. QED
        BY <1>6, <3>1, <3>2
    <2>. QED
      BY <1>7, <1>8, <2>3, <2>4, <2>5, <2>6, <2>7
  <1>16. RootInv'
    <2>1. SUFFICES ASSUME function = "root"
          PROVE  Sh!AddUp(result', Len(readFrom'["out"]) + Len(readFrom'["err"]))
      BY <1>9 DEF RootInv, Sh!AddUp
    <2>7. PICK fo \in Nat, fe \in Nat : fo = Len(readFrom["out"]) /\ fe = Len(readFrom["err"])
      BY <1>0, DoneBefore DEF Sh!Stream
    <2>2. PICK m \in Nat : m = fo + fe
      OBVIOUS
    <2>3. Sh!AddUp(result, m)
      BY <1>0, <2>1, <2>2, <2>7, Zenon DEF RootInv
    <2>4. result \in Seq(Nat)
      <3>1. 1 .. MaxWrites \subseteq Nat
        OBVIOUS
      <3>. QED
        BY <1>0, <3>1, SeqMonotonic DEF Sh!TypeOK
    <2>5. Sh!AddUp(result \o <<n>>, m + n)
      BY <1>7, <2>3, <2>4, AddUpOneMore
    <2>6. Len(readFrom'["out"]) + Len(readFrom'["err"]) = m + n
      <3>2. CASE r = "out"
        <4>1. Len(readFrom'["out"]) = fo + n /\ readFrom'["err"] = readFrom["err"]
          BY <1>3, <1>6, <1>7, <1>10, <2>7, <3>2 DEF Sh!Stream
        <4>2. fo + n + fe = m + n
          BY <1>7, <2>2
        <4>. QED
          BY <2>7, <4>1, <4>2, Zenon
      <3>3. CASE r = "err"
        <4>1. Len(readFrom'["err"]) = fe + n /\ readFrom'["out"] = readFrom["out"]
          BY <1>3, <1>6, <1>7, <1>10, <2>7, <3>3 DEF Sh!Stream
        <4>2. fo + (fe + n) = m + n
          BY <1>7, <2>2
        <4>. QED
          BY <2>7, <4>1, <4>2, Zenon
      <3>. QED
        BY <3>2, <3>3 DEF Sh!Stream
    <2>. QED
      BY <1>9, <2>1, <2>5, <2>6
  <1>17. EndInv'
    <2>1. listener # "out" => r = "err"
      BY <1>2 DEF Sh!Stream
    <2>2. listener # "out" => pipe'["out"] = pipe["out"]
      BY <1>10, <2>1 DEF Sh!Stream
    <2>3. ~Sh!Answered'
      BY <1>2, <1>9 DEF Sh!Answered, Sh!Stream
    <2>. QED
      BY <1>0, <1>9, <2>2, <2>3 DEF EndInv
  <1>. QED
    BY <1>12, <1>13, <1>14, <1>15, <1>16, <1>17 DEF ShellInv

LEMMA ShellStep ==
    ASSUME Sh!ShellAssumption, ShellInv, [Sh!Next]_(Sh!vars)
    PROVE  ShellInv'
  <1>0. Sh!TypeOK /\ CountInv /\ OrderInv /\ UserInv /\ RootInv /\ EndInv
    BY DEF ShellInv
  <1>1. ASSUME UNCHANGED <<function, script, exit, sent, pipe, result, readFrom>>,
               Sh!TypeOK', exited => exited', exited' => sent = Len(script), EndInv'
        PROVE  ShellInv'
    <2>1. CountInv'
      BY <1>0, <1>1 DEF CountInv
    <2>2. OrderInv'
      BY <1>0, <1>1 DEF OrderInv, Grows
    <2>3. UserInv'
      BY <1>0, <1>1 DEF UserInv
    <2>4. RootInv'
      BY <1>0, <1>1 DEF RootInv, Sh!AddUp
    <2>. QED
      BY <1>1, <2>1, <2>2, <2>3, <2>4 DEF ShellInv
  <1>2. CASE Sh!Exit
    <2>1. Sh!TypeOK'
      BY <1>0, <1>2 DEF Sh!Exit, Sh!TypeOK
    <2>2. EndInv'
      BY <1>0, <1>2 DEF Sh!Exit, EndInv, Sh!Answered
    <2>. QED
      BY <1>1, <1>2, <2>1, <2>2 DEF Sh!Exit
  <1>3. CASE Sh!EndOfStream
    <2>1. listener' \in {"err", "wait", "returned"}
      BY <1>3 DEF Sh!EndOfStream
    <2>2. Sh!TypeOK'
      BY <1>0, <1>3, <2>1 DEF Sh!EndOfStream, Sh!TypeOK, Sh!Stream
    <2>3. EndInv'
      BY <1>0, <1>3 DEF Sh!EndOfStream, Sh!AtEnd, EndInv, Sh!Answered, Sh!Stream, Sh!TypeOK
    <2>. QED
      BY <1>0, <1>1, <1>3, <2>2, <2>3 DEF Sh!EndOfStream, CountInv
  <1>4. CASE Sh!WaitFor
    <2>1. listener' \in {"returned", "thrown"}
      BY <1>4 DEF Sh!WaitFor
    <2>2. Sh!TypeOK'
      BY <1>0, <1>4, <2>1 DEF Sh!WaitFor, Sh!TypeOK, Sh!Stream
    <2>3. EndInv'
      BY <1>0, <1>4, <2>1 DEF Sh!WaitFor, EndInv, Sh!Answered, UserInv
    <2>. QED
      BY <1>0, <1>1, <1>4, <2>2, <2>3 DEF Sh!WaitFor, CountInv
  <1>8. CASE Sh!Fails
    <2>1. listener' = "failed"
      BY <1>8 DEF Sh!Fails
    <2>2. Sh!TypeOK'
      BY <1>0, <1>8, <2>1 DEF Sh!Fails, Sh!TypeOK, Sh!Stream
    <2>3. EndInv'
      BY <2>1 DEF EndInv, Sh!Answered
    <2>. QED
      BY <1>0, <1>1, <1>8, <2>2, <2>3 DEF Sh!Fails, CountInv
  <1>5. CASE UNCHANGED Sh!vars
    <2>1. Sh!TypeOK'
      BY <1>0, <1>5 DEF Sh!vars, Sh!TypeOK
    <2>2. EndInv'
      BY <1>0, <1>5 DEF Sh!vars, EndInv, Sh!Answered
    <2>. QED
      BY <1>0, <1>1, <1>5, <2>1, <2>2 DEF Sh!vars, CountInv
  <1>6. CASE Sh!Write
    BY <1>6, WriteStep
  <1>7. ASSUME NEW n \in 1 .. Capacity, Sh!Read(n)
        PROVE  ShellInv'
    BY <1>7, ReadStep
  <1>. QED
    BY <1>2, <1>3, <1>4, <1>5, <1>6, <1>7, <1>8 DEF Sh!Next, Sh!Runs, Sh!Listens

LEMMA ShellInit ==
    ASSUME Sh!ShellAssumption, Sh!Init
    PROVE  ShellInv
  <1>1. \A S : <<>> \in Seq(S) /\ Len(<<>>) = 0 /\ DOMAIN <<>> = {}
    BY EmptySeq
  <1>2. PICK n \in 0 .. MaxWrites : script \in [1 .. n -> Sh!Stream]
    BY DEF Sh!Init, Sh!Scripts
  <1>3. n \in Nat /\ Len(script) = n
    <2>1. n \in Nat
      BY <1>2 DEF Sh!ShellAssumption
    <2>2. script \in Seq(Sh!Stream)
      BY <1>2, <2>1, SeqDef
    <2>. QED
      BY <1>2, <2>1, <2>2, LenProperties
  <1>4. pipe["out"] = <<>> /\ pipe["err"] = <<>> /\ readFrom["out"] = <<>> /\ readFrom["err"] = <<>>
    BY DEF Sh!Init, Sh!Stream
  <1>5. Sh!TypeOK
    <2>1. PICK e : e = <<>>
      OBVIOUS
    <2>2. e \in Seq(1 .. sent) /\ e \in Seq(1 .. MaxWrites) /\ Len(e) = 0
      BY <1>1, <2>1
    <2>3. pipe = [s \in Sh!Stream |-> e] /\ readFrom = [s \in Sh!Stream |-> e] /\ result = e
      BY <2>1 DEF Sh!Init
    <2>4. sent \in 0 .. Len(script) /\ 0 <= Capacity
      BY <1>3 DEF Sh!Init, Sh!ShellAssumption
    <2>5. /\ function \in {"root", "user"} /\ script \in Sh!Scripts /\ exit \in {0, 1}
          /\ exited \in BOOLEAN /\ listener \in Sh!Stream
      BY DEF Sh!Init, Sh!Stream
    <2>. QED
      BY <2>2, <2>3, <2>4, <2>5 DEF Sh!TypeOK
  <1>6. CountInv
    <2>1. 0 + 0 + 0 + 0 = 0
      OBVIOUS
    <2>. QED
      BY <1>1, <1>4, <2>1, Zenon DEF Sh!Init, CountInv
  <1>7. OrderInv
    BY <1>1, <1>4 DEF OrderInv, Grows, Sh!Stream
  <1>8. UserInv
    BY <1>1, <1>4 DEF Sh!Init, UserInv
  <1>9. RootInv
    <2>1. Sh!AddUp(<<>>, 0)
      <3>1. PICK sum : sum = [i \in 0 .. 0 |-> 0]
        OBVIOUS
      <3>2. sum \in [0 .. 0 -> 0 .. 0] /\ sum[0] = 0
        BY <3>1
      <3>3. 1 .. 0 = {}
        OBVIOUS
      <3>. QED
        BY <1>1, <3>2, <3>3 DEF Sh!AddUp
    <2>2. 0 + 0 = 0
      OBVIOUS
    <2>. QED
      BY <1>1, <1>4, <2>1, <2>2, Zenon DEF Sh!Init, RootInv
  <1>10. EndInv
    BY <1>4 DEF Sh!Init, EndInv, Sh!Answered
  <1>. QED
    BY <1>5, <1>6, <1>7, <1>8, <1>9, <1>10 DEF ShellInv

LEMMA ShellArrives ==
    ASSUME Sh!ShellAssumption, ShellInv
    PROVE  Sh!NothingIsLost
  <1>1. SUFFICES ASSUME Sh!Answered
        PROVE  /\ Len(readFrom["out"]) + Len(readFrom["err"]) = Len(script)
               /\ \A s \in Sh!Stream : \A i, j \in DOMAIN readFrom[s] : i < j => readFrom[s][i] < readFrom[s][j]
               /\ function = "root" => Sh!AddUp(result, Len(script))
               /\ function = "user" => result = [i \in 1 .. Len(script) |-> i]
    BY DEF Sh!NothingIsLost
  <1>2. Sh!TypeOK /\ CountInv /\ OrderInv /\ UserInv /\ RootInv /\ EndInv
    BY DEF ShellInv
  <1>3. Len(<<>>) = 0
    BY EmptySeq
  <1>4. pipe["out"] = <<>> /\ pipe["err"] = <<>> /\ exited
    BY <1>1, <1>2 DEF EndInv, Sh!Answered
  <1>5. Len(readFrom["out"]) \in Nat /\ Len(readFrom["err"]) \in Nat
    BY <1>2, DoneBefore DEF Sh!Stream
  <1>6. Len(readFrom["out"]) + Len(readFrom["err"]) = Len(script)
    <2>1. PICK fo \in Nat, fe \in Nat : fo = Len(readFrom["out"]) /\ fe = Len(readFrom["err"])
      BY <1>5
    <2>2. fo + 0 + fe + 0 = Len(script)
      BY <1>2, <1>3, <1>4, <2>1, Zenon DEF CountInv
    <2>3. fo + 0 + fe + 0 = fo + fe
      OBVIOUS
    <2>. QED
      BY <2>1, <2>2, <2>3, Zenon
  <1>7. \A s \in Sh!Stream : \A i, j \in DOMAIN readFrom[s] : i < j => readFrom[s][i] < readFrom[s][j]
    BY <1>2 DEF OrderInv, Grows
  <1>8. function = "root" => Sh!AddUp(result, Len(script))
    BY <1>2, <1>6 DEF RootInv
  <1>9. ASSUME function = "user"
        PROVE  result = [i \in 1 .. Len(script) |-> i]
    <2>1. /\ readFrom["err"] = <<>> /\ result = readFrom["out"]
          /\ \A i \in DOMAIN readFrom["out"] : readFrom["out"][i] = i
      BY <1>2, <1>9 DEF UserInv
    <2>2. Len(readFrom["out"]) = Len(script)
      BY <1>3, <1>5, <1>6, <2>1
    <2>3. readFrom["out"] \in [1 .. Len(script) -> 1 .. sent]
      BY <1>2, <2>2, DoneBefore, LenProperties DEF Sh!Stream
    <2>. QED
      BY <2>1, <2>3
  <1>. QED
    BY <1>6, <1>7, <1>8, <1>9

-----------------------------------------------------------------------------
(* The parts together.  A behaviour of PartsSpec is one of each part, with  *)
(* steps that leave the variables of the part alone.                        *)

LogTheorems == INSTANCE MainLogProofs WITH
                   Thread <- LogThread, MaxWrites <- MaxLines, pc <- logPc, lock <- logLock

FieldTheorems == INSTANCE FieldAccessProofs WITH
                     Thread <- FieldThread, pc <- fieldPc, left <- flagLeft

LEMMA CasePart == PartsSpec => Spec
  <1>1. PartsInit => Init
    BY DEF PartsInit
  <1>2. [PartsNext]_all => [Next]_vars
    BY DEF PartsNext, all, InCase, InLog, InShell, InField, vars
  <1>. QED
    BY <1>1, <1>2, PTL DEF PartsSpec, Spec

LEMMA ShellPart == PartsSpec => Sh!Spec
  <1>1. PartsInit => Sh!Init
    BY DEF PartsInit
  <1>2. [PartsNext]_all => [Sh!Next]_(Sh!vars)
    BY DEF PartsNext, all, InCase, InLog, InShell, InField, shellVars, Sh!vars
  <1>. QED
    BY <1>1, <1>2, PTL DEF PartsSpec, Sh!Spec

LEMMA LogPart == PartsSpec => LogTheorems!Spec
  <1>1. PartsInit => LogTheorems!Init
    BY DEF PartsInit, Log!Init, LogTheorems!Init, Log!Stream, LogTheorems!Stream,
           Log!Method, LogTheorems!Method, Log!Logged, LogTheorems!Logged
  <1>2. [PartsNext]_all => [Log!Next]_(Log!vars)
    BY DEF PartsNext, all, InCase, InLog, InShell, InField, logVars, Log!vars
  <1>3. [Log!Next]_(Log!vars) => [LogTheorems!Next]_(LogTheorems!vars)
    <2>. USE DEF Log!Stream, LogTheorems!Stream, Log!Method, LogTheorems!Method,
                 Log!Logged, LogTheorems!Logged, Log!loading, LogTheorems!loading,
                 Log!history, LogTheorems!history, Log!Goto, LogTheorems!Goto,
                 Log!ThisWrite, LogTheorems!ThisWrite, Log!Sees, LogTheorems!Sees,
                 Log!Mixes, LogTheorems!Mixes, Log!Append1, LogTheorems!Append1,
                 Log!AddHook, LogTheorems!AddHook
    <2>1. Log!HandleLoadPackage <=> LogTheorems!HandleLoadPackage
      BY DEF Log!HandleLoadPackage, LogTheorems!HandleLoadPackage, Log!OpenLog,
             LogTheorems!OpenLog, Log!HookCipher, LogTheorems!HookCipher, Log!HookLaunch,
             LogTheorems!HookLaunch, Log!HookDefine, LogTheorems!HookDefine
    <2>2. Log!UcHook <=> LogTheorems!UcHook
      BY DEF Log!UcHook, LogTheorems!UcHook
    <2>3. Log!OnEncryptLoaded <=> LogTheorems!OnEncryptLoaded
      BY DEF Log!OnEncryptLoaded, LogTheorems!OnEncryptLoaded
    <2>4. Log!Kill <=> LogTheorems!Kill
      BY DEF Log!Kill, LogTheorems!Kill
    <2>5. ASSUME NEW t \in LogThread
          PROVE  /\ \A m \in Log!Logged : Log!Call(t, m) <=> LogTheorems!Call(t, m)
                 /\ Log!WriteLog(t) <=> LogTheorems!WriteLog(t)
      <3>1. \A m \in Log!Logged : Log!Call(t, m) <=> LogTheorems!Call(t, m)
        BY DEF Log!Call, LogTheorems!Call
      <3>2. Log!ReadField(t) <=> LogTheorems!ReadField(t)
        BY DEF Log!ReadField, LogTheorems!ReadField
      <3>3. Log!Enter(t) <=> LogTheorems!Enter(t)
        BY DEF Log!Enter, LogTheorems!Enter
      <3>4. Log!WriteText(t) <=> LogTheorems!WriteText(t)
        BY DEF Log!WriteText, LogTheorems!WriteText
      <3>5. Log!WriteEnd(t) <=> LogTheorems!WriteEnd(t)
        BY DEF Log!WriteEnd, LogTheorems!WriteEnd
      <3>6. Log!WriteFails(t) <=> LogTheorems!WriteFails(t)
        BY DEF Log!WriteFails, LogTheorems!WriteFails
      <3>7. Log!Exit(t) <=> LogTheorems!Exit(t)
        BY DEF Log!Exit, LogTheorems!Exit
      <3>. QED
        BY <3>1, <3>2, <3>3, <3>4, <3>5, <3>6, <3>7 DEF Log!WriteLog, LogTheorems!WriteLog
    <2>. QED
      BY <2>1, <2>2, <2>3, <2>4, <2>5 DEF Log!Next, LogTheorems!Next, Log!vars, LogTheorems!vars
  <1>. QED
    BY <1>1, <1>2, <1>3, PTL DEF PartsSpec, LogTheorems!Spec

LEMMA FieldPart == PartsSpec => FieldTheorems!Spec
  <1>1. PartsInit => FieldTheorems!Init
    BY DEF PartsInit, Field!Init, FieldTheorems!Init
  <1>2. [PartsNext]_all => [Field!Next]_(Field!vars)
    BY DEF PartsNext, all, InCase, InLog, InShell, InField, fieldVars, Field!vars, Field!history
  <1>3. [Field!Next]_(Field!vars) => [FieldTheorems!Next]_(FieldTheorems!vars)
    BY DEF Field!Next, Field!vars, Field!Access, Field!Save, Field!SetAccessible, Field!Use,
           Field!UseFails, Field!Restore, Field!history, Field!Goto, Field!End, Field!Busy,
           FieldTheorems!Next, FieldTheorems!vars, FieldTheorems!Access, FieldTheorems!Save,
           FieldTheorems!SetAccessible, FieldTheorems!Use, FieldTheorems!UseFails,
           FieldTheorems!Restore, FieldTheorems!history, FieldTheorems!Goto,
           FieldTheorems!End, FieldTheorems!Busy
  <1>. QED
    BY <1>1, <1>2, <1>3, PTL DEF PartsSpec, FieldTheorems!Spec

-----------------------------------------------------------------------------
(* The theorems about the parts together.                                  *)

\* The inductive invariant holds while the caller and the process go on.
LEMMA ShellInvariance == Sh!Spec => []ShellInv
  <1>1. Sh!ShellAssumption
    BY PartsAssumption DEF PartsAssumption
  <1>2. Sh!Init => ShellInv
    BY <1>1, ShellInit
  <1>3. ShellInv /\ [Sh!Next]_(Sh!vars) => ShellInv'
    BY <1>1, ShellStep
  <1>. QED
    BY <1>2, <1>3, PTL DEF Sh!Spec

LEMMA LogIsAssumed == LogTheorems!LogAssumption
  BY PartsAssumption DEF PartsAssumption, Log!LogAssumption, LogTheorems!LogAssumption,
     Log!Method, LogTheorems!Method, Log!Logged, LogTheorems!Logged

\* Every variable of every part keeps its type.
THEOREM PartsKeepTypes == PartsSpec => []PartsTypeOK
  <1>1. Spec => []TypeOK
    BY CaseTypes
  <1>2. LogTheorems!Spec => []LogTheorems!TypeOK
    BY LogIsAssumed, LogTheorems!TypeCorrect
  <1>3. LogTheorems!TypeOK => Log!TypeOK
    BY DEF Log!TypeOK, LogTheorems!TypeOK, Log!Stream, LogTheorems!Stream, Log!Method,
           LogTheorems!Method, Log!Logged, LogTheorems!Logged, Log!Item, LogTheorems!Item,
           Log!Write, LogTheorems!Write
  <1>4. ShellInv => Sh!TypeOK
    BY DEF ShellInv
  <1>5. FieldTheorems!Spec => []FieldTheorems!TypeOK
    BY FieldTheorems!TypeCorrect
  <1>6. FieldTheorems!TypeOK => Field!TypeOK
    BY DEF Field!TypeOK, FieldTheorems!TypeOK
  <1>7. TypeOK /\ Log!TypeOK /\ Sh!TypeOK /\ Field!TypeOK => PartsTypeOK
    BY DEF PartsTypeOK
  <1>. QED
    BY <1>1, <1>2, <1>3, <1>4, <1>5, <1>6, <1>7, CasePart, LogPart, ShellPart, FieldPart,
       ShellInvariance, PTL

\* What is written arrives: the lines of hooked methods in the files of the log, whole but
\* around a change of the stream or a failed write (MainHook 35-43), and all that a process
\* writes at the caller of RunShell or RunUserShell, in order (units.java 34-84).
THEOREM AllOutputArrives == PartsSpec => []OutputArrives
  <1>1. /\ LogTheorems!Spec => []LogTheorems!LinesStayWhole
        /\ LogTheorems!Spec => []LogTheorems!NothingIsLost
        /\ LogTheorems!Spec => []LogTheorems!MonitorIsUsed
    BY LogIsAssumed, LogTheorems!LinesAreWhole, LogTheorems!NoLineIsLost,
       LogTheorems!MonitorIsHeld
  <1>2. LogTheorems!LinesStayWhole => Log!LinesStayWhole
    BY DEF Log!LinesStayWhole, LogTheorems!LinesStayWhole, Log!Stream, LogTheorems!Stream
  <1>3. LogTheorems!NothingIsLost => Log!NothingIsLost
    BY DEF Log!NothingIsLost, LogTheorems!NothingIsLost, Log!Parts, LogTheorems!Parts,
           Log!Stream, LogTheorems!Stream
  <1>4. LogTheorems!MonitorIsUsed => Log!MonitorIsUsed
    BY DEF Log!MonitorIsUsed, LogTheorems!MonitorIsUsed, Log!Stream, LogTheorems!Stream
  <1>5. ShellInv => Sh!NothingIsLost
    BY PartsAssumption, ShellArrives DEF PartsAssumption
  <1>6. Log!LinesStayWhole /\ Log!NothingIsLost /\ Log!MonitorIsUsed /\ Sh!NothingIsLost
        => OutputArrives
    BY DEF OutputArrives
  <1>. QED
    BY <1>1, <1>2, <1>3, <1>4, <1>5, <1>6, LogPart, ShellPart, ShellInvariance, PTL

\* However many threads share a Field: an access comes to nothing only beside another
\* one, the flag is given back unless accesses crossed, and a flag that is left set
\* stays set (HookTools 131-176).
THEOREM FieldStaysShared == PartsSpec => []FieldIsShared
  <1>1. FieldTheorems!Spec => []FieldTheorems!FieldIsShared
    BY FieldTheorems!SharedField
  <1>2. FieldTheorems!FieldIsShared => Field!FieldIsShared
    BY DEF Field!FieldIsShared, FieldTheorems!FieldIsShared, Field!FailureNeedsOverlap,
           FieldTheorems!FailureNeedsOverlap, Field!FlagIsGivenBack,
           FieldTheorems!FlagIsGivenBack, Field!FlagThatIsLeftStays,
           FieldTheorems!FlagThatIsLeftStays, Field!Busy, FieldTheorems!Busy
  <1>3. Field!FieldIsShared => FieldIsShared
    BY DEF FieldIsShared
  <1>. QED
    BY <1>1, <1>2, <1>3, FieldPart, PTL

=============================================================================
