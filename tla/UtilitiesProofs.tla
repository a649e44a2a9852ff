---------------------------- MODULE UtilitiesProofs ----------------------------
(***************************************************************************)
(* Theorems about Utilities, for any tasks, waiters, faulting threads,     *)
(* signals and loggers and for every bound: an inductive invariant of each *)
(* part (GroupInv, TreeInv, CrashInv, NativeInv, StringsInv), and what     *)
(* follows for the parts side by side.                                     *)
(***************************************************************************)
EXTENDS Utilities, FiniteSetTheorems, SequenceTheorems, WellFoundedInduction, TLAPS

LEMMA TreeAssumed == Tree!TreeAssumption
  BY UtilitiesAssumption DEF UtilitiesAssumption

LEMMA CrashAssumed == Crash!CrashAssumption
  BY UtilitiesAssumption DEF UtilitiesAssumption

LEMMA NativeAssumed == Native!NativeAssumption
  BY UtilitiesAssumption DEF UtilitiesAssumption

LEMMA StringsAssumed == Str!StringsAssumption
  BY UtilitiesAssumption DEF UtilitiesAssumption

-----------------------------------------------------------------------------
(* WaitGroup.                                                              *)

(* The inductive invariant, in parts.                                      *)

\* The counter counts.
GroupCountInv == count = Cardinality(UnderWay)

\* Nobody is owed a task that was not yet added.
OwedInv == \A w \in Waiter : \A t \in owed[w] : task[t] # "new"

\* SleepIsExplained begins with the test.
WindowInv ==
    \A w \in Waiter :
        waiter[w] \in {"tested", "asleep"} /\ count = 0 =>
            missed[w] \/ \E t \in Task : task[t] \in {"counted", "zero"}

GroupInv == TypeOK /\ GroupCountInv /\ OwedInv /\ WaitMeansDone /\ WindowInv

LEMMA UnderWayFinite == IsFiniteSet(UnderWay) /\ Cardinality(UnderWay) \in Nat
  <1>1. UnderWay \in SUBSET Task
    BY DEF UnderWay
  <1>2. IsFiniteSet(UnderWay)
    BY <1>1, GroupAssumption, FS_Subset DEF GroupAssumption
  <1>. QED
    BY <1>2, FS_CardinalityType

\* The counter says that nothing is under way exactly if nothing is.
LEMMA ZeroMeansNone == GroupInv => (count = 0 <=> UnderWay = {})
  BY UnderWayFinite, FS_EmptySet DEF GroupInv, GroupCountInv

-----------------------------------------------------------------------------
(* The counter.                                                            *)

LEMMA AddCounts ==
    ASSUME GroupInv, NEW by \in Task \cup {Main}, NEW new \in SUBSET Task, Add(by, new)
    PROVE  GroupCountInv' /\ count' \in Nat /\ count' > 0
  <1>1. /\ UnderWay' = UnderWay \cup new
        /\ UnderWay \cap new = {}
    BY DEF GroupInv, TypeOK, Add, UnderWay
  <1>2. /\ IsFiniteSet(new) /\ Cardinality(new) \in Nat /\ Cardinality(new) # 0
    <2>1. IsFiniteSet(new)
      BY GroupAssumption, FS_Subset DEF GroupAssumption
    <2>. QED
      BY <2>1, FS_CardinalityType, FS_EmptySet DEF Add
  <1>3. Cardinality(UnderWay \cup new) = Cardinality(UnderWay) + Cardinality(new)
    <2>1. Cardinality(UnderWay \cup new)
            = Cardinality(UnderWay) + Cardinality(new) - Cardinality(UnderWay \cap new)
      BY <1>2, UnderWayFinite, FS_Union
    <2>2. Cardinality(UnderWay \cap new) = 0
      BY <1>1, FS_EmptySet
    <2>. QED
      BY <2>1, <2>2, <1>2, UnderWayFinite
  <1>. QED
    BY <1>1, <1>2, <1>3, UnderWayFinite DEF GroupInv, GroupCountInv, Add

LEMMA DecrementCounts ==
    ASSUME GroupInv, NEW t \in Task, Decrement(t)
    PROVE  GroupCountInv' /\ count' \in Nat
  <1>1. UnderWay' = UnderWay \ {t} /\ t \in UnderWay
    BY DEF GroupInv, TypeOK, Decrement, TaskAt, UnderWay
  <1>2. Cardinality(UnderWay \ {t}) = Cardinality(UnderWay) - 1
    BY <1>1, UnderWayFinite, FS_RemoveElement
  <1>3. Cardinality(UnderWay) # 0
    BY <1>1, UnderWayFinite, FS_EmptySet
  <1>. QED
    BY <1>1, <1>2, <1>3, UnderWayFinite DEF GroupInv, GroupCountInv, Decrement

\* The other steps of done(), and wait(), leave the counter and what it counts alone.
LEMMA OthersKeepCount ==
    ASSUME GroupInv, UNCHANGED count, UNCHANGED UnderWay
    PROVE  GroupCountInv' /\ count' \in Nat
  BY DEF GroupInv, TypeOK, GroupCountInv

-----------------------------------------------------------------------------
(* Every step keeps every part.                                            *)

LEMMA AddStep ==
    ASSUME GroupInv, NEW by \in Task \cup {Main}, NEW new \in SUBSET Task, Add(by, new)
    PROVE  GroupInv'
  <1>0. TypeOK /\ OwedInv /\ WaitMeansDone
    BY DEF GroupInv
  <1>1. GroupCountInv' /\ count' \in Nat /\ count' > 0
    BY AddCounts
  <1>2. TypeOK'
    BY <1>0, <1>1 DEF TypeOK, Add
  <1>3. /\ waiter' = waiter
        /\ \A t \in Task : task'[t] = IF t \in new THEN "running" ELSE task[t]
        /\ \A t \in new : task[t] = "new"
        /\ by \in UnderWay \cup {Main}
        /\ \A w \in Waiter : owed'[w] = IF by \in owed[w] THEN owed[w] \cup new ELSE owed[w]
    BY DEF Add
  <1>4. OwedInv'
    BY <1>0, <1>3 DEF TypeOK, OwedInv
  \* Who has returned is not owed the task that adds.
  <1>5. WaitMeansDone'
    <2>1. ASSUME NEW w \in Waiter, waiter[w] = "returned"
          PROVE  by \notin owed[w] /\ owed[w] \cap new = {} /\ owed[w] \cap UnderWay = {}
      <3>1. owed[w] \cap UnderWay = {} /\ owed[w] \subseteq Task
        BY <1>0, <2>1 DEF WaitMeansDone, TypeOK
      <3>2. Main \notin owed[w]
        BY <3>1, GroupAssumption DEF GroupAssumption
      <3>. QED
        BY <1>0, <1>3, <3>1, <3>2 DEF OwedInv
    <2>2. UnderWay' \subseteq UnderWay \cup new
      BY <1>3 DEF UnderWay
    <2>. QED
      BY <1>3, <2>1, <2>2 DEF WaitMeansDone
  <1>6. WindowInv'
    BY <1>1 DEF WindowInv
  <1>. QED
    BY <1>1, <1>2, <1>4, <1>5, <1>6 DEF GroupInv

LEMMA DoneStep == ASSUME GroupInv, NEW t \in Task, Done(t) PROVE GroupInv'
  <1>0. TypeOK /\ OwedInv /\ WaitMeansDone /\ WindowInv
    BY DEF GroupInv
  <1>1. /\ owed' = owed
        /\ \A u \in Task \ {t} : task'[u] = task[u]
        /\ task[t] \in {"running", "counted", "zero"}
        /\ task'[t] \in {"counted", "zero", "over"}
        /\ UnderWay' \subseteq UnderWay
    BY <1>0 DEF Done, Decrement, Compare, NotifyAll, TaskAt, TypeOK, UnderWay
  <1>2. \A w \in Waiter : /\ waiter'[w] = "returned" => waiter[w] = "returned"
                          /\ waiter'[w] \in {"tested", "asleep"} => waiter'[w] = waiter[w]
    BY <1>0 DEF Done, Decrement, Compare, NotifyAll, TypeOK
  <1>3. GroupCountInv' /\ count' \in Nat
    <2>1. CASE Decrement(t)
      BY <2>1, DecrementCounts
    <2>2. CASE Compare(t) \/ NotifyAll(t)
      <3>1. UNCHANGED count /\ UNCHANGED UnderWay
        BY <1>0, <2>2 DEF Compare, NotifyAll, TaskAt, TypeOK, UnderWay
      <3>. QED
        BY <3>1, OthersKeepCount
    <2>. QED
      BY <2>1, <2>2 DEF Done
  <1>4. TypeOK'
    BY <1>0, <1>3 DEF TypeOK, Done, Decrement, Compare, NotifyAll, TaskAt
  <1>5. OwedInv'
    BY <1>0, <1>1 DEF TypeOK, OwedInv
  <1>6. WaitMeansDone'
    BY <1>0, <1>1, <1>2 DEF WaitMeansDone
  <1>7. WindowInv'
    <2>. SUFFICES ASSUME NEW w \in Waiter, waiter'[w] \in {"tested", "asleep"}, count' = 0
                  PROVE  missed'[w] \/ \E u \in Task : task'[u] \in {"counted", "zero"}
      BY DEF WindowInv
    <2>1. CASE Decrement(t)
      BY <1>0, <2>1 DEF Decrement, TaskAt, TypeOK
    \* The load of a counter that is 0 gives 0.
    <2>2. CASE Compare(t)
      BY <1>0, <2>2 DEF Compare, TaskAt, TypeOK
    \* Who is asleep is woken; who has tested and is not asleep has missed it.
    <2>3. CASE NotifyAll(t)
      BY <1>0, <2>3 DEF NotifyAll, TypeOK
    <2>. QED
      BY <2>1, <2>2, <2>3 DEF Done
  <1>. QED
    BY <1>3, <1>4, <1>5, <1>6, <1>7 DEF GroupInv

LEMMA WaiterStep ==
    ASSUME GroupInv, NEW w \in Waiter, Begin(w) \/ Wait(w) \/ WakeSpuriously(w)
    PROVE  GroupInv'
  <1>0. TypeOK /\ OwedInv /\ WaitMeansDone /\ WindowInv
    BY DEF GroupInv
  <1>1. UNCHANGED <<count, task>> /\ \A v \in Waiter \ {w} : waiter'[v] = waiter[v]
                                  /\ owed'[v] = owed[v] /\ missed'[v] = missed[v]
    BY <1>0 DEF Begin, Wait, Test, Sleep, Return, WakeSpuriously, WaiterAt, TypeOK
  <1>2. UNCHANGED UnderWay
    BY <1>1 DEF UnderWay
  <1>3. GroupCountInv' /\ count' \in Nat
    BY <1>1, <1>2, OthersKeepCount
  <1>4. TypeOK'
    BY <1>0, <1>1, <1>3
    DEF TypeOK, Begin, Wait, Test, Sleep, Return, WakeSpuriously, WaiterAt, UnderWay
  <1>5. OwedInv'
    <2>1. owed'[w] \in {owed[w], UnderWay}
      BY <1>0 DEF Begin, Wait, Test, Sleep, Return, WakeSpuriously, TypeOK
    <2>2. \A t \in UnderWay : task[t] # "new"
      BY DEF UnderWay
    <2>. QED
      BY <1>0, <1>1, <2>1, <2>2 DEF OwedInv
  \* The counter is 0 when wait() returns.
  <1>6. WaitMeansDone'
    <2>1. ASSUME waiter'[w] = "returned" PROVE UnderWay = {}
      <3>1. Return(w)
        BY <1>0, <2>1 DEF Begin, Wait, Test, Sleep, WakeSpuriously, WaiterAt, TypeOK
      <3>2. count = 0
        BY <1>0, <3>1 DEF Return, TypeOK
      <3>. QED
        BY <3>2, ZeroMeansNone
    <2>. QED
      BY <1>0, <1>1, <1>2, <2>1 DEF WaitMeansDone
  <1>7. WindowInv'
    <2>1. waiter'[w] \in {"tested", "asleep"} /\ count = 0
            => missed'[w] \/ \E t \in Task : task[t] \in {"counted", "zero"}
      BY <1>0 DEF WindowInv, Begin, Wait, Test, Sleep, Return, WakeSpuriously, WaiterAt, TypeOK
    <2>. QED
      BY <1>0, <1>1, <2>1 DEF WindowInv
  <1>. QED
    BY <1>3, <1>4, <1>5, <1>6, <1>7 DEF GroupInv

-----------------------------------------------------------------------------
LEMMA GroupInit == Init => GroupInv
  <1>. SUFFICES ASSUME Init PROVE GroupInv
    OBVIOUS
  <1>1. UnderWay = {}
    BY DEF Init, UnderWay
  <1>2. GroupCountInv
    BY <1>1, FS_EmptySet DEF GroupCountInv, Init
  <1>3. TypeOK
    BY DEF Init, TypeOK
  <1>. QED
    BY <1>2, <1>3 DEF GroupInv, Init, OwedInv, WaitMeansDone, WindowInv

LEMMA GroupStep == GroupInv /\ [Next]_vars => GroupInv'
  <1>. SUFFICES ASSUME GroupInv, [Next]_vars PROVE GroupInv'
    OBVIOUS
  <1>1. ASSUME UNCHANGED vars PROVE GroupInv'
    BY <1>1 DEF vars, GroupInv, TypeOK, GroupCountInv, OwedInv, WaitMeansDone, WindowInv, UnderWay
  <1>. QED
    BY <1>1, AddStep, DoneStep, WaiterStep DEF Next

-----------------------------------------------------------------------------
(* FileTree.                                                               *)

\* What may lie where.
KindInv ==
    /\ before \in Tree!Trees /\ kind["out"] = "dir" /\ kind["kept"] \in {"file", "none"}
    /\ \A l \in Tree!Loc : /\ l \in stays => kind[l] = before[l]
                           /\ l \notin stays => kind[l] \in {"none", "dir"}
    /\ \A l \in {"dir", "leaf", "sub"} : kind[l] # "none" => kind[Tree!ParentOf[l]] = "dir"
    /\ "sub" \in stays /\ before["sub"] # "none" => "dir" \in stays

\* What is not as it was before was made by mkdir_recursive.
Made(l) == l \in Tree!Tree \ stays /\ kind[l] = "dir"
Untouched == \A l \in Tree!Loc : kind[l] = before[l] \/ (before[l] = "none" /\ Made(l))

\* The call, and where it is before it removes anything.
CallInv ==
    /\ call.func # "white" => call.white = {} /\ call.deleteRoot
    /\ call.func = "white" \/ peer = "mkdir" => before["root"] # "link"
    /\ rpc = "begin" => call.func = "files"
    /\ rpc # "run" => frames = <<>>
    /\ frames = <<>> /\ rpc \in {"begin", "open", "run"} => Untouched
    /\ frames = <<>> /\ rpc = "run" => kind["root"] = "file" /\ call.func = "files"
    /\ rpc = "open" /\ call.func = "files" => kind["root"] \in {"dir", "link"}

\* An entry of a directory that is being removed is still to come, or to be kept, was
\* made meanwhile, or is being removed, unless readdir has failed.
Accounted(i, l) ==
    \/ \E e \in frames[i].left : e[1] = l
    \/ i = 1 /\ l \in call.white /\ before[l] # "none"
    \/ Made(l)
    \/ i < Len(frames) /\ frames[i + 1].at = l
    \/ "remover" \in denied

FrameOf(i) ==
    /\ i = 1 => frames[i].at = "root" /\ kind["root"] \in {"dir", "link"}
    /\ i = 2 => frames[i].at \in {"dir", "leaf"} \ call.white
    /\ i = 3 => frames[i].at = "sub" /\ frames[2].at = "dir"
    /\ i > 1 => kind[frames[i].at] = "dir"
    /\ \A e \in frames[i].left :
          /\ kind[e[1]] = e[2] /\ e[2] # "none"
          /\ e[1] \in DOMAIN Tree!ParentOf /\ Tree!ParentOf[e[1]] = Tree!Resolve(kind, frames[i].at)
          /\ i < Len(frames) => e[1] # frames[i + 1].at
    /\ \A l \in Tree!InDir(kind, Tree!Resolve(kind, frames[i].at)) : Accounted(i, l)

FramesInv == \A i \in 1 .. Len(frames) : FrameOf(i)

\* mkdir_recursive goes through the names in order.
MakeInv ==
    peer = "mkdir" /\ ppc = "begin" => below \in {<<"root", "dir", "sub">>, <<"dir", "sub">>, <<"sub">>}

\* traverse_path: each directory once, each entry once.
Visited(l) == \E i \in DOMAIN visits : visits[i] = l
Waiting(l) == \E i \in DOMAIN below : below[i] = l
Reached(l) == l = "root" \/ Visited(l)
Inner == {"dir", "leaf", "sub"}

VisitInv ==
    peer = "traverse" /\ ppc # "false" =>
        /\ ppc = "begin" => visits = <<>> /\ below = <<>>
        /\ ppc # "run" => entries = {}
        /\ ppc = "true" => below = <<>>
        /\ \A i, j \in DOMAIN below : below[i] = below[j] => i = j
        /\ \A i, j \in DOMAIN visits : visits[i] = visits[j] => i = j
        /\ \A l \in Tree!Loc : Waiting(l) => Reached(l) /\ kind[l] \in {"none", "dir"} /\ l \in Tree!Tree
        /\ Waiting("root") => visits = <<>> /\ entries = {}
        /\ \A l \in Tree!Loc : Visited(l) => /\ l \in Inner
                                             /\ ~Waiting(Tree!ParentOf[l]) /\ Reached(Tree!ParentOf[l])
        /\ \A e \in entries : /\ e[1] \in Inner /\ ~Visited(e[1])
                              /\ ~Waiting(Tree!ParentOf[e[1]]) /\ Reached(Tree!ParentOf[e[1]])
        /\ \A e, f \in entries : e[1] = f[1] => e = f

\* What stays where it was is visited, or will be, unless it is spared or a system call
\* has failed.
CompleteInv ==
    peer = "traverse" /\ ppc \in {"open", "run", "true"} /\ "peer" \notin denied =>
        \A l \in Inner \cap stays : before[l] # "none" /\ ~Tree!Spared(l) =>
            \/ Visited(l) \/ Waiting(Tree!ParentOf[l]) \/ ~Reached(Tree!ParentOf[l])
            \/ \E e \in entries : e[1] = l

\* What the white list spares is not visited, nor what is behind a link.
SpareInv == \A l \in Tree!Loc : Visited(l) => l \in Inner /\ ~Tree!Spared(l)

\* SpareInv is not needed for the rest.
TreeInv ==
    /\ Tree!TypeOK /\ KindInv /\ CallInv /\ FramesInv /\ MakeInv /\ VisitInv /\ CompleteInv
    /\ Tree!OutsideIsKept /\ Tree!WhiteIsKept /\ Tree!FailureHasCause /\ Tree!LeaksOnlyInFailure

-----------------------------------------------------------------------------
LEMMA Places ==
    /\ DOMAIN Tree!ParentOf = {"dir", "leaf", "sub", "kept"}
    /\ Tree!ParentOf["dir"] = "root" /\ Tree!ParentOf["leaf"] = "root"
    /\ Tree!ParentOf["sub"] = "dir" /\ Tree!ParentOf["kept"] = "out"
  BY DEF Tree!ParentOf

\* Links are none but the root and leaf, and were there before.
LEMMA LinksAreOld ==
    ASSUME Tree!TypeOK, KindInv
    PROVE  /\ before \in [Tree!Loc -> Tree!Kind] /\ before["out"] = "dir" /\ before["kept"] = "file"
           /\ \A l \in Tree!Loc : kind[l] = "link" => before[l] = "link" /\ l \in {"root", "leaf"}
           /\ before["dir"] # "link" /\ before["sub"] # "link"
           /\ kind["root"] = "link" => \A l \in Inner : before[l] = "none"
  BY Places DEF Tree!TypeOK, KindInv, Tree!Trees, Tree!Loc, Inner

LEMMA TreeInit == Tree!Init => TreeInv
  <1>. SUFFICES ASSUME Tree!Init PROVE TreeInv
    OBVIOUS
  <1>1. kind \in [Tree!Loc -> Tree!Kind] /\ before = kind /\ kind \in Tree!Trees /\ stays = Tree!Loc /\ frames = <<>>
        /\ entries = {} /\ visits = <<>> /\ leaked = 0
    BY DEF Tree!Init, Tree!Trees
  <1>2. Tree!TypeOK
    <2>1. below \in Seq(Tree!Loc) /\ visits \in Seq(Tree!Loc)
      <3>1. <<>> \in Seq(Tree!Loc) /\ <<"root", "dir", "sub">> \in Seq(Tree!Loc)
        BY DEF Tree!Loc
      <3>2. below \in {<<>>, <<"root", "dir", "sub">>}
        BY DEF Tree!Init
      <3>. QED
        BY <1>1, <3>1, <3>2
    <2>2. frames \in Seq([at : Tree!Loc, left : SUBSET (Tree!Loc \X Tree!Kind)]) /\ Len(frames) <= 3
      BY <1>1
    <2>3. rpc \in Tree!Pc /\ ppc \in Tree!Pc
      BY DEF Tree!Init, Tree!Pc
    <2>4. whitePath \in SUBSET {"dir", "leaf", "sub"} /\ denied \in SUBSET {"remover", "peer"}
      BY TreeAssumed DEF Tree!Init, Tree!TreeAssumption
    <2>5. call \in Tree!Call /\ peer \in Tree!Peer
      BY DEF Tree!Init
    <2>. QED
      BY <1>1, <2>1, <2>2, <2>3, <2>4, <2>5 DEF Tree!TypeOK
  <1>3. KindInv
    BY <1>1, Places DEF KindInv, Tree!Trees, Tree!Loc
  <1>4. CallInv
    BY <1>1 DEF Tree!Init, CallInv, Untouched
  <1>5. FramesInv
    BY <1>1 DEF FramesInv
  <1>6. MakeInv /\ CompleteInv
    BY <1>1 DEF Tree!Init, MakeInv, CompleteInv
  <1>7. VisitInv
    <2>1. ASSUME peer = "traverse" PROVE below = <<>> /\ ppc = "begin" /\ DOMAIN below = {} /\ DOMAIN visits = {}
      BY <1>1, <2>1 DEF Tree!Init
    <2>. QED
      BY <1>1, <2>1 DEF VisitInv, Visited, Waiting
  <1>8. Tree!OutsideIsKept /\ Tree!WhiteIsKept /\ Tree!FailureHasCause /\ Tree!LeaksOnlyInFailure
    BY <1>1 DEF Tree!Init, Tree!OutsideIsKept, Tree!WhiteIsKept, Tree!FailureHasCause, Tree!LeaksOnlyInFailure, Tree!Trees, Tree!Loc
  <1>. QED
    BY <1>2, <1>3, <1>4, <1>5, <1>6, <1>7, <1>8 DEF TreeInv

-----------------------------------------------------------------------------
(* traverse_path.                                                          *)

\* What says nothing of the other thread.
RemoverInv ==
    KindInv /\ CallInv /\ FramesInv /\ Tree!OutsideIsKept /\ Tree!WhiteIsKept /\ Tree!FailureHasCause

LEMMA RemoverKept ==
    ASSUME RemoverInv, UNCHANGED <<kind, Tree!chosen, Tree!remover, stays>>, denied \subseteq denied'
    PROVE  RemoverInv'
  <1>1. UNCHANGED <<kind, call, peer, before, rpc, frames, stays>>
    BY DEF Tree!chosen, Tree!remover
  <1>2. KindInv' /\ CallInv'
    BY <1>1 DEF RemoverInv, KindInv, CallInv, Untouched, Made
  <1>3. FramesInv'
    BY <1>1 DEF RemoverInv, FramesInv, FrameOf, Accounted, Made, Tree!InDir, Tree!Resolve
  <1>4. Tree!OutsideIsKept' /\ Tree!WhiteIsKept' /\ Tree!FailureHasCause'
    BY <1>1 DEF RemoverInv, Tree!OutsideIsKept, Tree!WhiteIsKept, Tree!FailureHasCause
  <1>. QED
    BY <1>2, <1>3, <1>4 DEF RemoverInv

LEMMA LookStep == ASSUME TreeInv, Tree!LookAtRoot, UNCHANGED denied PROVE VisitInv' /\ CompleteInv' /\ Tree!TypeOK'
  <1>0. Tree!TypeOK /\ KindInv /\ VisitInv /\ peer = "traverse" /\ ppc = "begin" /\ UNCHANGED <<kind, Tree!chosen, Tree!remover, entries, visits, stays, leaked>>
    BY DEF TreeInv, Tree!LookAtRoot
  <1>1. visits = <<>> /\ below = <<>> /\ entries = {} /\ DOMAIN visits = {}
    BY <1>0 DEF VisitInv
  <1>2. UNCHANGED <<kind, call, peer, whitePath, denied, before, rpc, frames, entries, visits, stays, leaked>>
    BY <1>0 DEF Tree!chosen, Tree!remover
  <1>3. CASE kind["root"] = "dir"
    <2>1. ppc' = "open" /\ below' = <<"root">>
      BY <1>3 DEF Tree!LookAtRoot
    <2>2. below' \in Seq(Tree!Loc) /\ DOMAIN below' = {1} /\ below'[1] = "root"
      BY <2>1 DEF Tree!Loc
    <2>3. Tree!TypeOK'
      BY <1>0, <1>2, <2>1, <2>2 DEF Tree!TypeOK, Tree!Pc
    <2>4. VisitInv'
      BY <1>1, <1>2, <1>3, <2>1, <2>2 DEF VisitInv, Waiting, Visited, Reached, Tree!Tree
    <2>5. CompleteInv'
      BY <1>1, <1>2, <2>1, <2>2, Places DEF CompleteInv, Waiting, Visited, Reached, Tree!Spared, Inner
    <2>. QED
      BY <2>3, <2>4, <2>5
  <1>4. CASE kind["root"] # "dir"
    <2>1. ppc' = "false" /\ UNCHANGED below
      BY <1>4 DEF Tree!LookAtRoot
    <2>2. Tree!TypeOK'
      BY <1>0, <1>2, <2>1 DEF Tree!TypeOK, Tree!Pc
    <2>. QED
      BY <2>1, <2>2 DEF VisitInv, CompleteInv
  <1>. QED
    BY <1>3, <1>4

LEMMA OpenStep == ASSUME TreeInv, Tree!OpenNext, UNCHANGED denied PROVE VisitInv' /\ CompleteInv' /\ Tree!TypeOK'
  <1>0. Tree!TypeOK /\ KindInv /\ VisitInv /\ CompleteInv /\ peer = "traverse" /\ ppc = "open"
    BY DEF TreeInv, Tree!OpenNext
  <1>1. UNCHANGED <<kind, call, peer, whitePath, denied, before, rpc, frames, visits, stays, leaked>>
    BY DEF Tree!OpenNext, Tree!chosen, Tree!remover
  <1>2. entries = {}
    BY <1>0 DEF VisitInv
  <1>3. CASE below = <<>>
    <2>1. ppc' = "true" /\ UNCHANGED <<below, entries>>
      BY <1>3 DEF Tree!OpenNext
    <2>2. Tree!TypeOK'
      BY <1>0, <1>1, <2>1 DEF Tree!TypeOK, Tree!Pc
    <2>3. VisitInv'
      BY <1>0, <1>1, <1>2, <1>3, <2>1 DEF VisitInv, Waiting, Visited, Reached
    <2>4. CompleteInv'
      BY <1>0, <1>1, <2>1 DEF CompleteInv, Waiting, Visited, Reached, Tree!Spared
    <2>. QED
      BY <2>2, <2>3, <2>4
  <1>4. CASE below # <<>>
    <2>1. PICK n \in Nat : n = Len(below) /\ n > 0 /\ DOMAIN below = 1 .. n /\ below \in Seq(Tree!Loc)
      BY <1>0, <1>4, EmptySeq, LenProperties DEF Tree!TypeOK
    <2>a. PICK l \in Tree!Loc : l = below[n]
      BY <2>1
    <2>2. l \in Tree!Loc /\ Waiting(l)
      BY <2>1, <2>a DEF Waiting
    <2>3. l \in Tree!Tree /\ kind[l] \in {"none", "dir"} /\ Reached(l)
      BY <1>0, <2>2 DEF VisitInv
    <2>4. Tree!Resolve(kind, l) = l
      BY <2>3 DEF Tree!Resolve
    <2>5. below' = SubSeq(below, 1, n - 1) /\ below' \in Seq(Tree!Loc) /\ DOMAIN below' = 1 .. n - 1
          /\ \A i \in 1 .. n - 1 : below'[i] = below[i]
      <3>1. below' = SubSeq(below, 1, n - 1)
        BY <1>4, <2>1 DEF Tree!OpenNext
      <3>. QED
        BY <2>1, <3>1
    <2>6. \A x \in Tree!Loc : Waiting(x)' <=> Waiting(x) /\ x # l
      <3>1. \A i \in 1 .. n : i \in 1 .. n - 1 \/ i = n
        BY <2>1
      <3>2. \A i \in 1 .. n - 1 : i \in 1 .. n /\ i # n
        BY <2>1
      <3>3. \A i, j \in 1 .. n : below[i] = below[j] => i = j
        BY <1>0, <2>1 DEF VisitInv
      <3>4. n \in 1 .. n /\ l = below[n]
        BY <2>1, <2>a
      <3>. QED
        BY <2>1, <2>5, <3>1, <3>2, <3>3, <3>4 DEF Waiting
    <2>7. \A i, j \in DOMAIN below' : below'[i] = below'[j] => i = j
      BY <1>0, <2>1, <2>5 DEF VisitInv
    <2>8. CASE kind[l] = "dir"
      <3>1. ppc' = "run" /\ entries' = Tree!Listing(l)
        BY <1>4, <2>1, <2>a, <2>4, <2>8 DEF Tree!OpenNext
      <3>2. /\ \A e \in entries' : /\ e[1] \in Inner /\ Tree!ParentOf[e[1]] = l
            /\ \A e, f \in entries' : e[1] = f[1] => e = f
            /\ \A c \in Inner : Tree!ParentOf[c] = l /\ kind[c] # "none" => \E e \in entries' : e[1] = c
            /\ entries' \in SUBSET (Tree!Loc \X Tree!Kind)
        <4>1. Tree!InDir(kind, l) = {c \in Inner : Tree!ParentOf[c] = l /\ kind[c] # "none"}
          BY <2>3, Places DEF Tree!InDir, Tree!Tree, Inner
        <4>2. entries' = {<<c, kind[c]>> : c \in {c \in Inner : Tree!ParentOf[c] = l /\ kind[c] # "none"}}
          BY <3>1, <4>1 DEF Tree!Listing
        <4>3. \A c \in Inner : c \in Tree!Loc /\ kind[c] \in Tree!Kind
          BY <1>0 DEF Tree!TypeOK, Inner, Tree!Loc
        <4>4. \A e \in entries' : \E c \in Inner : e = <<c, kind[c]>> /\ Tree!ParentOf[c] = l
          BY <4>2
        <4>5. \A e \in entries' : /\ e[1] \in Inner /\ Tree!ParentOf[e[1]] = l
                                  /\ e = <<e[1], kind[e[1]]>> /\ e \in Tree!Loc \X Tree!Kind
          BY <4>3, <4>4
        <4>6. \A e, f \in entries' : e[1] = f[1] => e = f
          BY <4>5, Zenon
        <4>7. ASSUME NEW c \in Inner, Tree!ParentOf[c] = l, kind[c] # "none" PROVE \E e \in entries' : e[1] = c
          <5>1. <<c, kind[c]>> \in entries'
            BY <4>2, <4>7
          <5>. QED
            BY <5>1
        <4>. QED
          BY <4>5, <4>6, <4>7
      <3>3. Tree!TypeOK'
        BY <1>0, <1>1, <2>5, <3>1, <3>2 DEF Tree!TypeOK, Tree!Pc
      <3>4. VisitInv'
        <4>1. \A x \in Tree!Loc : (Visited(x)' <=> Visited(x)) /\ (Reached(x)' <=> Reached(x))
          BY <1>1 DEF Visited, Reached
        <4>2. ~Waiting("root")'
          <5>1. Waiting("root") => l = "root"
            <6>1. ASSUME Waiting("root"), l # "root" PROVE FALSE
              <7>1. visits = <<>> /\ Reached(l)
                BY <1>0, <6>1, <2>3 DEF VisitInv
              <7>. QED
                BY <6>1, <7>1 DEF Reached, Visited
            <6>. QED
              BY <6>1
          <5>. QED
            BY <2>6, <5>1 DEF Tree!Loc
        <4>3. \A e \in entries' : /\ ~Visited(e[1]) /\ ~Waiting(l)' /\ Reached(l)
          BY <1>0, <2>2, <2>3, <2>6, <3>2 DEF VisitInv, Inner, Tree!Loc
        <4>4. Inner \subseteq Tree!Loc /\ \A c \in Inner : Tree!ParentOf[c] \in Tree!Loc
          BY Places DEF Inner, Tree!Loc
        <4>5. \A x \in Tree!Loc : Waiting(x)' => Reached(x) /\ kind[x] \in {"none", "dir"} /\ x \in Tree!Tree
          BY <1>0, <2>6 DEF VisitInv
        <4>6. \A x \in Tree!Loc : Visited(x) => x \in Inner /\ ~Waiting(Tree!ParentOf[x])' /\ Reached(Tree!ParentOf[x])
          BY <1>0, <2>6, <4>4 DEF VisitInv
        <4>7. \A i, j \in DOMAIN visits : visits[i] = visits[j] => i = j
          BY <1>0 DEF VisitInv
        <4>. QED
          BY <1>1, <2>7, <3>1, <3>2, <4>1, <4>2, <4>3, <4>4, <4>5, <4>6, <4>7 DEF VisitInv
      <3>5. CompleteInv'
        <4>1. ASSUME NEW c \in Inner \cap stays, before[c] # "none", ~Tree!Spared(c), "peer" \notin denied
              PROVE  \/ Visited(c) \/ Waiting(Tree!ParentOf[c])' \/ ~Reached(Tree!ParentOf[c])
                     \/ \E e \in entries' : e[1] = c
          <5>1. Visited(c) \/ Waiting(Tree!ParentOf[c]) \/ ~Reached(Tree!ParentOf[c])
            BY <1>0, <1>2, <4>1 DEF CompleteInv
          <5>2. Tree!ParentOf[c] = l => \E e \in entries' : e[1] = c
            BY <1>0, <3>2, <4>1 DEF KindInv, Inner, Tree!Loc
          <5>3. Tree!ParentOf[c] \in Tree!Loc
            BY Places DEF Inner, Tree!Loc
          <5>. QED
            BY <2>6, <5>1, <5>2, <5>3
        <4>. QED
          BY <1>1, <4>1 DEF CompleteInv, Visited, Reached, Tree!Spared
      <3>. QED
        BY <3>3, <3>4, <3>5
    <2>9. CASE kind[l] # "dir"
      <3>1. ppc' = "false" /\ UNCHANGED entries
        BY <1>4, <2>1, <2>a, <2>4, <2>9 DEF Tree!OpenNext
      <3>2. Tree!TypeOK'
        BY <1>0, <1>1, <2>5, <3>1 DEF Tree!TypeOK, Tree!Pc
      <3>. QED
        BY <3>1, <3>2 DEF VisitInv, CompleteInv
    <2>. QED
      BY <2>8, <2>9
  <1>. QED
    BY <1>3, <1>4

\* A place is added to those visited.
LEMMA OneMoreVisit ==
    ASSUME NEW l \in Tree!Loc, visits \in Seq(Tree!Loc), visits' = Append(visits, l)
    PROVE  /\ visits' \in Seq(Tree!Loc)
           /\ \A x \in Tree!Loc : Visited(x)' <=> Visited(x) \/ x = l
           /\ ~Visited(l) /\ (\A i, j \in DOMAIN visits : visits[i] = visits[j] => i = j)
                => \A i, j \in DOMAIN visits' : visits'[i] = visits'[j] => i = j
  <1>1. PICK n \in Nat : n = Len(visits) /\ DOMAIN visits = 1 .. n
    BY LenProperties
  <1>2. /\ visits' \in Seq(Tree!Loc) /\ DOMAIN visits' = 1 .. n + 1 /\ visits'[n + 1] = l
        /\ \A i \in 1 .. n : visits'[i] = visits[i]
    BY <1>1, AppendProperties, LenProperties
  <1>3. \A i \in 1 .. n + 1 : i \in 1 .. n \/ i = n + 1
    BY <1>1
  <1>4. n + 1 \in 1 .. n + 1 /\ n + 1 \notin 1 .. n /\ \A i \in 1 .. n : i \in 1 .. n + 1
    BY <1>1
  <1>. QED
    BY <1>1, <1>2, <1>3, <1>4 DEF Visited

LEMMA VisitStep == ASSUME TreeInv, Tree!VisitNext, UNCHANGED denied PROVE VisitInv' /\ CompleteInv' /\ Tree!TypeOK'
  <1>0. Tree!TypeOK /\ KindInv /\ VisitInv /\ CompleteInv /\ peer = "traverse" /\ ppc = "run"
    BY DEF TreeInv, Tree!VisitNext
  <1>1. UNCHANGED <<kind, call, peer, whitePath, denied, before, rpc, frames, ppc, stays, leaked>>
    BY DEF Tree!VisitNext, Tree!chosen, Tree!remover
  <1>2. PICK e \in entries : /\ visits' = Append(visits, e[1])
                             /\ below' = IF Tree!Enters(e[1]) THEN Append(below, e[1]) ELSE below
                             /\ entries' = entries \ {e}
    BY DEF Tree!VisitNext
  <1>3. PICK l \in Inner : l = e[1] /\ ~Visited(l) /\ ~Waiting(Tree!ParentOf[l]) /\ Reached(Tree!ParentOf[l])
    BY <1>0 DEF VisitInv
  <1>4. /\ l \in Tree!Loc /\ Inner \subseteq Tree!Loc /\ Inner \subseteq Tree!Tree /\ "root" \in Tree!Loc /\ "root" \notin Inner
        /\ visits \in Seq(Tree!Loc) /\ below \in Seq(Tree!Loc)
        /\ \A x \in Inner : Tree!ParentOf[x] \in Tree!Loc /\ Tree!ParentOf[x] # x
    BY <1>0, Places DEF Tree!TypeOK, Inner, Tree!Loc, Tree!Tree
  <1>5. /\ visits' \in Seq(Tree!Loc)
        /\ \A x \in Tree!Loc : Visited(x)' <=> Visited(x) \/ x = l
        /\ \A i, j \in DOMAIN visits' : visits'[i] = visits'[j] => i = j
    BY <1>0, <1>2, <1>3, <1>4, OneMoreVisit DEF VisitInv
  <1>6. ~Waiting("root") /\ ~Waiting(l)
    <2>1. ~Waiting("root")
      BY <1>0 DEF VisitInv
    <2>. QED
      BY <1>0, <1>3, <1>4, <2>1 DEF VisitInv, Reached
  <1>7. /\ below' \in Seq(Tree!Loc)
        /\ \A x \in Tree!Loc : Waiting(x)' <=> Waiting(x) \/ (x = l /\ kind[l] = "dir")
        /\ \A i, j \in DOMAIN below' : below'[i] = below'[j] => i = j
    <2>1. \A i, j \in DOMAIN below : below[i] = below[j] => i = j
      BY <1>0 DEF VisitInv
    <2>2. CASE kind[l] # "dir"
      BY <1>2, <1>3, <1>4, <2>1, <2>2 DEF Tree!Enters, Waiting
    <2>3. CASE kind[l] = "dir"
      <3>1. below' = Append(below, l)
        BY <1>2, <1>3, <2>3 DEF Tree!Enters
      <3>2. PICK n \in Nat : n = Len(below) /\ DOMAIN below = 1 .. n
        BY <1>4, LenProperties
      <3>3. /\ below' \in Seq(Tree!Loc) /\ DOMAIN below' = 1 .. n + 1 /\ below'[n + 1] = l
            /\ \A i \in 1 .. n : below'[i] = below[i]
        BY <1>4, <3>1, <3>2, AppendProperties, LenProperties
      <3>4. \A i \in 1 .. n + 1 : i \in 1 .. n \/ i = n + 1
        BY <3>2
      <3>5. n + 1 \in 1 .. n + 1 /\ n + 1 \notin 1 .. n /\ \A i \in 1 .. n : i \in 1 .. n + 1
        BY <3>2
      <3>6. \A x \in Tree!Loc : Waiting(x)' <=> Waiting(x) \/ x = l
        BY <3>2, <3>3, <3>4, <3>5 DEF Waiting
      <3>7. \A i \in 1 .. n : below[i] # l
        BY <1>6, <3>2 DEF Waiting
      <3>8. \A i, j \in DOMAIN below' : below'[i] = below'[j] => i = j
        BY <2>1, <3>2, <3>3, <3>4, <3>7
      <3>. QED
        BY <2>3, <3>3, <3>6, <3>8
    <2>. QED
      BY <2>2, <2>3
  <1>8. \A x \in Tree!Loc : Reached(x)' <=> Reached(x) \/ x = l
    BY <1>5 DEF Reached
  <1>9. Tree!TypeOK'
    BY <1>0, <1>1, <1>2, <1>5, <1>7 DEF Tree!TypeOK
  <1>10. VisitInv'
    <2>1. \A x \in Tree!Loc : Waiting(x)' => Reached(x)' /\ kind[x] \in {"none", "dir"} /\ x \in Tree!Tree
      BY <1>0, <1>4, <1>7, <1>8 DEF VisitInv
    <2>2. ~Waiting("root")'
      BY <1>4, <1>6, <1>7
    \* The place that a visit leads to has not been visited before.
    <2>3. \A x \in Inner : Reached(Tree!ParentOf[x]) => Tree!ParentOf[x] # l
      BY <1>3, <1>4 DEF Reached
    <2>4. ASSUME NEW x \in Tree!Loc, Visited(x)'
          PROVE  x \in Inner /\ ~Waiting(Tree!ParentOf[x])' /\ Reached(Tree!ParentOf[x])'
      <3>1. CASE x = l
        BY <1>3, <1>4, <1>7, <1>8, <3>1
      <3>2. CASE x # l
        <4>1. x \in Inner /\ ~Waiting(Tree!ParentOf[x]) /\ Reached(Tree!ParentOf[x])
          BY <1>0, <1>5, <2>4, <3>2 DEF VisitInv
        <4>. QED
          BY <1>4, <1>7, <1>8, <2>3, <4>1
      <3>. QED
        BY <3>1, <3>2
    <2>5. ASSUME NEW f \in entries'
          PROVE  /\ f[1] \in Inner /\ ~Visited(f[1])'
                 /\ ~Waiting(Tree!ParentOf[f[1]])' /\ Reached(Tree!ParentOf[f[1]])'
      <3>1. /\ f \in entries /\ f # e /\ f[1] # l
            /\ f[1] \in Inner /\ ~Visited(f[1]) /\ ~Waiting(Tree!ParentOf[f[1]]) /\ Reached(Tree!ParentOf[f[1]])
        BY <1>0, <1>2, <1>3 DEF VisitInv
      <3>. QED
        BY <1>4, <1>5, <1>7, <1>8, <2>3, <3>1
    <2>6. \A f, g \in entries' : f[1] = g[1] => f = g
      BY <1>0, <1>2 DEF VisitInv
    <2>. QED
      BY <1>0, <1>1, <1>5, <1>7, <2>1, <2>2, <2>4, <2>5, <2>6 DEF VisitInv
  <1>11. CompleteInv'
    <2>1. ASSUME NEW c \in Inner \cap stays, before[c] # "none", ~Tree!Spared(c), "peer" \notin denied
          PROVE  \/ Visited(c)' \/ Waiting(Tree!ParentOf[c])' \/ ~Reached(Tree!ParentOf[c])'
                 \/ \E f \in entries' : f[1] = c
      <3>0. c \in Tree!Loc /\ Tree!ParentOf[c] \in Tree!Loc
        BY <1>4
      <3>1. CASE c = l
        BY <1>5, <3>0, <3>1
      <3>2. CASE Visited(c) \/ Waiting(Tree!ParentOf[c])
        BY <1>5, <1>7, <3>0, <3>2
      <3>3. CASE c # l /\ \E f \in entries : f[1] = c
        BY <1>2, <1>3, <3>3
      \* Its directory is entered now.
      <3>4. CASE ~Reached(Tree!ParentOf[c])
        <4>1. Tree!ParentOf[c] = l => kind[l] = "dir"
          BY <1>0, <2>1, <1>4 DEF KindInv, Inner
        <4>. QED
          BY <1>7, <1>8, <3>0, <3>4, <4>1
      <3>. QED
        BY <1>0, <2>1, <3>1, <3>2, <3>3, <3>4 DEF CompleteInv
    <2>. QED
      BY <1>0, <1>1, <2>1 DEF CompleteInv, Tree!Spared
  <1>. QED
    BY <1>9, <1>10, <1>11

\* An entry is passed over, not read at all, or visited without being entered.
LEMMA PassOverStep ==
    ASSUME TreeInv, peer = "traverse", ppc = "run", entries' \subseteq entries,
           UNCHANGED <<kind, Tree!chosen, Tree!remover, ppc, below, stays, leaked>>,
           denied' \in {denied, denied \cup {"peer"}},
           \/ UNCHANGED visits
           \/ \E e \in entries : visits' = Append(visits, e[1]) /\ entries' = entries \ {e},
           "peer" \notin denied' => UNCHANGED visits /\ \A e \in entries \ entries' : e[1] \in whitePath
    PROVE  VisitInv' /\ CompleteInv' /\ Tree!TypeOK'
  <1>0. Tree!TypeOK /\ KindInv /\ VisitInv /\ CompleteInv
    BY DEF TreeInv
  <1>1. UNCHANGED <<kind, call, peer, whitePath, before, rpc, frames, ppc, below, stays, leaked>>
    BY DEF Tree!chosen, Tree!remover
  <1>2. visits' \in Seq(Tree!Loc) /\ (\A x \in Tree!Loc : Visited(x) => Visited(x)')
        /\ (\A i, j \in DOMAIN visits' : visits'[i] = visits'[j] => i = j)
        /\ \A x \in Tree!Loc : Visited(x)' =>
              \/ Visited(x)
              \/ \E e \in entries : e[1] = x /\ entries' = entries \ {e}
    <2>1. CASE UNCHANGED visits
      BY <1>0, <2>1 DEF VisitInv, Visited, Tree!TypeOK
    <2>2. CASE \E e \in entries : visits' = Append(visits, e[1]) /\ entries' = entries \ {e}
      <3>1. PICK e \in entries : visits' = Append(visits, e[1]) /\ entries' = entries \ {e}
        BY <2>2
      <3>2. PICK l \in Inner : l = e[1] /\ ~Visited(l)
        BY <1>0, <3>1 DEF VisitInv
      <3>3. l \in Tree!Loc /\ visits \in Seq(Tree!Loc)
        BY <1>0 DEF Tree!TypeOK, Inner, Tree!Loc
      <3>4. \A i, j \in DOMAIN visits : visits[i] = visits[j] => i = j
        BY <1>0 DEF VisitInv
      <3>. QED
        BY <3>1, <3>2, <3>3, <3>4, OneMoreVisit
    <2>. QED
      BY <2>1, <2>2
  <1>3. Tree!TypeOK'
    BY <1>0, <1>1, <1>2 DEF Tree!TypeOK
  <1>4. VisitInv'
    <2>1. \A x \in Tree!Loc : (Waiting(x)' <=> Waiting(x)) /\ (Reached(x) => Reached(x)')
      BY <1>1, <1>2 DEF Waiting, Reached
    <2>2. Inner \subseteq Tree!Loc /\ \A x \in Inner : Tree!ParentOf[x] \in Tree!Loc
      BY Places DEF Inner, Tree!Loc
    <2>3. ASSUME NEW x \in Tree!Loc, Visited(x)'
          PROVE  x \in Inner /\ ~Waiting(Tree!ParentOf[x])' /\ Reached(Tree!ParentOf[x])'
      <3>1. x \in Inner /\ ~Waiting(Tree!ParentOf[x]) /\ Reached(Tree!ParentOf[x])
        BY <1>0, <1>2, <2>3 DEF VisitInv
      <3>. QED
        BY <2>1, <2>2, <3>1
    <2>4. ASSUME NEW f \in entries'
          PROVE  /\ f[1] \in Inner /\ ~Visited(f[1])'
                 /\ ~Waiting(Tree!ParentOf[f[1]])' /\ Reached(Tree!ParentOf[f[1]])'
      <3>1. /\ f \in entries /\ f[1] \in Inner /\ ~Visited(f[1])
            /\ ~Waiting(Tree!ParentOf[f[1]]) /\ Reached(Tree!ParentOf[f[1]])
        BY <1>0 DEF VisitInv
      <3>2. \A e \in entries : e[1] = f[1] => e = f
        BY <1>0, <3>1 DEF VisitInv
      <3>3. ~Visited(f[1])'
        BY <1>2, <2>2, <3>1, <3>2, <2>4
      <3>. QED
        BY <2>1, <2>2, <3>1, <3>3
    <2>5. \A f, g \in entries' : f[1] = g[1] => f = g
      BY <1>0 DEF VisitInv
    <2>6. (Waiting("root")' => visits' = <<>> /\ entries' = {}) /\ ppc' = "run"
      <3>1. Waiting("root") => visits = <<>> /\ entries = {}
        BY <1>0 DEF VisitInv
      <3>2. entries = {} => entries' = {} /\ UNCHANGED visits
        OBVIOUS
      <3>. QED
        BY <1>1, <2>1, <3>1, <3>2 DEF Tree!Loc
    <2>7. \A x \in Tree!Loc : Waiting(x)' => Reached(x)' /\ kind[x] \in {"none", "dir"} /\ x \in Tree!Tree
      BY <1>0, <2>1 DEF VisitInv
    <2>8. \A i, j \in DOMAIN below : below[i] = below[j] => i = j
      BY <1>0 DEF VisitInv
    <2>. QED
      BY <1>1, <1>2, <2>3, <2>4, <2>5, <2>6, <2>7, <2>8 DEF VisitInv
  <1>5. CompleteInv'
    <2>1. ASSUME NEW c \in Inner \cap stays, before[c] # "none", ~Tree!Spared(c), "peer" \notin denied'
          PROVE  \/ Visited(c)' \/ Waiting(Tree!ParentOf[c])' \/ ~Reached(Tree!ParentOf[c])'
                 \/ \E f \in entries' : f[1] = c
      <3>1. UNCHANGED <<visits, below>> /\ "peer" \notin denied
        BY <1>1, <2>1
      <3>2. \/ Visited(c) \/ Waiting(Tree!ParentOf[c]) \/ ~Reached(Tree!ParentOf[c])
            \/ \E f \in entries : f[1] = c
        BY <1>0, <2>1, <3>1 DEF CompleteInv
      <3>3. \A f \in entries : f[1] = c => f \in entries'
        BY <2>1 DEF Tree!Spared
      <3>. QED
        BY <3>1, <3>2, <3>3 DEF Visited, Waiting, Reached
    <2>. QED
      BY <1>1, <2>1 DEF CompleteInv, Tree!Spared
  <1>. QED
    BY <1>3, <1>4, <1>5

LEMMA TraverseStep == ASSUME TreeInv, Tree!Traverse PROVE TreeInv'
  <1>0. Tree!TypeOK /\ VisitInv /\ CompleteInv /\ peer = "traverse" /\ Tree!LeaksOnlyInFailure /\ RemoverInv
        /\ UNCHANGED <<kind, Tree!chosen, Tree!remover, stays>> /\ denied' \in {denied, denied \cup {"peer"}}
    BY DEF TreeInv, RemoverInv, Tree!Traverse, Tree!LookAtRoot, Tree!OpenNext, Tree!PassWhite, Tree!VisitNext, Tree!CallbackRefuses, Tree!CloseThis,
           Tree!TraverseDenied, Tree!VisitUnknown, Tree!ListingFails
  <1>1. UNCHANGED <<call, peer, whitePath, before, rpc, frames>>
    BY <1>0 DEF Tree!chosen, Tree!remover
  <1>2. VisitInv' /\ CompleteInv' /\ Tree!TypeOK'
    <2>1. CASE Tree!CallbackRefuses
      <3>1. ppc' = "false" /\ leaked' = leaked + 1 /\ UNCHANGED <<below, entries>>
        BY <2>1 DEF Tree!CallbackRefuses
      <3>2. visits' \in Seq(Tree!Loc)
        <4>1. PICK e \in entries : visits' = Append(visits, e[1])
          BY <2>1 DEF Tree!CallbackRefuses
        <4>2. e[1] \in Tree!Loc /\ visits \in Seq(Tree!Loc)
          BY <1>0 DEF Tree!TypeOK
        <4>. QED
          BY <4>1, <4>2, AppendProperties
      <3>3. Tree!TypeOK'
        BY <1>0, <1>1, <3>1, <3>2 DEF Tree!TypeOK, Tree!Pc
      <3>. QED
        BY <3>1, <3>3 DEF VisitInv, CompleteInv
    <2>2. CASE Tree!CloseThis
      <3>1. ppc = "run" /\ ppc' = "open" /\ entries = {} /\ UNCHANGED <<below, entries, visits, leaked>>
        BY <2>2 DEF Tree!CloseThis
      <3>2. Tree!TypeOK'
        BY <1>0, <1>1, <3>1 DEF Tree!TypeOK, Tree!Pc
      <3>3. VisitInv'
        BY <1>0, <1>1, <3>1 DEF VisitInv, Visited, Waiting, Reached
      <3>4. CompleteInv'
        BY <1>0, <1>1, <3>1 DEF CompleteInv, Visited, Waiting, Reached, Tree!Spared
      <3>. QED
        BY <3>2, <3>3, <3>4
    <2>3. CASE Tree!TraverseDenied
      <3>1. ppc' = "false" /\ UNCHANGED <<below, entries, visits, leaked>>
        BY <2>3 DEF Tree!TraverseDenied
      <3>2. Tree!TypeOK'
        BY <1>0, <1>1, <3>1 DEF Tree!TypeOK, Tree!Pc
      <3>. QED
        BY <3>1, <3>2 DEF VisitInv, CompleteInv
    <2>4. CASE Tree!PassWhite /\ UNCHANGED denied
      <3>1. ppc = "run" /\ UNCHANGED <<Tree!chosen, Tree!remover, ppc, below, visits, stays, leaked>>
        BY <2>4 DEF Tree!PassWhite
      <3>2. PICK e \in entries : e[1] \in whitePath /\ entries' = entries \ {e}
        BY <2>4 DEF Tree!PassWhite
      <3>. QED
        BY <1>0, <2>4, <3>1, <3>2, PassOverStep
    <2>5. CASE Tree!VisitUnknown
      <3>1. ppc = "run" /\ denied' = denied \cup {"peer"} /\ UNCHANGED <<Tree!chosen, Tree!remover, ppc, below, stays, leaked>>
        BY <2>5 DEF Tree!VisitUnknown
      <3>2. PICK e \in entries : visits' = Append(visits, e[1]) /\ entries' = entries \ {e}
        BY <2>5 DEF Tree!VisitUnknown
      <3>. QED
        BY <1>0, <3>1, <3>2, PassOverStep
    <2>6. CASE Tree!ListingFails
      <3>1. /\ ppc = "run" /\ denied' = denied \cup {"peer"} /\ entries' = {}
            /\ UNCHANGED <<Tree!chosen, Tree!remover, ppc, below, visits, stays, leaked>>
        BY <2>6 DEF Tree!ListingFails
      <3>. QED
        BY <1>0, <3>1, PassOverStep
    <2>. QED
      BY <2>1, <2>2, <2>3, <2>4, <2>5, <2>6, LookStep, OpenStep, VisitStep DEF Tree!Traverse
  <1>3. RemoverInv'
    BY <1>0, RemoverKept
  <1>4. MakeInv'
    BY <1>0, <1>1 DEF MakeInv
  <1>5. Tree!LeaksOnlyInFailure'
    <2>1. leaked' = leaked \/ ppc' = "false"
      BY DEF Tree!Traverse, Tree!LookAtRoot, Tree!OpenNext, Tree!PassWhite, Tree!VisitNext, Tree!CallbackRefuses, Tree!CloseThis,
           Tree!TraverseDenied, Tree!VisitUnknown, Tree!ListingFails
    <2>2. ppc # "false"
      BY DEF Tree!Traverse, Tree!LookAtRoot, Tree!OpenNext, Tree!PassWhite, Tree!VisitNext, Tree!CallbackRefuses, Tree!CloseThis,
           Tree!TraverseDenied, Tree!VisitUnknown, Tree!ListingFails
    <2>. QED
      BY <1>0, <1>1, <2>1, <2>2 DEF Tree!LeaksOnlyInFailure
  <1>. QED
    BY <1>2, <1>3, <1>4, <1>5 DEF TreeInv, RemoverInv

-----------------------------------------------------------------------------
LEMMA FrameType ==
    ASSUME Tree!TypeOK
    PROVE  /\ Len(frames) \in 0 .. 3
           /\ \A i \in 1 .. Len(frames) :
                 frames[i].at \in Tree!Loc /\ frames[i].left \subseteq Tree!Loc \X Tree!Kind
  <1>1. frames \in Seq([at : Tree!Loc, left : SUBSET (Tree!Loc \X Tree!Kind)]) /\ Len(frames) <= 3
    BY DEF Tree!TypeOK
  <1>2. \A i \in 1 .. Len(frames) : frames[i] \in [at : Tree!Loc, left : SUBSET (Tree!Loc \X Tree!Kind)]
    BY <1>1, ElementOfSeq
  <1>3. \A i \in 1 .. Len(frames) : frames[i].at \in Tree!Loc /\ frames[i].left \subseteq Tree!Loc \X Tree!Kind
    BY <1>2
  <1>4. Len(frames) \in Nat
    BY <1>1, LenProperties
  <1>5. PICK n \in Nat : n = Len(frames) /\ n <= 3
    BY <1>1, <1>4
  <1>6. Len(frames) \in 0 .. 3
    BY <1>5
  <1>. QED
    BY <1>3, <1>6, Zenon

(* mkdir_recursive.                                                        *)

LEMMA MakeStep == ASSUME TreeInv, Tree!MakeDir, UNCHANGED denied PROVE TreeInv'
  <1>0. /\ Tree!TypeOK /\ KindInv /\ CallInv /\ FramesInv /\ MakeInv
        /\ Tree!OutsideIsKept /\ Tree!WhiteIsKept /\ Tree!FailureHasCause /\ Tree!LeaksOnlyInFailure
        /\ peer = "mkdir" /\ ppc = "begin" /\ before["root"] # "link"
    BY DEF TreeInv, Tree!MakeDir, CallInv
  <1>1. UNCHANGED <<call, peer, whitePath, denied, before, rpc, frames, entries, visits, leaked>>
    BY DEF Tree!MakeDir, Tree!chosen, Tree!remover
  <1>2. PICK l \in {"root", "dir", "sub"} : l = Head(below) /\ l \in Tree!Loc /\ l \in Tree!Tree
    BY <1>0 DEF MakeInv, Tree!Loc, Tree!Tree
  <1>3. /\ below' \in Seq(Tree!Loc)
        /\ ppc' = "begin" => below' \in {<<"dir", "sub">>, <<"sub">>}
    <2>1. below \in {<<"root", "dir", "sub">>, <<"dir", "sub">>, <<"sub">>} /\ below' = Tail(below)
      BY <1>0 DEF MakeInv, Tree!MakeDir
    <2>2. below = <<"sub">> => ppc' # "begin"
      BY <1>0 DEF Tree!MakeDir
    <2>3. below # <<"sub">> => below' \in {<<"dir", "sub">>, <<"sub">>}
      <3>1. Tail(<<"root", "dir", "sub">>) = <<"dir", "sub">>
        OBVIOUS
      <3>2. Tail(<<"dir", "sub">>) = <<"sub">>
        OBVIOUS
      <3>. QED
        BY <2>1, <3>1, <3>2, Zenon
    <2>4. <<>> \in Seq(Tree!Loc) /\ <<"dir", "sub">> \in Seq(Tree!Loc) /\ <<"sub">> \in Seq(Tree!Loc)
      BY DEF Tree!Loc
    <2>5. below = <<"sub">> => below' = <<>>
      BY <2>1
    <2>. QED
      BY <2>2, <2>3, <2>4, <2>5
  <1>4. ppc' \in {"begin", "true", "false"}
    BY <1>0 DEF Tree!MakeDir
  <1>5. MakeInv' /\ VisitInv' /\ CompleteInv'
    BY <1>0, <1>1, <1>3 DEF MakeInv, VisitInv, CompleteInv
  <1>6. Tree!LeaksOnlyInFailure'
    BY <1>0, <1>1 DEF Tree!LeaksOnlyInFailure
  <1>7. CASE Tree!Holds(l) /\ kind[l] = "none"
    <2>1. kind' = [kind EXCEPT ![l] = "dir"] /\ stays' = stays \ {l}
      BY <1>2, <1>7 DEF Tree!MakeDir, Tree!Put
    <2>2. /\ kind' \in [Tree!Loc -> Tree!Kind] /\ stays' \in SUBSET Tree!Loc
          /\ \A x \in Tree!Loc : kind'[x] = IF x = l THEN "dir" ELSE kind[x]
      BY <1>0, <1>2, <2>1 DEF Tree!TypeOK, Tree!Kind
    <2>3. Tree!TypeOK'
      BY <1>0, <1>1, <1>3, <1>4, <2>2 DEF Tree!TypeOK, Tree!Pc
    <2>4. KindInv'
      BY <1>0, <1>1, <1>2, <1>7, <2>1, <2>2, Places DEF KindInv, Tree!Holds, Tree!Loc
    <2>5. CallInv'
      <3>1. Untouched => Untouched'
        BY <1>1, <1>2, <1>7, <2>1, <2>2 DEF Untouched, Made
      <3>2. "root" \in Tree!Loc
        BY DEF Tree!Loc
      <3>. QED
        BY <1>0, <1>1, <1>7, <2>2, <3>1, <3>2 DEF CallInv
    <2>6. FramesInv'
      <3>1. SUFFICES ASSUME NEW i \in 1 .. Len(frames) PROVE FrameOf(i)'
        BY <1>1 DEF FramesInv
      <3>2. FrameOf(i)
        BY <1>0 DEF FramesInv
      <3>3. frames[i].at \in Tree!Loc /\ frames[i].left \subseteq Tree!Loc \X Tree!Kind
        BY <1>0, FrameType
      <3>4. \A x \in Tree!Loc : kind[x] # "none" => kind'[x] = kind[x]
        BY <1>7, <2>2
      <3>5. "root" \in Tree!Loc /\ Tree!Resolve(kind, frames[i].at)' = Tree!Resolve(kind, frames[i].at)
        BY <1>1, <1>7, <2>2, <3>3 DEF Tree!Resolve, Tree!Loc
      <3>6. \A e \in frames[i].left :
                /\ kind'[e[1]] = e[2] /\ e[2] # "none"
                /\ e[1] \in DOMAIN Tree!ParentOf /\ Tree!ParentOf[e[1]] = Tree!Resolve(kind, frames[i].at)
                /\ i < Len(frames) => e[1] # frames[i + 1].at
        BY <3>2, <3>3, <3>4 DEF FrameOf
      <3>7. ASSUME NEW x \in Tree!InDir(kind, Tree!Resolve(kind, frames[i].at))' PROVE Accounted(i, x)'
        <4>1. x \in DOMAIN Tree!ParentOf /\ x \in Tree!Loc /\ Tree!ParentOf[x] = Tree!Resolve(kind, frames[i].at)
          BY <3>5, <3>7, Places DEF Tree!InDir, Tree!Loc
        <4>2. CASE x = l
          BY <1>2, <2>1, <2>2, <4>2 DEF Accounted, Made
        <4>3. CASE x # l
          <5>1. Accounted(i, x)
            BY <2>2, <3>2, <3>5, <3>7, <4>1, <4>3 DEF FrameOf, Tree!InDir
          <5>. QED
            BY <1>1, <2>1, <2>2, <4>1, <4>3, <5>1 DEF Accounted, Made
        <4>. QED
          BY <4>2, <4>3
      <3>8. /\ i = 1 => frames[i].at = "root" /\ kind'["root"] \in {"dir", "link"}
            /\ i = 2 => frames[i].at \in {"dir", "leaf"} \ call.white
            /\ i = 3 => frames[i].at = "sub" /\ frames[2].at = "dir"
            /\ i > 1 => kind'[frames[i].at] = "dir"
        BY <3>2, <3>3, <3>4, <3>5 DEF FrameOf
      <3>. QED
        BY <1>1, <3>5, <3>6, <3>7, <3>8 DEF FrameOf
    <2>7. Tree!OutsideIsKept' /\ Tree!WhiteIsKept' /\ Tree!FailureHasCause'
      <3>1. Tree!OutsideIsKept'
        BY <1>0, <1>1, <1>7, <2>2 DEF Tree!OutsideIsKept, Tree!Loc
      <3>2. Tree!WhiteIsKept'
        <4>1. \A x \in {"dir", "leaf", "sub"} : x \in Tree!Loc
          BY DEF Tree!Loc
        <4>. QED
          BY <1>0, <1>1, <1>7, <2>2, <4>1, LinksAreOld DEF Tree!WhiteIsKept
      <3>3. Tree!FailureHasCause'
        BY <1>0, <1>1, <1>2, <2>1, <2>2 DEF Tree!FailureHasCause, Tree!Tree, Tree!Loc
      <3>. QED
        BY <3>1, <3>2, <3>3
    <2>. QED
      BY <1>5, <1>6, <2>3, <2>4, <2>5, <2>6, <2>7 DEF TreeInv
  <1>8. CASE ~(Tree!Holds(l) /\ kind[l] = "none")
    <2>1. UNCHANGED <<kind, stays>>
      BY <1>2, <1>8 DEF Tree!MakeDir
    <2>2. Tree!TypeOK'
      BY <1>0, <1>1, <1>3, <1>4, <2>1 DEF Tree!TypeOK, Tree!Pc
    <2>3. RemoverInv'
      BY <1>0, <1>1, <2>1, RemoverKept DEF RemoverInv, Tree!chosen, Tree!remover
    <2>. QED
      BY <1>5, <1>6, <2>2, <2>3 DEF TreeInv, RemoverInv
  <1>. QED
    BY <1>7, <1>8

-----------------------------------------------------------------------------
(* remove_files and remove_dir.                                            *)

\* A removal takes nothing from the other thread.
LEMMA OtherKept ==
    ASSUME TreeInv, UNCHANGED <<Tree!chosen, Tree!others>>, stays' \subseteq stays, denied \subseteq denied',
           \A l \in Tree!Loc : kind'[l] \in {kind[l], "none"}
    PROVE  MakeInv' /\ VisitInv' /\ CompleteInv'
  <1>1. UNCHANGED <<call, peer, whitePath, before, ppc, below, entries, visits>>
    BY DEF Tree!chosen, Tree!others
  <1>2. MakeInv /\ VisitInv /\ CompleteInv
    BY DEF TreeInv
  <1>3. MakeInv'
    BY <1>1, <1>2 DEF MakeInv
  <1>4. VisitInv'
    BY <1>1, <1>2 DEF VisitInv, Visited, Waiting, Reached
  <1>5. CompleteInv'
    BY <1>1, <1>2 DEF CompleteInv, Visited, Waiting, Reached, Tree!Spared
  <1>. QED
    BY <1>3, <1>4, <1>5

\* A place is taken away that nothing lies in.
LEMMA PutNone ==
    ASSUME Tree!TypeOK, KindInv, NEW l \in Tree!Loc \ {"out"}, Tree!Put(l, "none"), UNCHANGED before,
           \A c \in Inner : Tree!ParentOf[c] = l => kind[c] = "none"
    PROVE  /\ KindInv' /\ kind' \in [Tree!Loc -> Tree!Kind] /\ stays' = stays \ {l} /\ stays' \in SUBSET Tree!Loc
           /\ \A x \in Tree!Loc : kind'[x] = IF x = l THEN "none" ELSE kind[x]
  <1>1. kind' = [kind EXCEPT ![l] = "none"] /\ stays' = stays \ {l}
    BY DEF Tree!Put
  <1>2. /\ kind' \in [Tree!Loc -> Tree!Kind] /\ stays' \in SUBSET Tree!Loc
        /\ \A x \in Tree!Loc : kind'[x] = IF x = l THEN "none" ELSE kind[x]
    BY <1>1 DEF Tree!TypeOK, Tree!Kind
  <1>3. KindInv'
    BY <1>1, <1>2, Places DEF KindInv, Tree!Loc, Inner
  <1>. QED
    BY <1>1, <1>2, <1>3

\* The white list of the call keeps what is in it, and below it.
LEMMA WhiteKept ==
    ASSUME Tree!TypeOK, Tree!WhiteIsKept, NEW l \in Tree!Loc, UNCHANGED <<call, before>>,
           \A x \in Tree!Loc : kind'[x] = IF x = l THEN "none" ELSE kind[x],
           l \in {"dir", "leaf"} => l \notin call.white \/ before[l] = "none",
           l = "sub" => "dir" \notin call.white \/ before["dir"] = "none"
    PROVE  Tree!WhiteIsKept'
  BY DEF Tree!WhiteIsKept, Tree!Loc

LEMMA StatStep == ASSUME TreeInv, Tree!Stat, UNCHANGED denied PROVE TreeInv'
  <1>0. Tree!TypeOK /\ KindInv /\ CallInv /\ Tree!OutsideIsKept /\ Tree!WhiteIsKept /\ Tree!LeaksOnlyInFailure /\ rpc = "begin"
    BY DEF TreeInv, Tree!Stat
  <1>1. UNCHANGED <<kind, call, peer, whitePath, denied, before, frames, ppc, below, entries, visits, stays, leaked>>
    BY DEF Tree!Stat, Tree!chosen, Tree!others
  <1>2. frames = <<>> /\ Untouched /\ call.func = "files"
    BY <1>0 DEF CallInv
  <1>3. \/ rpc' = "false" /\ kind["root"] = "none"
        \/ rpc' = "open" /\ kind["root"] \in {"dir", "link"}
        \/ rpc' = "run" /\ kind["root"] = "file"
    BY <1>0 DEF Tree!Stat, Tree!Resolve, Tree!TypeOK, KindInv, Tree!Loc, Tree!Kind
  <1>4. Tree!TypeOK'
    BY <1>0, <1>1, <1>3 DEF Tree!TypeOK, Tree!Pc
  <1>5. KindInv' /\ Tree!OutsideIsKept' /\ Tree!WhiteIsKept'
    BY <1>0, <1>1 DEF KindInv, Tree!OutsideIsKept, Tree!WhiteIsKept
  <1>6. CallInv'
    BY <1>0, <1>1, <1>2, <1>3 DEF CallInv, Untouched, Made
  <1>7. FramesInv'
    BY <1>1, <1>2 DEF FramesInv
  <1>8. MakeInv' /\ VisitInv' /\ CompleteInv'
    BY <1>1, OtherKept DEF Tree!chosen, Tree!others
  <1>9. Tree!FailureHasCause' /\ Tree!LeaksOnlyInFailure'
    <2>1. kind["root"] = "none" => before["root"] = "none"
      BY <1>2 DEF Untouched, Made, Tree!Loc
    <2>. QED
      BY <1>0, <1>1, <1>3, <2>1 DEF Tree!FailureHasCause, Tree!LeaksOnlyInFailure
  <1>. QED
    BY <1>4, <1>5, <1>6, <1>7, <1>8, <1>9 DEF TreeInv

LEMMA UnlinkRootStep == ASSUME TreeInv, Tree!UnlinkRoot, UNCHANGED denied PROVE TreeInv'
  <1>0. Tree!TypeOK /\ KindInv /\ CallInv /\ Tree!OutsideIsKept /\ Tree!WhiteIsKept /\ Tree!LeaksOnlyInFailure
        /\ rpc = "run" /\ frames = <<>>
    BY DEF TreeInv, Tree!UnlinkRoot
  <1>1. UNCHANGED <<call, peer, whitePath, denied, before, frames, ppc, below, entries, visits, leaked, Tree!chosen, Tree!others>>
    BY DEF Tree!UnlinkRoot, Tree!chosen, Tree!others
  <1>2. kind["root"] = "file" /\ call.func = "files"
    BY <1>0 DEF CallInv
  <1>3. Tree!Put("root", "none") /\ rpc' = "true"
    BY <1>2 DEF Tree!UnlinkRoot
  <1>4. "root" \in Tree!Loc \ {"out"} /\ \A c \in Inner : Tree!ParentOf[c] = "root" => kind[c] = "none"
    BY <1>0, <1>2, Places DEF KindInv, Tree!Loc, Inner
  <1>5. /\ KindInv' /\ kind' \in [Tree!Loc -> Tree!Kind] /\ stays' = stays \ {"root"} /\ stays' \in SUBSET Tree!Loc
        /\ \A x \in Tree!Loc : kind'[x] = IF x = "root" THEN "none" ELSE kind[x]
    BY <1>0, <1>1, <1>3, <1>4, PutNone
  <1>6. Tree!TypeOK'
    BY <1>0, <1>1, <1>3, <1>5 DEF Tree!TypeOK, Tree!Pc
  <1>7. MakeInv' /\ VisitInv' /\ CompleteInv'
    BY <1>1, <1>5, OtherKept
  <1>8. CallInv'
    BY <1>0, <1>1, <1>3 DEF CallInv
  <1>9. FramesInv'
    BY <1>0, <1>1 DEF FramesInv
  <1>10. Tree!WhiteIsKept'
    BY <1>0, <1>1, <1>4, <1>5, WhiteKept
  <1>11. Tree!OutsideIsKept' /\ Tree!FailureHasCause' /\ Tree!LeaksOnlyInFailure'
    BY <1>0, <1>1, <1>3, <1>5 DEF Tree!OutsideIsKept, Tree!FailureHasCause, Tree!LeaksOnlyInFailure, Tree!Loc
  <1>. QED
    BY <1>5, <1>6, <1>7, <1>8, <1>9, <1>10, <1>11 DEF TreeInv

\* The entries of a directory, as a listing has them.
LEMMA ListingOf ==
    ASSUME Tree!TypeOK, NEW d \in Tree!Loc
    PROVE  /\ Tree!Listing(d) \subseteq Tree!Loc \X Tree!Kind
           /\ \A e \in Tree!Listing(d) : kind[e[1]] = e[2] /\ e[2] # "none" /\ e[1] \in DOMAIN Tree!ParentOf
                                         /\ Tree!ParentOf[e[1]] = d
           /\ \A l \in Tree!InDir(kind, d) : \E e \in Tree!Listing(d) : e[1] = l
  <1>1. \A l \in Tree!InDir(kind, d) : l \in Tree!Loc /\ kind[l] \in Tree!Kind /\ kind[l] # "none"
                                       /\ l \in DOMAIN Tree!ParentOf /\ Tree!ParentOf[l] = d
    BY Places DEF Tree!TypeOK, Tree!InDir, Tree!Loc
  <1>2. \A e \in Tree!Listing(d) : \E l \in Tree!InDir(kind, d) : e = <<l, kind[l]>>
    BY DEF Tree!Listing
  <1>3. ASSUME NEW l \in Tree!InDir(kind, d) PROVE \E e \in Tree!Listing(d) : e[1] = l
    <2>1. <<l, kind[l]>> \in Tree!Listing(d)
      BY DEF Tree!Listing
    <2>. QED
      BY <2>1
  <1>. QED
    BY <1>1, <1>2, <1>3

LEMMA OpenRootStep == ASSUME TreeInv, Tree!OpenRoot, UNCHANGED denied PROVE TreeInv'
  <1>0. Tree!TypeOK /\ KindInv /\ CallInv /\ Tree!OutsideIsKept /\ Tree!WhiteIsKept /\ Tree!LeaksOnlyInFailure /\ rpc = "open"
    BY DEF TreeInv, Tree!OpenRoot
  <1>1. UNCHANGED <<kind, call, peer, whitePath, denied, before, ppc, below, entries, visits, stays, leaked, Tree!chosen, Tree!others>>
    BY DEF Tree!OpenRoot, Tree!chosen, Tree!others
  <1>2. frames = <<>> /\ Untouched
    BY <1>0 DEF CallInv
  <1>3. KindInv' /\ Tree!OutsideIsKept' /\ Tree!WhiteIsKept' /\ MakeInv' /\ VisitInv' /\ CompleteInv'
    BY <1>0, <1>1, OtherKept DEF KindInv, Tree!OutsideIsKept, Tree!WhiteIsKept
  <1>4. PICK d \in {"root", "out"} : d = Tree!Resolve(kind, "root") /\ d \in Tree!Loc
    BY DEF Tree!Resolve, Tree!Loc
  <1>5. CASE kind[d] = "dir"
    <2>1. rpc' = "run" /\ frames' = <<[at |-> "root", left |-> Tree!Listing(d)]>>
      BY <1>4, <1>5 DEF Tree!OpenRoot
    <2>2. /\ Tree!Listing(d) \subseteq Tree!Loc \X Tree!Kind
          /\ \A e \in Tree!Listing(d) : kind[e[1]] = e[2] /\ e[2] # "none" /\ e[1] \in DOMAIN Tree!ParentOf
                                        /\ Tree!ParentOf[e[1]] = d
          /\ \A l \in Tree!InDir(kind, d) : \E e \in Tree!Listing(d) : e[1] = l
      BY <1>0, <1>4, ListingOf
    <2>3. PICK f \in [at : Tree!Loc, left : SUBSET (Tree!Loc \X Tree!Kind)] :
              f = [at |-> "root", left |-> Tree!Listing(d)] /\ f.at = "root" /\ f.left = Tree!Listing(d)
      <3>1. "root" \in Tree!Loc /\ Tree!Listing(d) \in SUBSET (Tree!Loc \X Tree!Kind)
        BY <2>2 DEF Tree!Loc
      <3>2. [at |-> "root", left |-> Tree!Listing(d)] \in [at : Tree!Loc, left : SUBSET (Tree!Loc \X Tree!Kind)]
        BY <3>1
      <3>. QED
        BY <3>2
    <2>4. frames' = <<f>> /\ frames' \in Seq([at : Tree!Loc, left : SUBSET (Tree!Loc \X Tree!Kind)]) /\ Len(frames') = 1
          /\ frames'[1] = f
      BY <2>1, <2>3
    <2>5. Tree!TypeOK'
      BY <1>0, <1>1, <2>1, <2>4 DEF Tree!TypeOK, Tree!Pc
    <2>6. FramesInv'
      <3>1. kind["root"] \in {"dir", "link"}
        BY <1>4, <1>5 DEF Tree!Resolve
      <3>2. \A l \in Tree!InDir(kind, d) : Accounted(1, l)'
        BY <2>2, <2>3, <2>4 DEF Accounted
      <3>3. FrameOf(1)'
        BY <1>1, <1>4, <2>2, <2>3, <2>4, <3>1, <3>2 DEF FrameOf, Tree!InDir, Tree!Resolve
      <3>4. \A i \in 1 .. 1 : i = 1
        OBVIOUS
      <3>. QED
        BY <2>4, <3>3, <3>4 DEF FramesInv
    <2>7. frames' # <<>>
      BY <2>4
    <2>8. CallInv'
      BY <1>0, <1>1, <2>1, <2>7 DEF CallInv
    <2>9. Tree!FailureHasCause' /\ Tree!LeaksOnlyInFailure'
      BY <1>0, <1>1, <2>1 DEF Tree!FailureHasCause, Tree!LeaksOnlyInFailure
    <2>. QED
      BY <1>3, <2>5, <2>6, <2>8, <2>9 DEF TreeInv
  \* Nothing there, or a file that the call is not for.
  <1>6. CASE kind[d] # "dir"
    <2>1. rpc' = "false" /\ UNCHANGED frames
      BY <1>4, <1>6 DEF Tree!OpenRoot
    <2>2. kind["root"] # "dir" /\ kind["root"] # "link"
      BY <1>0, <1>4, <1>6 DEF Tree!Resolve, KindInv
    <2>3. kind["root"] \in {"none", "file"} /\ before["root"] = kind["root"]
      BY <1>0, <1>2, <2>2 DEF Untouched, Made, Tree!TypeOK, Tree!Loc, Tree!Kind
    <2>4. call.func # "files"
      BY <1>0, <2>2 DEF CallInv
    <2>5. Tree!TypeOK' /\ CallInv' /\ FramesInv'
      BY <1>0, <1>1, <1>2, <2>1 DEF Tree!TypeOK, Tree!Pc, CallInv, FramesInv
    <2>6. Tree!FailureHasCause' /\ Tree!LeaksOnlyInFailure'
      BY <1>0, <1>1, <2>1, <2>3, <2>4 DEF Tree!FailureHasCause, Tree!LeaksOnlyInFailure
    <2>. QED
      BY <1>3, <2>5, <2>6 DEF TreeInv
  <1>. QED
    BY <1>5, <1>6

\* A record with one member fewer in a field.
LEMMA LessLeft ==
    ASSUME NEW A, NEW B, NEW f \in [at : A, left : SUBSET B], NEW e
    PROVE  /\ [f EXCEPT !.left = f.left \ {e}] \in [at : A, left : SUBSET B]
           /\ [f EXCEPT !.left = f.left \ {e}].at = f.at
           /\ [f EXCEPT !.left = f.left \ {e}].left = f.left \ {e}
  OBVIOUS

\* The last directory without one of its entries.
LEMMA PoppedFrames ==
    ASSUME Tree!TypeOK, frames # <<>>, NEW e \in Tree!Top.left
    PROVE  /\ Len(frames) \in 1 .. 3 /\ Tree!Top = frames[Len(frames)] /\ Tree!Path = frames[Len(frames)].at
           /\ Tree!Popped(e) \in Seq([at : Tree!Loc, left : SUBSET (Tree!Loc \X Tree!Kind)])
           /\ Len(Tree!Popped(e)) = Len(frames)
           /\ \A i \in 1 .. Len(frames) :
                 /\ Tree!Popped(e)[i].at = frames[i].at
                 /\ Tree!Popped(e)[i].left = IF i = Len(frames) THEN frames[i].left \ {e} ELSE frames[i].left
  <1>. DEFINE Frame == [at : Tree!Loc, left : SUBSET (Tree!Loc \X Tree!Kind)]
  <1>1. frames \in Seq(Frame)
    BY DEF Tree!TypeOK
  <1>2. PICK n \in 1 .. 3 : n = Len(frames) /\ DOMAIN frames = 1 .. n
    <2>1. Len(frames) \in 0 .. 3 /\ DOMAIN frames = 1 .. Len(frames)
      BY <1>1, FrameType, LenProperties
    <2>2. Len(frames) # 0
      BY <1>1, EmptySeq
    <2>. QED
      BY <2>1, <2>2
  <1>3. PICK f \in Frame : f = frames[n]
    <2>. HIDE DEF Frame
    <2>1. n \in 1 .. Len(frames)
      BY <1>2
    <2>. QED
      BY <1>1, <2>1, ElementOfSeq
  <1>4. PICK g \in Frame : g = [f EXCEPT !.left = f.left \ {e}] /\ g.at = f.at /\ g.left = f.left \ {e}
    <2>1. PICK A, B : Frame = [at : A, left : SUBSET B]
      OBVIOUS
    <2>. HIDE DEF Frame
    <2>2. f \in [at : A, left : SUBSET B]
      BY <2>1
    <2>3. /\ [f EXCEPT !.left = f.left \ {e}] \in Frame
          /\ [f EXCEPT !.left = f.left \ {e}].at = f.at
          /\ [f EXCEPT !.left = f.left \ {e}].left = f.left \ {e}
      BY <2>1, <2>2, LessLeft
    <2>. QED
      BY <2>3
  <1>5. Tree!Popped(e) = [frames EXCEPT ![n] = g]
    BY <1>2, <1>3, <1>4 DEF Tree!Popped
  <1>. HIDE DEF Frame
  <1>6. n \in 1 .. Len(frames)
    BY <1>2
  <1>7. /\ Tree!Popped(e) \in Seq(Frame) /\ Len(Tree!Popped(e)) = n
        /\ \A i \in 1 .. n : Tree!Popped(e)[i] = IF i = n THEN g ELSE frames[i]
    BY <1>1, <1>2, <1>5, <1>6, ExceptSeq
  <1>8. \A i \in 1 .. n : /\ Tree!Popped(e)[i].at = frames[i].at
                          /\ Tree!Popped(e)[i].left = IF i = n THEN frames[i].left \ {e} ELSE frames[i].left
    BY <1>3, <1>4, <1>7
  <1>. QED
    BY <1>2, <1>7, <1>8 DEF Tree!Top, Tree!Path, Frame

\* An entry that is still to come is at one place only.
LEMMA EntryFacts ==
    ASSUME TreeInv, frames # <<>>, NEW e \in Tree!Top.left
    PROVE  /\ Len(frames) \in 1 .. 2
           /\ e[1] \in Tree!Loc \ {"out", "root"} /\ kind[e[1]] = e[2] /\ e[2] # "none"
           /\ Tree!ParentOf[e[1]] = Tree!Resolve(kind, Tree!Path)
           /\ Len(frames) = 1 => e[1] \in {"dir", "leaf"} \/ (e[1] = "kept" /\ kind["root"] = "link")
           /\ Len(frames) = 2 => e[1] = "sub" /\ frames[2].at = "dir" /\ "dir" \notin call.white
           /\ \A f \in Tree!Top.left : f[1] = e[1] => f = e
           /\ \A i \in 1 .. Len(frames) :
                 /\ frames[i].at # e[1]
                 /\ i < Len(frames) => /\ Tree!ParentOf[e[1]] # Tree!Resolve(kind, frames[i].at)
                                       /\ \A f \in frames[i].left : f[1] # e[1]
  <1>1. Tree!TypeOK /\ KindInv /\ FramesInv /\ CallInv
    BY DEF TreeInv
  <1>2. PICK n \in 1 .. 3 : n = Len(frames) /\ Tree!Top = frames[n] /\ Tree!Path = frames[n].at
    BY <1>1, PoppedFrames
  <1>3. FrameOf(n) /\ FrameOf(1) /\ (n > 1 => FrameOf(2)) /\ n \in 1 .. Len(frames) /\ 1 \in 1 .. Len(frames)
    BY <1>1, <1>2 DEF FramesInv
  <1>4. /\ kind[e[1]] = e[2] /\ e[2] # "none"
        /\ e[1] \in DOMAIN Tree!ParentOf /\ Tree!ParentOf[e[1]] = Tree!Resolve(kind, Tree!Path)
    BY <1>2, <1>3 DEF FrameOf
  <1>5. frames[n].left \subseteq Tree!Loc \X Tree!Kind
    BY <1>1, <1>3, FrameType
  <1>6. \A f \in Tree!Top.left : f[1] = e[1] => f = e
    <2>1. \A f \in Tree!Top.left : f = <<f[1], kind[f[1]]>>
      BY <1>2, <1>3, <1>5 DEF FrameOf
    <2>. QED
      BY <2>1, Zenon
  <1>7. frames[1].at = "root" /\ kind["root"] \in {"dir", "link"}
        /\ (n > 1 => frames[2].at \in {"dir", "leaf"} \ call.white /\ kind[frames[2].at] = "dir")
        /\ (n = 3 => frames[3].at = "sub" /\ kind["sub"] = "dir")
    BY <1>2, <1>3 DEF FrameOf
  <1>8. n # 3
    BY <1>2, <1>4, <1>7, Places DEF Tree!Resolve
  <1>9. CASE n = 1
    <2>1. e[1] \in {"dir", "leaf"} \/ (e[1] = "kept" /\ kind["root"] = "link")
      BY <1>2, <1>4, <1>7, <1>9, Places DEF Tree!Resolve
    <2>2. \A i \in 1 .. 1 : i = 1 /\ ~(i < 1)
      OBVIOUS
    <2>. QED
      BY <1>2, <1>4, <1>6, <1>7, <1>9, <2>1, <2>2 DEF Tree!Loc
  <1>10. CASE n = 2
    <2>1. e[1] = "sub" /\ frames[2].at = "dir"
      BY <1>2, <1>4, <1>7, <1>10, Places DEF Tree!Resolve
    <2>2. \A f \in frames[1].left : f[1] # "sub"
      BY <1>3, <1>7, Places DEF FrameOf, Tree!Resolve
    <2>3. \A i \in 1 .. 2 : i = 1 \/ (i = 2 /\ ~(i < 2))
      OBVIOUS
    <2>4. Tree!Resolve(kind, "root") # "dir"
      BY DEF Tree!Resolve
    <2>. QED
      BY <1>2, <1>4, <1>6, <1>7, <1>10, <2>1, <2>2, <2>3, <2>4, Places DEF Tree!Loc
  <1>. QED
    BY <1>8, <1>9, <1>10

\* An entry is done with: what the frames say of the others holds on.
LEMMA PopKeeps ==
    ASSUME TreeInv, frames # <<>>, NEW e \in Tree!Top.left, NEW n \in Nat, n = Len(frames),
           UNCHANGED <<call, before, denied>>,
           Len(frames') >= Len(frames), Len(frames') \in Nat,
           \A i \in 1 .. Len(frames) : /\ frames'[i].at = Tree!Popped(e)[i].at
                                       /\ frames'[i].left = Tree!Popped(e)[i].left,
           Len(frames') > Len(frames) => frames'[Len(frames) + 1].at = e[1],
           \A l \in Tree!Loc \ {e[1]} : kind'[l] = kind[l] /\ (l \in stays' <=> l \in stays),
           kind'[e[1]] # "none" => Accounted(n, e[1])'
    PROVE  \A i \in 1 .. Len(frames) : FrameOf(i)'
  <1>. SUFFICES ASSUME NEW i \in 1 .. Len(frames) PROVE FrameOf(i)'
    OBVIOUS
  <1>1. Tree!TypeOK /\ KindInv /\ FramesInv /\ FrameOf(i)
    BY DEF TreeInv, FramesInv
  <1>2. n \in 1 .. 2 /\ n = Len(frames)
    BY EntryFacts
  <1>3. /\ Tree!Top = frames[n] /\ Tree!Path = frames[n].at
        /\ \A j \in 1 .. n : /\ frames'[j].at = frames[j].at
                             /\ frames'[j].left = IF j = n THEN frames[j].left \ {e} ELSE frames[j].left
    <2>1. /\ Tree!Top = frames[n] /\ Tree!Path = frames[n].at
          /\ \A j \in 1 .. n : /\ Tree!Popped(e)[j].at = frames[j].at
                               /\ Tree!Popped(e)[j].left = IF j = n THEN frames[j].left \ {e} ELSE frames[j].left
      BY <1>1, <1>2, PoppedFrames
    <2>2. \A j \in 1 .. n : /\ frames'[j].at = Tree!Popped(e)[j].at
                            /\ frames'[j].left = Tree!Popped(e)[j].left
      BY <1>2
    <2>. QED
      BY <2>1, <2>2, Zenon
  <1>4. /\ e[1] \in Tree!Loc \ {"out", "root"} /\ Tree!ParentOf[e[1]] = Tree!Resolve(kind, frames[n].at)
        /\ \A f \in frames[n].left : f[1] = e[1] => f = e
        /\ \A j \in 1 .. n : /\ frames[j].at # e[1]
                             /\ j < n => /\ Tree!ParentOf[e[1]] # Tree!Resolve(kind, frames[j].at)
                                         /\ \A f \in frames[j].left : f[1] # e[1]
    BY <1>2, <1>3, EntryFacts
  <1>5. frames[i].at \in Tree!Loc /\ frames[i].left \subseteq Tree!Loc \X Tree!Kind /\ "root" \in Tree!Loc
    BY <1>1, FrameType DEF Tree!Loc
  <1>6. i \in 1 .. n /\ frames'[i].at = frames[i].at /\ kind'[frames[i].at] = kind[frames[i].at]
        /\ kind'["root"] = kind["root"] /\ frames'[i].left \subseteq frames[i].left
    BY <1>2, <1>3, <1>4, <1>5
  <1>7. Tree!Resolve(kind, frames[i].at)' = Tree!Resolve(kind, frames[i].at)
    BY <1>6 DEF Tree!Resolve
  <1>8. /\ i = 1 => frames'[i].at = "root" /\ kind'["root"] \in {"dir", "link"}
        /\ i = 2 => frames'[i].at \in {"dir", "leaf"} \ call'.white
        /\ i = 3 => frames'[i].at = "sub" /\ frames'[2].at = "dir"
        /\ i > 1 => kind'[frames'[i].at] = "dir"
    BY <1>1, <1>2, <1>6 DEF FrameOf
  <1>9. ASSUME NEW f \in frames'[i].left
        PROVE  /\ kind'[f[1]] = f[2] /\ f[2] # "none"
               /\ f[1] \in DOMAIN Tree!ParentOf /\ Tree!ParentOf[f[1]] = Tree!Resolve(kind, frames[i].at)
               /\ i < Len(frames') => f[1] # frames'[i + 1].at
    <2>1. f \in frames[i].left /\ f[1] \in Tree!Loc /\ f[1] # e[1]
      <3>1. f \in frames[i].left /\ f[1] \in Tree!Loc
        BY <1>5, <1>6
      <3>2. CASE i < n
        BY <1>4, <1>6, <3>1, <3>2
      <3>3. CASE i = n
        BY <1>3, <1>4, <1>6, <3>1, <3>3
      <3>. QED
        BY <1>6, <3>1, <3>2, <3>3
    <2>2. /\ kind[f[1]] = f[2] /\ f[2] # "none"
          /\ f[1] \in DOMAIN Tree!ParentOf /\ Tree!ParentOf[f[1]] = Tree!Resolve(kind, frames[i].at)
          /\ i < n => f[1] # frames[i + 1].at
      BY <1>1, <1>2, <2>1 DEF FrameOf
    <2>3. i < Len(frames') => f[1] # frames'[i + 1].at
      <3>1. CASE i < n
        <4>1. i + 1 \in 1 .. n
          BY <1>6, <3>1
        <4>. QED
          BY <1>3, <2>2, <3>1, <4>1
      <3>2. CASE i = n
        BY <1>2, <2>1, <3>2
      <3>. QED
        BY <1>6, <3>1, <3>2
    <2>. QED
      BY <2>1, <2>2, <2>3
  <1>10. ASSUME NEW l \in Tree!InDir(kind, Tree!Resolve(kind, frames[i].at))' PROVE Accounted(i, l)'
    <2>1. l \in DOMAIN Tree!ParentOf /\ l \in Tree!Loc /\ Tree!ParentOf[l] = Tree!Resolve(kind, frames[i].at) /\ kind'[l] # "none"
      BY <1>7, <1>10, Places DEF Tree!InDir, Tree!Loc
    <2>2. CASE l = e[1]
      <3>1. i = n
        BY <1>2, <1>4, <1>6, <2>1, <2>2
      <3>. QED
        BY <1>2, <2>1, <2>2, <3>1
    <2>3. CASE l # e[1]
      <3>1. Accounted(i, l) /\ (Made(l) => Made(l)')
        BY <1>1, <2>1, <2>3 DEF FrameOf, Tree!InDir, Made
      <3>2. CASE \E f \in frames[i].left : f[1] = l
        BY <1>2, <1>3, <1>6, <2>3, <3>2 DEF Accounted
      <3>3. CASE i < n /\ frames[i + 1].at = l
        <4>1. i + 1 \in 1 .. n /\ i < Len(frames')
          BY <1>2, <1>6, <3>3
        <4>. QED
          BY <1>3, <3>3, <4>1 DEF Accounted
      <3>. QED
        BY <1>2, <3>1, <3>2, <3>3 DEF Accounted
    <2>. QED
      BY <2>2, <2>3
  <1>. QED
    BY <1>6, <1>7, <1>8, <1>9, <1>10 DEF FrameOf

LEMMA SkipStep == ASSUME TreeInv, Tree!SkipEntry, UNCHANGED denied PROVE TreeInv'
  <1>0. /\ Tree!TypeOK /\ KindInv /\ CallInv /\ Tree!OutsideIsKept /\ Tree!WhiteIsKept /\ Tree!LeaksOnlyInFailure
        /\ rpc = "run" /\ frames # <<>>
    BY DEF TreeInv, Tree!SkipEntry
  <1>1. UNCHANGED <<kind, call, rpc, peer, whitePath, denied, before, ppc, below, entries, visits, stays, leaked, Tree!chosen, Tree!others>>
    BY DEF Tree!SkipEntry, Tree!chosen, Tree!others
  <1>2. PICK e \in Tree!Top.left : Tree!Skips(e) /\ frames' = Tree!Popped(e)
    BY DEF Tree!SkipEntry
  <1>3. PICK n \in 1 .. 2 : n = Len(frames)
    BY <1>0, EntryFacts
  <1>4. Tree!Popped(e) \in Seq([at : Tree!Loc, left : SUBSET (Tree!Loc \X Tree!Kind)]) /\ Len(Tree!Popped(e)) = n
    BY <1>0, <1>3, PoppedFrames
  <1>5. frames' \in Seq([at : Tree!Loc, left : SUBSET (Tree!Loc \X Tree!Kind)]) /\ Len(frames') = n
    BY <1>2, <1>4, Zenon
  <1>6. Tree!TypeOK'
    <2>1. Len(frames') <= 3
      BY <1>3, <1>5
    <2>. QED
      BY <1>0, <1>1, <1>5, <2>1 DEF Tree!TypeOK
  <1>7. n = 1 /\ e[1] \in call.white /\ e[1] \in Tree!Loc /\ kind[e[1]] # "none"
    BY <1>0, <1>2, <1>3, EntryFacts DEF Tree!Skips
  <1>8. FramesInv'
    <2>0. PICK l \in Tree!Loc : l = e[1]
      BY <1>7
    <2>1. Accounted(1, l)'
      <3>1. before[l] # "none" \/ Made(l)
        BY <1>0, <1>7, <2>0 DEF KindInv, Made, Tree!Tree, Tree!TypeOK, Tree!Call
      <3>. QED
        BY <1>1, <1>7, <2>0, <3>1 DEF Accounted, Made
    <2>2. n \in Nat /\ Len(frames') >= Len(frames) /\ Len(frames') \in Nat /\ ~(Len(frames') > Len(frames))
      BY <1>3, <1>5
    <2>3. /\ \A i \in 1 .. Len(frames) : /\ frames'[i].at = Tree!Popped(e)[i].at
                                         /\ frames'[i].left = Tree!Popped(e)[i].left
          /\ \A x \in Tree!Loc \ {e[1]} : kind'[x] = kind[x] /\ (x \in stays' <=> x \in stays)
      BY <1>1, <1>2
    <2>4. kind'[e[1]] # "none" => Accounted(n, l)'
      BY <1>7, <2>1
    <2>5. \A i \in 1 .. Len(frames) : FrameOf(i)'
      BY <1>0, <1>1, <1>3, <2>0, <2>2, <2>3, <2>4, PopKeeps
    <2>. QED
      BY <1>3, <1>5, <2>5 DEF FramesInv
  <1>9. frames' # <<>>
    BY <1>3, <1>5
  <1>10. KindInv' /\ Tree!OutsideIsKept' /\ Tree!WhiteIsKept' /\ Tree!LeaksOnlyInFailure'
    BY <1>0, <1>1 DEF KindInv, Tree!OutsideIsKept, Tree!WhiteIsKept, Tree!LeaksOnlyInFailure
  <1>11. CallInv' /\ Tree!FailureHasCause'
    BY <1>0, <1>1, <1>9 DEF CallInv, Tree!FailureHasCause
  <1>12. MakeInv' /\ VisitInv' /\ CompleteInv'
    BY <1>1, OtherKept
  <1>. QED
    BY <1>6, <1>8, <1>10, <1>11, <1>12 DEF TreeInv

LEMMA DescendStep == ASSUME TreeInv, Tree!Descend, UNCHANGED denied PROVE TreeInv'
  <1>0. /\ Tree!TypeOK /\ KindInv /\ CallInv /\ Tree!OutsideIsKept /\ Tree!WhiteIsKept /\ Tree!LeaksOnlyInFailure
        /\ rpc = "run" /\ frames # <<>>
    BY DEF TreeInv, Tree!Descend
  <1>1. UNCHANGED <<kind, call, peer, whitePath, denied, before, ppc, below, entries, visits, stays, Tree!chosen, Tree!others>>
    BY DEF Tree!Descend, Tree!chosen, Tree!others
  <1>2. PICK e \in Tree!Top.left :
          LET d == Tree!Resolve(kind, e[1])
          IN  /\ ~Tree!Skips(e) /\ Tree!IsDirEntry(e)
              /\ IF kind[d] = "dir"
                 THEN /\ frames' = Append(Tree!Popped(e), [at |-> e[1], left |-> Tree!Listing(d)])
                      /\ UNCHANGED <<rpc, leaked>>
                 ELSE Tree!Unwind
    BY DEF Tree!Descend
  <1>3. PICK n \in 1 .. 2 : n = Len(frames)
    BY <1>0, EntryFacts
  \* The entry is still the directory that it was, as only this thread takes any away.
  <1>4. PICK l \in Tree!Loc : l = e[1] /\ l \notin {"out", "root"} /\ kind[l] = "dir" /\ l # "kept"
    BY <1>0, <1>2, EntryFacts DEF Tree!IsDirEntry, KindInv
  <1>5. Tree!Resolve(kind, l) = l
    BY <1>4 DEF Tree!Resolve
  <1>6. frames' = Append(Tree!Popped(e), [at |-> l, left |-> Tree!Listing(l)]) /\ UNCHANGED <<rpc, leaked>>
    BY <1>2, <1>4, <1>5
  <1>7. /\ Tree!Listing(l) \subseteq Tree!Loc \X Tree!Kind
        /\ \A f \in Tree!Listing(l) : kind[f[1]] = f[2] /\ f[2] # "none" /\ f[1] \in DOMAIN Tree!ParentOf
                                      /\ Tree!ParentOf[f[1]] = l
        /\ \A c \in Tree!InDir(kind, l) : \E f \in Tree!Listing(l) : f[1] = c
    BY <1>0, ListingOf
  <1>. DEFINE Frame == [at : Tree!Loc, left : SUBSET (Tree!Loc \X Tree!Kind)]
  <1>8. PICK g \in Frame : g = [at |-> l, left |-> Tree!Listing(l)] /\ g.at = l /\ g.left = Tree!Listing(l)
    <2>1. [at |-> l, left |-> Tree!Listing(l)] \in Frame
      BY <1>7
    <2>. QED
      BY <2>1
  <1>9. Tree!Popped(e) \in Seq(Frame) /\ Len(Tree!Popped(e)) = n
    BY <1>0, <1>3, PoppedFrames
  <1>. HIDE DEF Frame
  <1>10. /\ frames' \in Seq(Frame) /\ Len(frames') = n + 1 /\ frames'[n + 1] = g
         /\ \A i \in 1 .. n : frames'[i] = Tree!Popped(e)[i]
    BY <1>6, <1>8, <1>9, AppendProperties
  <1>11. Tree!TypeOK'
    <2>1. Len(frames') <= 3
      BY <1>3, <1>10
    <2>. QED
      BY <1>0, <1>1, <1>6, <1>10, <2>1 DEF Tree!TypeOK, Frame
  <1>12. \A i \in 1 .. n : FrameOf(i)'
    <2>1. n \in Nat /\ n + 1 >= n /\ n + 1 \in Nat /\ n + 1 > n
      BY <1>3
    <2>2. Accounted(n, l)'
      BY <1>8, <1>10, <2>1 DEF Accounted
    <2>3. /\ Len(frames') >= Len(frames) /\ Len(frames') \in Nat
          /\ frames'[Len(frames) + 1].at = e[1]
          /\ \A i \in 1 .. Len(frames) : /\ frames'[i].at = Tree!Popped(e)[i].at
                                         /\ frames'[i].left = Tree!Popped(e)[i].left
          /\ \A x \in Tree!Loc \ {e[1]} : kind'[x] = kind[x] /\ (x \in stays' <=> x \in stays)
      BY <1>1, <1>3, <1>4, <1>8, <1>10, <2>1
    <2>. QED
      BY <1>0, <1>1, <1>3, <1>4, <2>1, <2>2, <2>3, PopKeeps
  <1>13. FrameOf(n + 1)'
    <2>1. n = 1 => l \in {"dir", "leaf"} \ call.white
      BY <1>0, <1>2, <1>3, <1>4, EntryFacts DEF Tree!Skips
    <2>2. n = 2 => l = "sub" /\ frames'[2].at = "dir"
      <3>1. ASSUME n = 2 PROVE frames'[2].at = frames[2].at
        BY <1>0, <1>3, <1>10, <3>1, PoppedFrames
      <3>. QED
        BY <1>0, <1>3, <1>4, <3>1, EntryFacts
    <2>3. n + 1 \in {2, 3} /\ n + 1 > 1 /\ (n + 1 = 2 <=> n = 1) /\ (n + 1 = 3 <=> n = 2) /\ ~(n + 1 < n + 1)
          /\ n + 1 # 1
      <3>1. n = 1 \/ n = 2
        BY <1>3
      <3>. QED
        BY <3>1
    <2>4. \A c \in Tree!InDir(kind, l) : Accounted(n + 1, c)'
      BY <1>7, <1>8, <1>10 DEF Accounted
    <2>5. /\ frames'[n + 1].at = l /\ frames'[n + 1].left = Tree!Listing(l)
          /\ Tree!Resolve(kind, l)' = l /\ Tree!InDir(kind, l)' = Tree!InDir(kind, l)
      BY <1>1, <1>5, <1>8, <1>10 DEF Tree!Resolve, Tree!InDir
    <2>6. /\ n + 1 = 1 => frames'[n + 1].at = "root" /\ kind'["root"] \in {"dir", "link"}
          /\ n + 1 = 2 => frames'[n + 1].at \in {"dir", "leaf"} \ call'.white
          /\ n + 1 = 3 => frames'[n + 1].at = "sub" /\ frames'[2].at = "dir"
          /\ kind'[frames'[n + 1].at] = "dir"
      BY <1>1, <1>4, <2>1, <2>2, <2>3, <2>5
    <2>7. \A f \in Tree!Listing(l) : /\ kind'[f[1]] = f[2] /\ f[2] # "none"
                                     /\ f[1] \in DOMAIN Tree!ParentOf /\ Tree!ParentOf[f[1]] = l
      BY <1>1, <1>7
    <2>8. ~(n + 1 < Len(frames'))
      BY <1>10, <2>3
    <2>. QED
      BY <1>1, <1>5, <2>4, <2>5, <2>6, <2>7, <2>8 DEF FrameOf, Tree!InDir, Tree!Resolve
  <1>14. FramesInv'
    <2>1. \A i \in 1 .. n + 1 : i \in 1 .. n \/ i = n + 1
      BY <1>3
    <2>. QED
      BY <1>10, <1>12, <1>13, <2>1 DEF FramesInv
  <1>15. frames' # <<>>
    <2>1. n + 1 # 0 /\ Len(<<>>) = 0
      BY <1>3
    <2>. QED
      BY <1>10, <2>1
  <1>16. KindInv' /\ Tree!OutsideIsKept' /\ Tree!WhiteIsKept' /\ Tree!LeaksOnlyInFailure'
    BY <1>0, <1>1, <1>6 DEF KindInv, Tree!OutsideIsKept, Tree!WhiteIsKept, Tree!LeaksOnlyInFailure
  <1>17. CallInv' /\ Tree!FailureHasCause'
    BY <1>0, <1>1, <1>6, <1>15 DEF CallInv, Tree!FailureHasCause
  <1>18. MakeInv' /\ VisitInv' /\ CompleteInv'
    BY <1>1, OtherKept
  <1>. QED
    BY <1>11, <1>14, <1>16, <1>17, <1>18 DEF TreeInv

LEMMA UnlinkStep == ASSUME TreeInv, Tree!UnlinkEntry, UNCHANGED denied PROVE TreeInv'
  <1>0. /\ Tree!TypeOK /\ KindInv /\ CallInv /\ Tree!OutsideIsKept /\ Tree!WhiteIsKept /\ Tree!LeaksOnlyInFailure
        /\ rpc = "run" /\ frames # <<>>
    BY DEF TreeInv, Tree!UnlinkEntry
  <1>1. UNCHANGED <<call, peer, whitePath, denied, before, ppc, below, entries, visits, Tree!chosen, Tree!others>>
    BY DEF Tree!UnlinkEntry, Tree!chosen, Tree!others
  <1>2. PICK e \in Tree!Top.left :
          /\ ~Tree!Skips(e) /\ ~Tree!IsDirEntry(e)
          /\ IF kind[e[1]] \in {"file", "link"}
             THEN /\ Tree!Put(e[1], "none")
                  /\ frames' = Tree!Popped(e)
                  /\ UNCHANGED <<rpc, leaked>>
             ELSE Tree!Unwind /\ UNCHANGED <<kind, stays>>
    BY DEF Tree!UnlinkEntry
  <1>3. PICK n \in 1 .. 2 : n = Len(frames)
    BY <1>0, EntryFacts
  \* The entry is still what it was, as only this thread takes any away.
  <1>4. PICK l \in Tree!Loc \ {"out"} : l = e[1] /\ l # "root" /\ kind[l] \in {"file", "link"}
    <2>1. e[1] \in Tree!Loc \ {"out", "root"} /\ kind[e[1]] \notin {"none", "dir"}
      BY <1>0, <1>2, EntryFacts DEF Tree!IsDirEntry
    <2>2. kind[e[1]] \in Tree!Kind
      BY <1>0, <2>1 DEF Tree!TypeOK
    <2>. QED
      BY <2>1, <2>2 DEF Tree!Kind
  <1>5. \/ l \in {"dir", "leaf"} \/ (l = "kept" /\ kind["root"] = "link")
        \/ n = 2 /\ l = "sub" /\ "dir" \notin call.white
    <2>1. n = 1 \/ n = 2
      BY <1>3
    <2>2. CASE n = 1
      BY <1>0, <1>3, <1>4, <2>2, EntryFacts
    <2>3. CASE n = 2
      BY <1>0, <1>3, <1>4, <2>3, EntryFacts
    <2>. QED
      BY <2>1, <2>2, <2>3
  <1>6. Tree!Put(l, "none") /\ frames' = Tree!Popped(e) /\ UNCHANGED <<rpc, leaked>>
    BY <1>2, <1>4
  <1>7. /\ KindInv' /\ kind' \in [Tree!Loc -> Tree!Kind] /\ stays' = stays \ {l} /\ stays' \in SUBSET Tree!Loc
        /\ \A x \in Tree!Loc : kind'[x] = IF x = l THEN "none" ELSE kind[x]
    <2>1. \A c \in Inner : Tree!ParentOf[c] = l => kind[c] = "none"
      BY <1>0, <1>4 DEF KindInv, Inner
    <2>. QED
      BY <1>0, <1>1, <1>6, <2>1, PutNone
  <1>8. Tree!Popped(e) \in Seq([at : Tree!Loc, left : SUBSET (Tree!Loc \X Tree!Kind)]) /\ Len(Tree!Popped(e)) = n
    BY <1>0, <1>3, PoppedFrames
  <1>9. frames' \in Seq([at : Tree!Loc, left : SUBSET (Tree!Loc \X Tree!Kind)]) /\ Len(frames') = n
    BY <1>6, <1>8, Zenon
  <1>10. Tree!TypeOK'
    <2>1. Len(frames') <= 3
      <3>1. n = 1 \/ n = 2
        BY <1>3
      <3>. QED
        BY <1>9, <3>1
    <2>. QED
      BY <1>0, <1>1, <1>6, <1>7, <1>9, <2>1 DEF Tree!TypeOK
  <1>11. FramesInv'
    <2>1. n \in Nat /\ Len(frames') >= Len(frames) /\ Len(frames') \in Nat /\ ~(Len(frames') > Len(frames))
      BY <1>3, <1>9
    <2>2. /\ \A i \in 1 .. Len(frames) : /\ frames'[i].at = Tree!Popped(e)[i].at
                                         /\ frames'[i].left = Tree!Popped(e)[i].left
          /\ \A x \in Tree!Loc \ {e[1]} : kind'[x] = kind[x] /\ (x \in stays' <=> x \in stays)
          /\ kind'[e[1]] = "none"
      BY <1>4, <1>6, <1>7
    <2>3. \A i \in 1 .. Len(frames) : FrameOf(i)'
      BY <1>0, <1>1, <1>3, <2>1, <2>2, PopKeeps
    <2>. QED
      BY <1>3, <1>9, <2>3 DEF FramesInv
  <1>12. frames' # <<>>
    BY <1>3, <1>9
  <1>13. Tree!OutsideIsKept'
    <2>1. l = "kept" => before["root"] = "link"
      <3>1. l = "kept" => kind["root"] = "link"
        BY <1>4, <1>5
      <3>. QED
        BY <1>0, <3>1, LinksAreOld DEF Tree!Loc
    <2>. QED
      BY <1>0, <1>1, <1>7, <2>1 DEF Tree!OutsideIsKept, Tree!Loc
  <1>14. Tree!WhiteIsKept'
    <2>1. l \in {"dir", "leaf"} => l \notin call.white
      <3>1. l \in {"dir", "leaf"} => n = 1
        BY <1>0, <1>3, <1>4, EntryFacts
      <3>. QED
        BY <1>2, <1>3, <1>4, <3>1 DEF Tree!Skips
    <2>2. l = "sub" => "dir" \notin call.white
      BY <1>5
    <2>. QED
      BY <1>0, <1>1, <1>7, <2>1, <2>2, WhiteKept
  <1>15. CallInv' /\ Tree!FailureHasCause' /\ Tree!LeaksOnlyInFailure'
    BY <1>0, <1>1, <1>6, <1>12 DEF CallInv, Tree!FailureHasCause, Tree!LeaksOnlyInFailure
  <1>16. MakeInv' /\ VisitInv' /\ CompleteInv'
    BY <1>1, <1>7, OtherKept
  <1>. QED
    BY <1>7, <1>10, <1>11, <1>13, <1>14, <1>15, <1>16 DEF TreeInv

\* The directories whose removal is under way.
LEMMA LastFrame ==
    ASSUME TreeInv, frames # <<>>
    PROVE  /\ Len(frames) \in 1 .. 3 /\ Tree!Top = frames[Len(frames)] /\ Tree!Path = frames[Len(frames)].at
           /\ Tree!Path \in Tree!Tree /\ Tree!Path # "out"
           /\ Len(frames) = 1 => Tree!Path = "root" /\ kind["root"] \in {"dir", "link"}
           /\ Len(frames) = 2 => Tree!Path \in {"dir", "leaf"} \ call.white
           /\ Len(frames) = 3 => Tree!Path = "sub" /\ frames[2].at = "dir" /\ "dir" \notin call.white
           /\ Len(frames) > 1 => kind[Tree!Path] = "dir"
           /\ FrameOf(Len(frames))
           /\ Tree!Outer \in Seq([at : Tree!Loc, left : SUBSET (Tree!Loc \X Tree!Kind)])
           /\ Len(Tree!Outer) = Len(frames) - 1
           /\ \A i \in 1 .. Len(frames) - 1 : Tree!Outer[i] = frames[i]
  <1>. DEFINE Frame == [at : Tree!Loc, left : SUBSET (Tree!Loc \X Tree!Kind)]
  <1>0. Tree!TypeOK /\ FramesInv /\ frames \in Seq(Frame)
    BY DEF TreeInv, Tree!TypeOK
  <1>1. PICK n \in 1 .. 3 : n = Len(frames)
    <2>1. Len(frames) \in 0 .. 3 /\ Len(frames) # 0
      BY <1>0, FrameType, EmptySeq
    <2>. QED
      BY <2>1
  <1>2. Tree!Top = frames[n] /\ Tree!Path = frames[n].at
    BY <1>1 DEF Tree!Top, Tree!Path
  <1>3. FrameOf(n) /\ (n = 3 => FrameOf(2))
    BY <1>0, <1>1 DEF FramesInv
  <1>4. /\ n = 1 => Tree!Path = "root" /\ kind["root"] \in {"dir", "link"}
        /\ n = 2 => Tree!Path \in {"dir", "leaf"} \ call.white
        /\ n = 3 => Tree!Path = "sub" /\ frames[2].at = "dir" /\ "dir" \notin call.white
        /\ n > 1 => kind[Tree!Path] = "dir"
    BY <1>2, <1>3 DEF FrameOf
  <1>. HIDE DEF Frame
  <1>5. Tree!Outer = SubSeq(frames, 1, n - 1) /\ n - 1 \in Nat /\ n - 1 <= n
    BY <1>1 DEF Tree!Outer
  <1>6. Tree!Outer \in Seq(Frame) /\ Len(Tree!Outer) = n - 1 /\ \A i \in 1 .. n - 1 : Tree!Outer[i] = frames[i]
    BY <1>0, <1>1, <1>5
  <1>7. Tree!Path \in Tree!Tree /\ Tree!Path # "out"
    BY <1>1, <1>4 DEF Tree!Tree
  <1>. QED
    BY <1>1, <1>2, <1>3, <1>4, <1>6, <1>7 DEF Frame

LEMMA RemoveDirStep == ASSUME TreeInv, Tree!RemoveDir, UNCHANGED denied PROVE TreeInv'
  <1>0. /\ Tree!TypeOK /\ KindInv /\ CallInv /\ FramesInv /\ Tree!OutsideIsKept /\ Tree!WhiteIsKept /\ Tree!LeaksOnlyInFailure
        /\ rpc = "run" /\ frames # <<>> /\ Tree!Top.left = {}
    BY DEF TreeInv, Tree!RemoveDir
  <1>1. UNCHANGED <<call, peer, whitePath, denied, before, ppc, below, entries, visits, Tree!chosen, Tree!others>>
    BY DEF Tree!RemoveDir, Tree!chosen, Tree!others
  <1>2. PICK n \in 1 .. 3 : n = Len(frames)
    BY <1>0, LastFrame
  <1>3. PICK l \in Tree!Loc \ {"out"} : l = Tree!Path /\ l = frames[n].at /\ l \in Tree!Tree
    BY <1>0, <1>2, LastFrame DEF Tree!Tree, Tree!Loc
  <1>4. /\ n = 1 => l = "root" /\ kind["root"] \in {"dir", "link"}
        /\ n = 2 => l \in {"dir", "leaf"} \ call.white
        /\ n = 3 => l = "sub" /\ frames[2].at = "dir" /\ "dir" \notin call.white
        /\ n > 1 => kind[l] = "dir"
        /\ FrameOf(n) /\ frames[n].left = {} /\ (Tree!Last <=> n = 1)
    BY <1>0, <1>2, <1>3, LastFrame DEF Tree!Last
  <1>5. /\ Tree!Outer \in Seq([at : Tree!Loc, left : SUBSET (Tree!Loc \X Tree!Kind)])
        /\ Len(Tree!Outer) = n - 1 /\ n - 1 \in Nat /\ n - 1 <= 3
        /\ \A i \in 1 .. n - 1 : Tree!Outer[i] = frames[i]
    BY <1>0, <1>2, LastFrame
  <1>6. CASE Tree!Last /\ ~call.deleteRoot
    <2>1. rpc' = "true" /\ frames' = <<>> /\ UNCHANGED <<kind, stays, leaked>>
      BY <1>6 DEF Tree!RemoveDir
    <2>2. Tree!TypeOK'
      BY <1>0, <1>1, <2>1 DEF Tree!TypeOK, Tree!Pc
    <2>3. KindInv' /\ CallInv' /\ FramesInv' /\ Tree!OutsideIsKept' /\ Tree!WhiteIsKept'
      BY <1>0, <1>1, <2>1 DEF KindInv, CallInv, FramesInv, Tree!OutsideIsKept, Tree!WhiteIsKept
    <2>4. Tree!FailureHasCause' /\ Tree!LeaksOnlyInFailure'
      BY <1>0, <1>1, <2>1 DEF Tree!FailureHasCause, Tree!LeaksOnlyInFailure
    <2>5. MakeInv' /\ VisitInv' /\ CompleteInv'
      BY <1>1, <2>1, OtherKept
    <2>. QED
      BY <2>2, <2>3, <2>4, <2>5 DEF TreeInv
  <1>7. CASE ~(Tree!Last /\ ~call.deleteRoot) /\ Tree!Removable(Tree!Path)
    <2>1. Tree!Put(l, "none") /\ frames' = Tree!Outer /\ rpc' = (IF Tree!Last THEN "true" ELSE rpc) /\ UNCHANGED leaked
      BY <1>3, <1>7 DEF Tree!RemoveDir
    <2>2. kind[l] = "dir" /\ \A c \in Inner : Tree!ParentOf[c] = l => kind[c] = "none"
      BY <1>3, <1>7, Places DEF Tree!Removable, Tree!InDir, Inner
    <2>3. /\ KindInv' /\ kind' \in [Tree!Loc -> Tree!Kind] /\ stays' = stays \ {l} /\ stays' \in SUBSET Tree!Loc
          /\ \A x \in Tree!Loc : kind'[x] = IF x = l THEN "none" ELSE kind[x]
      BY <1>0, <1>1, <2>1, <2>2, PutNone
    <2>4. Tree!TypeOK'
      <3>1. frames' \in Seq([at : Tree!Loc, left : SUBSET (Tree!Loc \X Tree!Kind)]) /\ Len(frames') <= 3
        BY <1>5, <2>1
      <3>. QED
        BY <1>0, <1>1, <2>1, <2>3, <3>1 DEF Tree!TypeOK, Tree!Pc
    <2>5. CallInv'
      <3>1. CASE Tree!Last
        BY <1>0, <1>1, <1>4, <1>5, <2>1, <3>1, EmptySeq DEF CallInv
      <3>2. CASE ~Tree!Last
        <4>1. n - 1 # 0 /\ Len(<<>>) = 0
          BY <1>2, <1>4, <3>2
        <4>2. frames' # <<>>
          BY <1>5, <2>1, <4>1
        <4>. QED
          BY <1>0, <1>1, <2>1, <3>2, <4>2 DEF CallInv
      <3>. QED
        BY <3>1, <3>2
    <2>6. FramesInv'
      <3>1. SUFFICES ASSUME NEW i \in 1 .. n - 1 PROVE FrameOf(i)'
        BY <1>5, <2>1 DEF FramesInv
      <3>2. /\ i \in 1 .. n /\ i \in 1 .. Len(frames) /\ i < n /\ i + 1 \in 1 .. n
            /\ (i + 1 = n \/ (i + 1 < n /\ i = 1 /\ n = 3)) /\ i \in {1, 2} /\ n \in {2, 3} /\ (i = 2 => n = 3)
        <4>1. n = 1 \/ n = 2 \/ n = 3
          BY <1>2
        <4>2. i \in 1 .. n - 1 /\ (i = 1 \/ i = 2)
          BY <1>2, <3>1
        <4>3. (n = 2 /\ i = 1) \/ (n = 3 /\ i = 1) \/ (n = 3 /\ i = 2)
          BY <4>1, <4>2
        <4>4. CASE n = 2 /\ i = 1
          BY <1>2, <4>4
        <4>5. CASE n = 3 /\ i = 1
          BY <1>2, <4>5
        <4>6. CASE n = 3 /\ i = 2
          BY <1>2, <4>6
        <4>. QED
          BY <4>3, <4>4, <4>5, <4>6
      <3>3. FrameOf(i) /\ frames[i].at \in Tree!Loc /\ frames[i].left \subseteq Tree!Loc \X Tree!Kind
            /\ frames[1].at = "root" /\ kind["root"] \in {"dir", "link"}
        <4>1. FrameOf(1)
          BY <1>0, <1>2, <3>2 DEF FramesInv
        <4>. QED
          BY <1>0, <3>2, <4>1, FrameType DEF FramesInv, FrameOf
      <3>4. frames'[i] = frames[i] /\ Len(frames') = n - 1 /\ (i + 1 < n => frames'[i + 1] = frames[i + 1])
            /\ (i < n - 1 <=> i + 1 < n)
        <4>1. i + 1 < n => i + 1 \in 1 .. n - 1
          BY <3>1, <3>2
        <4>2. i < n - 1 <=> i + 1 < n
          BY <1>2, <3>1
        <4>. QED
          BY <1>5, <2>1, <3>1, <4>1, <4>2
      \* What lies in the directories above is not what is taken away, but for the last.
      <3>5. frames[i].at # l /\ (i + 1 < n => /\ Tree!ParentOf[l] # Tree!Resolve(kind, frames[i].at)
                                              /\ frames[i + 1].at # l)
        <4>1. i = 1 => frames[i].at = "root" /\ l # "root"
          BY <1>4, <3>2, <3>3
        <4>2. i = 2 => frames[i].at = "dir" /\ l = "sub"
          BY <1>4, <3>2
        <4>3. i + 1 < n => i = 1 /\ i + 1 = 2 /\ l = "sub" /\ frames[2].at = "dir"
          BY <1>4, <3>2
        <4>. QED
          BY <3>2, <4>1, <4>2, <4>3, Places DEF Tree!Resolve
      <3>6. kind'[frames[i].at] = kind[frames[i].at] /\ kind'["root"] = kind["root"]
            /\ Tree!Resolve(kind, frames[i].at)' = Tree!Resolve(kind, frames[i].at)
        <4>1. l # "root" /\ "root" \in Tree!Loc
          BY <1>4, <3>2 DEF Tree!Loc
        <4>2. kind'[frames[i].at] = kind[frames[i].at] /\ kind'["root"] = kind["root"]
          BY <2>3, <3>3, <3>5, <4>1
        <4>. QED
          BY <3>4, <4>2 DEF Tree!Resolve
      <3>7. ASSUME NEW e \in frames[i].left
            PROVE  /\ kind'[e[1]] = e[2] /\ e[2] # "none"
                   /\ e[1] \in DOMAIN Tree!ParentOf /\ Tree!ParentOf[e[1]] = Tree!Resolve(kind, frames[i].at)
                   /\ i + 1 < n => e[1] # frames[i + 1].at
        <4>1. /\ kind[e[1]] = e[2] /\ e[2] # "none" /\ e[1] \in Tree!Loc
              /\ e[1] \in DOMAIN Tree!ParentOf /\ Tree!ParentOf[e[1]] = Tree!Resolve(kind, frames[i].at)
              /\ e[1] # frames[i + 1].at
          BY <1>2, <3>2, <3>3 DEF FrameOf
        <4>2. e[1] # l
          BY <1>3, <3>2, <3>5, <4>1
        <4>. QED
          BY <2>3, <4>1, <4>2
      <3>8. ASSUME NEW c \in Tree!InDir(kind, Tree!Resolve(kind, frames[i].at))' PROVE Accounted(i, c)'
        <4>1. c \in DOMAIN Tree!ParentOf /\ c \in Tree!Loc /\ Tree!ParentOf[c] = Tree!Resolve(kind, frames[i].at) /\ kind'[c] # "none"
          BY <3>4, <3>6, <3>8, Places DEF Tree!InDir, Tree!Loc
        <4>2. c # l /\ kind'[c] = kind[c]
          BY <2>3, <4>1
        <4>3. Accounted(i, c) /\ (Made(c) => Made(c)')
          BY <2>3, <3>3, <4>1, <4>2 DEF FrameOf, Tree!InDir, Made
        <4>4. CASE i < Len(frames) /\ frames[i + 1].at = c
          BY <1>3, <3>2, <3>4, <4>2, <4>4 DEF Accounted
        <4>. QED
          BY <1>1, <3>4, <4>3, <4>4 DEF Accounted
      <3>9. /\ i = 1 => frames'[i].at = "root" /\ kind'["root"] \in {"dir", "link"}
            /\ i = 2 => frames'[i].at \in {"dir", "leaf"} \ call'.white
            /\ i = 3 => frames'[i].at = "sub" /\ frames'[2].at = "dir"
            /\ i > 1 => kind'[frames'[i].at] = "dir"
        BY <1>1, <3>2, <3>3, <3>4, <3>6 DEF FrameOf
      <3>. QED
        BY <3>4, <3>6, <3>7, <3>8, <3>9 DEF FrameOf
    <2>7. Tree!WhiteIsKept'
      <3>1. l \in {"dir", "leaf"} => l \notin call.white
        BY <1>2, <1>4
      <3>2. l = "sub" => "dir" \notin call.white
        BY <1>2, <1>4
      <3>. QED
        BY <1>0, <1>1, <2>3, <3>1, <3>2, WhiteKept
    <2>8. Tree!OutsideIsKept' /\ Tree!FailureHasCause' /\ Tree!LeaksOnlyInFailure'
      BY <1>0, <1>1, <1>3, <2>1, <2>3 DEF Tree!OutsideIsKept, Tree!FailureHasCause, Tree!LeaksOnlyInFailure, Tree!Tree, Tree!Loc
    <2>9. MakeInv' /\ VisitInv' /\ CompleteInv'
      BY <1>1, <2>3, OtherKept
    <2>. QED
      BY <2>3, <2>4, <2>5, <2>6, <2>7, <2>8, <2>9 DEF TreeInv
  <1>8. CASE ~(Tree!Last /\ ~call.deleteRoot) /\ ~Tree!Removable(Tree!Path)
    <2>1. rpc' = "false" /\ frames' = <<>> /\ leaked' = leaked + Len(Tree!Outer) /\ UNCHANGED <<kind, stays>>
      BY <1>8 DEF Tree!RemoveDir
    <2>2. Tree!TypeOK'
      BY <1>0, <1>1, <1>5, <2>1 DEF Tree!TypeOK, Tree!Pc
    <2>3. KindInv' /\ CallInv' /\ FramesInv' /\ Tree!OutsideIsKept' /\ Tree!WhiteIsKept'
      BY <1>0, <1>1, <2>1 DEF KindInv, CallInv, FramesInv, Tree!OutsideIsKept, Tree!WhiteIsKept
    <2>4. Tree!FailureHasCause'
      <3>1. CASE kind[l] # "dir"
        <4>1. kind["root"] = "link" /\ "root" \in Tree!Loc
          BY <1>2, <1>4, <3>1 DEF Tree!Loc
        <4>2. before["root"] = "link"
          BY <1>0, <4>1, LinksAreOld
        <4>. QED
          BY <1>1, <4>2 DEF Tree!FailureHasCause
      <3>2. CASE kind[l] = "dir"
        <4>1. PICK c : c \in Tree!InDir(kind, l)
          BY <1>3, <1>8, <3>2 DEF Tree!Removable
        <4>2. Tree!Resolve(kind, frames[n].at) = l
          BY <1>3, <3>2 DEF Tree!Resolve
        <4>3. Accounted(n, c) /\ Tree!ParentOf[c] = l
          BY <1>4, <4>1, <4>2 DEF FrameOf, Tree!InDir
        <4>4. (n = 1 /\ c \in call.white /\ before[c] # "none") \/ Made(c) \/ "remover" \in denied
          BY <1>2, <1>4, <4>3 DEF Accounted
        <4>5. CASE Made(c)
          BY <1>1, <2>1, <4>5 DEF Made, Tree!FailureHasCause
        <4>6. CASE n = 1 /\ c \in call.white /\ before[c] # "none"
          BY <1>1, <1>4, <1>8, <4>3, <4>6 DEF Tree!FailureHasCause
        <4>7. CASE "remover" \in denied
          BY <4>7 DEF Tree!FailureHasCause
        <4>. QED
          BY <4>4, <4>5, <4>6, <4>7
      <3>. QED
        BY <3>1, <3>2
    <2>5. Tree!LeaksOnlyInFailure'
      BY <2>1 DEF Tree!LeaksOnlyInFailure
    <2>6. MakeInv' /\ VisitInv' /\ CompleteInv'
      BY <1>1, <2>1, OtherKept
    <2>. QED
      BY <2>2, <2>3, <2>4, <2>5, <2>6 DEF TreeInv
  <1>. QED
    BY <1>6, <1>7, <1>8

\* A system call fails: nothing is taken away, and the call returns false.
LEMMA DeniedStep == ASSUME TreeInv, Tree!RemoverDenied PROVE TreeInv'
  <1>0. /\ Tree!TypeOK /\ KindInv /\ CallInv /\ Tree!OutsideIsKept /\ Tree!WhiteIsKept
        /\ denied' = denied \cup {"remover"}
    BY DEF TreeInv, Tree!RemoverDenied
  <1>1. UNCHANGED <<kind, call, peer, whitePath, before, ppc, below, entries, visits, stays, Tree!chosen, Tree!others>>
    BY DEF Tree!RemoverDenied, Tree!chosen, Tree!others
  <1>2. rpc' = "false" /\ frames' = <<>>
    BY DEF Tree!RemoverDenied, Tree!Unwind
  <1>3. leaked' \in Nat
    <2>1. Len(frames) \in Nat /\ leaked \in Nat
      BY <1>0, FrameType DEF Tree!TypeOK
    <2>2. CASE Tree!Unwind
      BY <2>1, <2>2 DEF Tree!Unwind
    <2>3. CASE frames # <<>> /\ leaked' = leaked + Len(Tree!Outer)
      <3>1. Len(Tree!Outer) \in Nat
        BY <2>3, LastFrame
      <3>. QED
        BY <2>1, <2>3, <3>1
    <2>. QED
      BY <2>2, <2>3 DEF Tree!RemoverDenied
  <1>4. Tree!TypeOK'
    BY <1>0, <1>1, <1>2, <1>3 DEF Tree!TypeOK, Tree!Pc
  <1>5. KindInv' /\ CallInv' /\ FramesInv' /\ Tree!OutsideIsKept' /\ Tree!WhiteIsKept'
    BY <1>0, <1>1, <1>2 DEF KindInv, CallInv, FramesInv, Tree!OutsideIsKept, Tree!WhiteIsKept
  <1>6. Tree!FailureHasCause' /\ Tree!LeaksOnlyInFailure'
    BY <1>0, <1>2 DEF Tree!FailureHasCause, Tree!LeaksOnlyInFailure
  <1>7. MakeInv' /\ VisitInv' /\ CompleteInv'
    BY <1>0, <1>1, OtherKept
  <1>. QED
    BY <1>4, <1>5, <1>6, <1>7 DEF TreeInv

\* readdir fails: nothing more is known of what is in the directory.
LEMMA ReadStep == ASSUME TreeInv, Tree!ReadFails PROVE TreeInv'
  <1>0. /\ Tree!TypeOK /\ KindInv /\ CallInv /\ FramesInv /\ Tree!OutsideIsKept /\ Tree!WhiteIsKept /\ Tree!LeaksOnlyInFailure
        /\ rpc = "run" /\ frames # <<>> /\ denied' = denied \cup {"remover"}
    BY DEF TreeInv, Tree!ReadFails
  <1>1. UNCHANGED <<kind, call, rpc, peer, whitePath, before, ppc, below, entries, visits, stays, leaked, Tree!chosen, Tree!others>>
    BY DEF Tree!ReadFails, Tree!chosen, Tree!others
  <1>. DEFINE Frame == [at : Tree!Loc, left : SUBSET (Tree!Loc \X Tree!Kind)]
  <1>2. PICK n \in 1 .. 3 : n = Len(frames) /\ n \in 1 .. Len(frames)
    BY <1>0, LastFrame
  <1>3. PICK f \in Frame : f = frames[n]
    <2>1. frames \in Seq(Frame)
      BY <1>0 DEF Tree!TypeOK
    <2>. HIDE DEF Frame
    <2>. QED
      BY <1>2, <2>1, ElementOfSeq
  <1>4. PICK g \in Frame : g = [f EXCEPT !.left = {}] /\ g.at = f.at /\ g.left = {}
    <2>1. [f EXCEPT !.left = {}] \in Frame /\ [f EXCEPT !.left = {}].at = f.at /\ [f EXCEPT !.left = {}].left = {}
      BY <1>3
    <2>. HIDE DEF Frame
    <2>. QED
      BY <2>1
  <1>5. frames' = [frames EXCEPT ![n] = g]
    BY <1>2, <1>3, <1>4 DEF Tree!ReadFails
  <1>6. frames \in Seq(Frame)
    BY <1>0 DEF Tree!TypeOK
  <1>. HIDE DEF Frame
  <1>7. /\ frames' \in Seq(Frame) /\ Len(frames') = n
        /\ \A i \in 1 .. n : frames'[i] = IF i = n THEN g ELSE frames[i]
    BY <1>2, <1>5, <1>6, ExceptSeq
  <1>8. \A i \in 1 .. n : frames'[i].at = frames[i].at /\ frames'[i].left \subseteq frames[i].left
    BY <1>3, <1>4, <1>7
  <1>9. Tree!TypeOK'
    <2>1. Len(frames') <= 3
      BY <1>2, <1>7
    <2>. QED
      BY <1>0, <1>1, <1>7, <2>1 DEF Tree!TypeOK, Frame
  <1>10. FramesInv'
    <2>1. SUFFICES ASSUME NEW i \in 1 .. n PROVE FrameOf(i)'
      BY <1>7 DEF FramesInv
    <2>2. FrameOf(i) /\ i \in 1 .. Len(frames)
      BY <1>0, <1>2 DEF FramesInv
    <2>3. frames'[i].at = frames[i].at /\ frames'[i].left \subseteq frames[i].left
      BY <1>8
    <2>4. i < Len(frames') => i < Len(frames) /\ frames'[i + 1].at = frames[i + 1].at
      BY <1>2, <1>7, <1>8
    <2>5. i = 3 => frames'[2].at = frames[2].at
      BY <1>2, <1>8
    <2>6. \A l : Accounted(i, l)'
      BY <1>0 DEF Accounted
    <2>. QED
      BY <1>1, <2>2, <2>3, <2>4, <2>5, <2>6 DEF FrameOf, Tree!InDir, Tree!Resolve
  <1>11. frames' # <<>>
    BY <1>2, <1>7
  <1>12. KindInv' /\ Tree!OutsideIsKept' /\ Tree!WhiteIsKept' /\ Tree!LeaksOnlyInFailure'
    BY <1>0, <1>1 DEF KindInv, Tree!OutsideIsKept, Tree!WhiteIsKept, Tree!LeaksOnlyInFailure
  <1>13. CallInv' /\ Tree!FailureHasCause'
    BY <1>0, <1>1, <1>11 DEF CallInv, Tree!FailureHasCause
  <1>14. MakeInv' /\ VisitInv' /\ CompleteInv'
    BY <1>0, <1>1, OtherKept
  <1>. QED
    BY <1>9, <1>10, <1>12, <1>13, <1>14 DEF TreeInv

LEMMA MakeDeniedStep == ASSUME TreeInv, Tree!MakeDenied PROVE TreeInv'
  <1>0. /\ Tree!TypeOK /\ Tree!LeaksOnlyInFailure /\ RemoverInv /\ peer = "mkdir" /\ ppc' = "false"
        /\ denied' = denied \cup {"peer"}
        /\ UNCHANGED <<kind, Tree!chosen, Tree!remover, below, entries, visits, stays, leaked>>
    BY DEF TreeInv, RemoverInv, Tree!MakeDenied
  <1>1. UNCHANGED <<call, peer, whitePath, before, rpc, frames>>
    BY <1>0 DEF Tree!chosen, Tree!remover
  <1>2. Tree!TypeOK' /\ Tree!LeaksOnlyInFailure'
    BY <1>0, <1>1 DEF Tree!TypeOK, Tree!Pc, Tree!LeaksOnlyInFailure
  <1>3. RemoverInv'
    BY <1>0, RemoverKept
  <1>4. MakeInv' /\ VisitInv' /\ CompleteInv'
    BY <1>0, <1>1 DEF MakeInv, VisitInv, CompleteInv
  <1>. QED
    BY <1>2, <1>3, <1>4 DEF TreeInv, RemoverInv

LEMMA TreeStep == ASSUME TreeInv, [Tree!Next]_(Tree!vars) PROVE TreeInv'
  <1>1. CASE Tree!Remove
    BY <1>1, StatStep, UnlinkRootStep, OpenRootStep, SkipStep, DescendStep, UnlinkStep, RemoveDirStep,
       DeniedStep, ReadStep
       DEF Tree!Remove
  <1>2. CASE (Tree!MakeDir /\ UNCHANGED denied) \/ Tree!MakeDenied
    BY <1>2, MakeStep, MakeDeniedStep
  <1>3. CASE Tree!Traverse
    BY <1>3, TraverseStep
  <1>4. CASE UNCHANGED Tree!vars
    <2>1. UNCHANGED <<kind, Tree!chosen, Tree!remover, Tree!others, stays, leaked, denied>>
      BY <1>4 DEF Tree!vars, Tree!chosen, Tree!remover, Tree!others
    <2>2. UNCHANGED <<call, peer, whitePath, denied, before, rpc, frames, ppc, below, entries, visits>>
      BY <1>4 DEF Tree!vars
    <2>3. Tree!TypeOK' /\ Tree!LeaksOnlyInFailure'
      BY <2>1, <2>2 DEF TreeInv, Tree!TypeOK, Tree!LeaksOnlyInFailure
    <2>4. RemoverInv'
      BY <2>1, RemoverKept DEF TreeInv, RemoverInv
    <2>5. MakeInv' /\ VisitInv' /\ CompleteInv'
      BY <2>1, OtherKept
    <2>. QED
      BY <2>3, <2>4, <2>5 DEF TreeInv, RemoverInv
  <1>. QED
    BY <1>1, <1>2, <1>3, <1>4 DEF Tree!Next

\* What is called back for is an entry of a directory that was called back for itself.
LEMMA SpareStep == ASSUME TreeInv, SpareInv, [Tree!Next]_(Tree!vars) PROVE SpareInv'
  <1>1. whitePath' = whitePath /\ Tree!TypeOK
    BY DEF TreeInv, Tree!Next, Tree!Remove, Tree!Stat, Tree!UnlinkRoot, Tree!OpenRoot, Tree!SkipEntry, Tree!Descend,
           Tree!UnlinkEntry, Tree!RemoveDir, Tree!RemoverDenied, Tree!ReadFails, Tree!MakeDir, Tree!MakeDenied,
           Tree!Traverse, Tree!LookAtRoot, Tree!OpenNext, Tree!PassWhite, Tree!VisitNext, Tree!CallbackRefuses,
           Tree!CloseThis, Tree!TraverseDenied, Tree!VisitUnknown, Tree!ListingFails, Tree!chosen, Tree!vars
  <1>2. \/ UNCHANGED visits
        \/ peer = "traverse" /\ ppc = "run" /\ \E e \in entries : e[1] \notin whitePath /\ visits' = Append(visits, e[1])
    BY DEF Tree!Next, Tree!Remove, Tree!Stat, Tree!UnlinkRoot, Tree!OpenRoot, Tree!SkipEntry, Tree!Descend,
           Tree!UnlinkEntry, Tree!RemoveDir, Tree!RemoverDenied, Tree!ReadFails, Tree!MakeDir, Tree!MakeDenied,
           Tree!Traverse, Tree!LookAtRoot, Tree!OpenNext, Tree!PassWhite, Tree!VisitNext, Tree!CallbackRefuses,
           Tree!CloseThis, Tree!TraverseDenied, Tree!VisitUnknown, Tree!ListingFails, Tree!others, Tree!vars
  <1>3. CASE UNCHANGED visits
    BY <1>1, <1>3 DEF SpareInv, Visited, Tree!Spared
  <1>4. CASE ~UNCHANGED visits
    <2>1. PICK e \in entries : e[1] \notin whitePath /\ visits' = Append(visits, e[1])
      BY <1>2, <1>4
    <2>2. VisitInv /\ peer = "traverse" /\ ppc = "run"
      BY <1>2, <1>4 DEF TreeInv
    <2>3. PICK l \in Inner : l = e[1] /\ Reached(Tree!ParentOf[l])
      BY <2>1, <2>2 DEF VisitInv
    <2>4. l \in Tree!Loc /\ visits \in Seq(Tree!Loc)
      BY <1>1 DEF Tree!TypeOK, Inner, Tree!Loc
    <2>5. \A x \in Tree!Loc : Visited(x)' <=> Visited(x) \/ x = l
      BY <2>1, <2>3, <2>4, OneMoreVisit
    <2>6. ~Tree!Spared(l)
      <3>1. l = "sub" => Visited("dir") /\ "dir" \in Tree!Loc
        BY <2>3, Places DEF Reached, Tree!Loc
      <3>2. l = "sub" => "dir" \notin whitePath
        BY <3>1 DEF SpareInv, Tree!Spared
      <3>. QED
        BY <2>1, <2>3, <3>2 DEF Tree!Spared
    <2>. QED
      BY <1>1, <2>3, <2>5, <2>6 DEF SpareInv, Tree!Spared
  <1>. QED
    BY <1>3, <1>4

\* A directory that stays is reached, so what stays in it is visited, once.
LEMMA TraversalEnds == ASSUME TreeInv, SpareInv PROVE Tree!TraversalIsComplete
  <1>0. \A i \in DOMAIN visits : visits[i] # "kept" /\ ~Tree!Spared(visits[i])
    <2>1. ASSUME NEW i \in DOMAIN visits PROVE visits[i] # "kept" /\ ~Tree!Spared(visits[i])
      <3>1. visits[i] \in Tree!Loc
        BY ElementOfSeq, LenProperties DEF TreeInv, Tree!TypeOK
      <3>2. Visited(visits[i])
        BY DEF Visited
      <3>. QED
        BY <3>1, <3>2 DEF SpareInv, Inner
    <2>. QED
      BY <2>1
  <1>. SUFFICES ASSUME peer = "traverse", ppc = "true", "peer" \notin denied
                PROVE  \A l \in (Tree!Tree \ {"root"}) \cap stays : before[l] # "none" /\ ~Tree!Spared(l) =>
                           \E i \in DOMAIN visits : \A j \in DOMAIN visits : visits[j] = l <=> j = i
    BY <1>0 DEF Tree!TraversalIsComplete
  <1>1. Tree!TypeOK /\ KindInv /\ VisitInv /\ CompleteInv
    BY DEF TreeInv
  <1>2. below = <<>> /\ entries = {} /\ DOMAIN below = {}
    BY <1>1 DEF VisitInv
  <1>3. \A i, j \in DOMAIN visits : visits[i] = visits[j] => i = j
    BY <1>1 DEF VisitInv
  <1>4. \A l \in Tree!Loc : ~Waiting(l)
    BY <1>2 DEF Waiting
  <1>5. \A l \in Inner \cap stays : before[l] # "none" /\ ~Tree!Spared(l) => Visited(l) \/ ~Reached(Tree!ParentOf[l])
    BY <1>1, <1>2, <1>4, Places DEF CompleteInv, Inner, Tree!Loc
  <1>6. ASSUME NEW l \in (Tree!Tree \ {"root"}) \cap stays, before[l] # "none", ~Tree!Spared(l)
        PROVE  \E i \in DOMAIN visits : \A j \in DOMAIN visits : visits[j] = l <=> j = i
    <2>1. l \in Inner \cap stays
      BY <1>6 DEF Tree!Tree, Inner
    <2>2. Visited(l)
      <3>1. CASE l \in {"dir", "leaf"}
        BY <1>5, <1>6, <2>1, <3>1, Places DEF Reached
      <3>2. CASE l = "sub"
        <4>0. "dir" \in Inner \cap stays /\ before["dir"] # "none" /\ ~Tree!Spared("dir")
          BY <1>1, <1>6, <3>2, Places DEF KindInv, Tree!Trees, Inner, Tree!Spared
        <4>1. Visited("dir")
          BY <1>5, <4>0, Places DEF Reached
        <4>. QED
          BY <1>5, <1>6, <2>1, <3>2, <4>1, Places DEF Reached
      <3>. QED
        BY <2>1, <3>1, <3>2 DEF Inner
    <2>3. PICK i \in DOMAIN visits : visits[i] = l
      BY <2>2 DEF Visited
    <2>4. \A j \in DOMAIN visits : visits[j] = l <=> j = i
      BY <1>3, <2>3
    <2>. QED
      BY <2>3, <2>4
  <1>. QED
    BY <1>6

\* A removal that returns true has removed: the root, or what was in it.
LEMMA RemovalIsTrue ==
    ASSUME TreeInv, [Tree!Next]_(Tree!vars), rpc # "true", rpc' = "true"
    PROVE  IF call.deleteRoot THEN kind'["root"] = "none"
           ELSE \/ "remover" \in denied
                \/ \A l \in {"dir", "leaf"} \ call.white : before[l] # "none" => l \notin stays'
  <1>0. Tree!TypeOK /\ KindInv /\ CallInv
    BY DEF TreeInv
  <1>1. Tree!UnlinkRoot \/ Tree!RemoveDir
    <2>1. CASE Tree!Remove
      BY <2>1 DEF Tree!Remove, Tree!Stat, Tree!OpenRoot, Tree!SkipEntry, Tree!Descend, Tree!UnlinkEntry, Tree!Unwind, Tree!RemoverDenied, Tree!ReadFails
    <2>2. CASE Tree!MakeDir \/ Tree!MakeDenied \/ Tree!Traverse \/ UNCHANGED Tree!vars
      BY <2>2 DEF Tree!MakeDir, Tree!MakeDenied, Tree!Traverse, Tree!LookAtRoot, Tree!OpenNext, Tree!PassWhite, Tree!VisitNext, Tree!CallbackRefuses, Tree!CloseThis,
           Tree!TraverseDenied, Tree!VisitUnknown, Tree!ListingFails, Tree!remover, Tree!vars
    <2>. QED
      BY <2>1, <2>2 DEF Tree!Next
  <1>2. CASE Tree!UnlinkRoot
    <2>1. rpc = "run" /\ frames = <<>>
      BY <1>2 DEF Tree!UnlinkRoot
    <2>2. kind["root"] = "file" /\ call.func = "files" /\ call.deleteRoot
      BY <1>0, <2>1 DEF CallInv
    <2>3. kind' = [kind EXCEPT !["root"] = "none"]
      BY <1>2, <2>2 DEF Tree!UnlinkRoot, Tree!Put
    <2>. QED
      BY <1>0, <2>2, <2>3 DEF Tree!TypeOK, Tree!Loc
  <1>3. CASE Tree!RemoveDir
    <2>1. rpc = "run" /\ frames # <<>> /\ Tree!Top.left = {}
      BY <1>3 DEF Tree!RemoveDir
    <2>2. Tree!Last
      BY <1>3, <2>1 DEF Tree!RemoveDir
    <2>3. /\ Tree!Path = "root" /\ kind["root"] \in {"dir", "link"} /\ FrameOf(1)
          /\ frames[1].left = {} /\ frames[1].at = "root" /\ Len(frames) = 1
      BY <2>1, <2>2, LastFrame DEF Tree!Last
    <2>4. CASE call.deleteRoot
      <3>1. Tree!Put("root", "none")
        BY <1>3, <2>1, <2>2, <2>3, <2>4 DEF Tree!RemoveDir
      <3>. QED
        BY <1>0, <2>4, <3>1 DEF Tree!Put, Tree!TypeOK, Tree!Loc
    <2>5. CASE ~call.deleteRoot
      <3>1. stays' = stays
        BY <1>3, <2>2, <2>5 DEF Tree!RemoveDir
      <3>2. ASSUME NEW l \in {"dir", "leaf"} \ call.white, before[l] # "none", l \in stays, "remover" \notin denied
            PROVE  FALSE
        <4>1. kind[l] = before[l]
          BY <1>0, <3>2 DEF KindInv, Tree!Loc
        <4>2. kind["root"] # "link"
          BY <1>0, <3>2, LinksAreOld DEF Inner
        <4>3. l \in Tree!InDir(kind, Tree!Resolve(kind, "root"))
          BY <2>3, <3>2, <4>1, <4>2, Places DEF Tree!InDir, Tree!Resolve
        <4>4. Accounted(1, l)
          BY <2>3, <4>3 DEF FrameOf
        <4>. QED
          BY <2>3, <3>2, <4>4 DEF Accounted, Made
      <3>. QED
        BY <2>5, <3>1, <3>2
    <2>. QED
      BY <2>4, <2>5
  <1>. QED
    BY <1>1, <1>2, <1>3

\* mkdir_recursive that returns true finds the last name in place, or puts it there.
LEMMA MakingIsTrue ==
    ASSUME TreeInv, [Tree!Next]_(Tree!vars), peer = "mkdir", ppc # "true", ppc' = "true"
    PROVE  kind'["sub"] = "dir" \/ before["sub"] = "file"
  <1>0. Tree!TypeOK /\ KindInv /\ MakeInv
    BY DEF TreeInv
  <1>1. Tree!MakeDir
    <2>1. CASE Tree!Remove
      BY <2>1 DEF Tree!Remove, Tree!Stat, Tree!UnlinkRoot, Tree!OpenRoot, Tree!SkipEntry, Tree!Descend, Tree!UnlinkEntry, Tree!RemoveDir,
                 Tree!RemoverDenied, Tree!ReadFails, Tree!others
    <2>2. CASE Tree!MakeDenied \/ Tree!Traverse \/ UNCHANGED Tree!vars
      BY <2>2 DEF Tree!MakeDenied, Tree!Traverse, Tree!LookAtRoot, Tree!OpenNext, Tree!PassWhite, Tree!VisitNext, Tree!CallbackRefuses, Tree!CloseThis,
           Tree!TraverseDenied, Tree!VisitUnknown, Tree!ListingFails, Tree!vars
    <2>. QED
      BY <2>1, <2>2 DEF Tree!Next
  <1>2. ppc = "begin" /\ Tree!Holds(Head(below)) /\ Len(below) = 1
    BY <1>1 DEF Tree!MakeDir
  <1>3. Head(below) = "sub"
    BY <1>0, <1>2 DEF MakeInv
  <1>4. CASE kind["sub"] = "none"
    <2>1. Tree!Put("sub", "dir")
      BY <1>1, <1>2, <1>3, <1>4 DEF Tree!MakeDir
    <2>. QED
      BY <1>0, <2>1 DEF Tree!Put, Tree!TypeOK, Tree!Loc
  <1>5. CASE kind["sub"] # "none"
    <2>1. UNCHANGED kind /\ "sub" \in Tree!Loc
      BY <1>1, <1>3, <1>5 DEF Tree!MakeDir, Tree!Loc
    <2>2. kind["sub"] \in Tree!Kind /\ kind["sub"] # "link"
      BY <1>0, <2>1, LinksAreOld DEF Tree!TypeOK
    <2>3. kind["sub"] = "file" => before["sub"] = "file"
      BY <1>0, <2>1 DEF KindInv
    <2>. QED
      BY <1>5, <2>1, <2>2, <2>3 DEF Tree!Kind
  <1>. QED
    BY <1>4, <1>5

-----------------------------------------------------------------------------
(* CrashSignal.                                                            *)

\* What is in an eventfd is the number of a handled signal if one was written, and
\* nothing if none was.
CountInv ==
    \A f \in Crash!Fd : /\ written[f] = 0 => tally[f] = 0
                        /\ written[f] = 1 => tally[f] \in handled

\* Only a thread whose signal is handled is in the handler.
FaultInv == \A t \in Faulty : fault[t] # "code" => SignalOf[t] \in handled

\* An eventfd is closed where the thread could not be created.
CloseInv ==
    /\ shut # {} => "create" \in failed
    /\ setup \in {"close", "reset"} => "create" \in failed

BegunInv == setup # "out" => inits # 0

\* Once a set-up has come as far as the thread there is an eventfd, or a step failed.
Broken == failed \cap {"eventfd", "create"} # {}
NotifierInv ==
    \/ notifier # 0 \/ Broken
    \/ setup \in {"out", "handlers"} /\ \A f \in Crash!Fd : reporter[f] = "none"

\* A thread reads -1, or what is closed, only after a failure.
ReadsInv == \A f \in Crash!Fd : reporter[f] = "wait" /\ reads[f] = 0 => Broken

ReportInv == \A r \in reports : r.writes \in Nat

CrashInv ==
    /\ Crash!TypeOK /\ CountInv /\ FaultInv /\ CloseInv /\ BegunInv /\ NotifierInv
    /\ ReadsInv /\ ReportInv
    /\ Crash!ReportNamesASignal /\ Crash!StrayNeedsFailure /\ Crash!NoSignalNoReport

LEMMA CrashInit == Crash!CrashAssumption /\ Crash!Init => CrashInv
  <1>. SUFFICES ASSUME Crash!CrashAssumption, Crash!Init PROVE CrashInv
    OBVIOUS
  <1>1. 0 \in 0 .. MaxInits /\ 0 \in 0 .. 0
    BY DEF Crash!CrashAssumption
  <1>2. Crash!TypeOK
    BY <1>1 DEF Crash!Init, Crash!TypeOK
  <1>3. CountInv /\ FaultInv /\ CloseInv /\ BegunInv /\ NotifierInv /\ ReadsInv
    BY DEF Crash!Init, CountInv, FaultInv, CloseInv, BegunInv, NotifierInv, ReadsInv
  <1>4. ReportInv /\ Crash!ReportNamesASignal /\ Crash!StrayNeedsFailure /\ Crash!NoSignalNoReport
    BY DEF Crash!Init, ReportInv, Crash!ReportNamesASignal, Crash!StrayNeedsFailure, Crash!NoSignalNoReport
  <1>. QED
    BY <1>2, <1>3, <1>4 DEF CrashInv

\* What a step keeps that writes no eventfd and reports nothing, and closes none unless
\* it says why.
LEMMA QuietStep ==
    ASSUME Crash!CrashAssumption, CrashInv, Crash!TypeOK',
           UNCHANGED <<tally, written, reports, stray>>,
           handled \subseteq handled', failed \subseteq failed',
           FaultInv', CloseInv', BegunInv', NotifierInv', ReadsInv'
    PROVE  CrashInv'
  <1>1. CountInv'
    BY DEF CrashInv, CountInv
  <1>2. ReportInv' /\ Crash!ReportNamesASignal' /\ Crash!NoSignalNoReport' /\ Crash!StrayNeedsFailure'
    BY DEF CrashInv, ReportInv, Crash!ReportNamesASignal, Crash!NoSignalNoReport, Crash!StrayNeedsFailure
  <1>. QED
    BY <1>1, <1>2 DEF CrashInv

LEMMA SetupStep ==
    ASSUME Crash!CrashAssumption, CrashInv, Crash!Begin \/ Crash!Setup \/ \E s \in Crash!Signal : Crash!SetHandler(s)
    PROVE  CrashInv'
  <1>0. /\ Crash!TypeOK /\ FaultInv /\ CloseInv /\ BegunInv /\ NotifierInv /\ ReadsInv /\ MaxInits \in Nat
        /\ inits \in Nat /\ 0 \in 0 .. inits /\ inits \in 0 .. inits
    BY DEF CrashInv, Crash!CrashAssumption, Crash!TypeOK
  <1>. USE DEF Crash!descriptors, Crash!threads, Crash!TypeOK, Crash!Fd
  <1>1. CASE Crash!Begin
    <2>1. Crash!TypeOK'
      BY <1>0, <1>1 DEF Crash!Begin
    <2>2. FaultInv' /\ CloseInv' /\ BegunInv' /\ NotifierInv' /\ ReadsInv'
      BY <1>0, <1>1 DEF Crash!Begin, FaultInv, CloseInv, BegunInv, NotifierInv, ReadsInv, Broken
    <2>. QED
      BY <1>1, <2>1, <2>2, QuietStep DEF Crash!Begin
  <1>2. ASSUME NEW s \in Crash!Signal, Crash!SetHandler(s) PROVE CrashInv'
    <2>1. Crash!TypeOK'
      BY <1>0, <1>2 DEF Crash!SetHandler
    <2>2. FaultInv' /\ CloseInv' /\ BegunInv' /\ NotifierInv' /\ ReadsInv'
      BY <1>0, <1>2 DEF Crash!SetHandler, FaultInv, CloseInv, BegunInv, NotifierInv, ReadsInv, Broken
    <2>. QED
      BY <1>2, <2>1, <2>2, QuietStep DEF Crash!SetHandler
  <1>3. CASE Crash!Create
    <2>1. Crash!TypeOK'
      BY <1>0, <1>3 DEF Crash!Create
    <2>2. FaultInv' /\ CloseInv' /\ BegunInv' /\ ReadsInv'
      BY <1>0, <1>3 DEF Crash!Create, FaultInv, CloseInv, BegunInv, ReadsInv, Broken
    <2>3. NotifierInv'
      BY <1>0, <1>3 DEF Crash!Create, NotifierInv, BegunInv
    <2>. QED
      BY <1>3, <2>1, <2>2, <2>3, QuietStep DEF Crash!Create
  <1>4. CASE Crash!CreateFails
    <2>1. Crash!TypeOK'
      BY <1>0, <1>4 DEF Crash!CreateFails
    <2>2. FaultInv' /\ CloseInv' /\ BegunInv' /\ NotifierInv' /\ ReadsInv'
      BY <1>0, <1>4 DEF Crash!CreateFails, FaultInv, CloseInv, BegunInv, NotifierInv, ReadsInv, Broken
    <2>. QED
      BY <1>4, <2>1, <2>2, QuietStep DEF Crash!CreateFails
  <1>5. CASE Crash!StartThread
    <2>1. Crash!TypeOK'
      BY <1>0, <1>5 DEF Crash!StartThread
    <2>2. FaultInv' /\ CloseInv' /\ BegunInv' /\ NotifierInv' /\ ReadsInv'
      BY <1>0, <1>5 DEF Crash!StartThread, FaultInv, CloseInv, BegunInv, NotifierInv, ReadsInv, Broken
    <2>. QED
      BY <1>5, <2>1, <2>2, QuietStep DEF Crash!StartThread
  <1>6. CASE Crash!StartFails
    <2>1. Crash!TypeOK'
      BY <1>0, <1>6 DEF Crash!StartFails
    <2>2. FaultInv' /\ CloseInv' /\ BegunInv' /\ NotifierInv' /\ ReadsInv'
      BY <1>0, <1>6 DEF Crash!StartFails, FaultInv, CloseInv, BegunInv, NotifierInv, ReadsInv, Broken
    <2>. QED
      BY <1>6, <2>1, <2>2, QuietStep DEF Crash!StartFails
  <1>7. CASE Crash!CloseNotifier
    <2>1. Crash!TypeOK'
      BY <1>0, <1>7 DEF Crash!CloseNotifier
    <2>2. FaultInv' /\ CloseInv' /\ BegunInv' /\ NotifierInv' /\ ReadsInv'
      BY <1>0, <1>7 DEF Crash!CloseNotifier, FaultInv, CloseInv, BegunInv, NotifierInv, ReadsInv, Broken
    <2>. QED
      BY <1>7, <2>1, <2>2, QuietStep DEF Crash!CloseNotifier
  <1>8. CASE Crash!ResetNotifier
    <2>1. Crash!TypeOK'
      BY <1>0, <1>8 DEF Crash!ResetNotifier
    <2>2. FaultInv' /\ CloseInv' /\ BegunInv' /\ NotifierInv' /\ ReadsInv'
      BY <1>0, <1>8 DEF Crash!ResetNotifier, FaultInv, CloseInv, BegunInv, NotifierInv, ReadsInv, Broken
    <2>. QED
      BY <1>8, <2>1, <2>2, QuietStep DEF Crash!ResetNotifier
  <1>. QED
    BY <1>1, <1>2, <1>3, <1>4, <1>5, <1>6, <1>7, <1>8 DEF Crash!Setup

LEMMA HandleStep ==
    ASSUME Crash!CrashAssumption, CrashInv, NEW t \in Faulty, Crash!Handle(t)
    PROVE  CrashInv'
  <1>0. /\ Crash!TypeOK /\ FaultInv /\ CloseInv /\ BegunInv /\ NotifierInv /\ ReadsInv /\ CountInv
        /\ MaxInits \in Nat /\ SignalOf[t] \in Nat \ {0}
    BY DEF CrashInv, Crash!CrashAssumption
  <1>. USE DEF Crash!descriptors, Crash!threads
  <1>1. CASE Crash!Fault(t) \/ Crash!Test(t)
    <2>1. Crash!TypeOK'
      BY <1>0, <1>1 DEF Crash!Fault, Crash!Test, Crash!TypeOK
    <2>2. FaultInv' /\ CloseInv' /\ BegunInv' /\ NotifierInv' /\ ReadsInv'
      BY <1>0, <1>1 DEF Crash!Fault, Crash!Test, FaultInv, CloseInv, BegunInv, NotifierInv, ReadsInv, Broken, Crash!TypeOK
    <2>. QED
      BY <1>1, <2>1, <2>2, QuietStep DEF Crash!Fault, Crash!Test
  <1>2. CASE Crash!Write(t)
    <2>1. /\ fault[t] = "write" /\ fault' = [fault EXCEPT ![t] = "code"]
          /\ \/ /\ notifier \in Crash!Fd \ shut
                /\ tally' = [tally EXCEPT ![notifier] = tally[notifier] + SignalOf[t]]
                /\ written' = [written EXCEPT ![notifier] = written[notifier] + 1]
             \/ UNCHANGED <<tally, written>>
          /\ stray' = (stray \/ notifier \in shut)
          /\ UNCHANGED <<handled, setup, inits, notifier, shut, Crash!threads, reports, failed>>
      BY <1>2 DEF Crash!Write
    <2>2. Crash!TypeOK'
      BY <1>0, <2>1 DEF Crash!TypeOK
    <2>3. FaultInv' /\ CloseInv' /\ BegunInv' /\ NotifierInv' /\ ReadsInv'
      BY <1>0, <2>1 DEF FaultInv, CloseInv, BegunInv, NotifierInv, ReadsInv, Broken, Crash!TypeOK
    <2>4. CountInv'
      <3>1. SignalOf[t] \in handled
        BY <1>0, <2>1 DEF FaultInv
      <3>2. CASE UNCHANGED <<tally, written>>
        BY <1>0, <2>1, <3>2 DEF CountInv
      <3>3. CASE /\ notifier \in Crash!Fd \ shut
                 /\ tally' = [tally EXCEPT ![notifier] = tally[notifier] + SignalOf[t]]
                 /\ written' = [written EXCEPT ![notifier] = written[notifier] + 1]
        <4>1. tally[notifier] \in Nat /\ written[notifier] \in Nat
          BY <1>0, <3>3 DEF Crash!TypeOK
        <4>2. written[notifier] = 0 => 0 + SignalOf[t] = SignalOf[t]
          BY <1>0
        <4>3. written[notifier] + 1 # 0 /\ (written[notifier] + 1 = 1 => written[notifier] = 0)
          BY <4>1
        <4>. QED
          BY <1>0, <2>1, <3>1, <3>3, <4>1, <4>2, <4>3 DEF CountInv, Crash!TypeOK
      <3>. QED
        BY <2>1, <3>2, <3>3
    <2>5. Crash!StrayNeedsFailure'
      BY <1>0, <2>1 DEF CrashInv, Crash!StrayNeedsFailure, CloseInv
    <2>6. ReportInv' /\ Crash!ReportNamesASignal' /\ Crash!NoSignalNoReport'
      BY <2>1 DEF CrashInv, ReportInv, Crash!ReportNamesASignal, Crash!NoSignalNoReport
    <2>. QED
      BY <2>2, <2>3, <2>4, <2>5, <2>6 DEF CrashInv
  <1>. QED
    BY <1>1, <1>2 DEF Crash!Handle

LEMMA ServeStep ==
    ASSUME Crash!CrashAssumption, CrashInv, NEW f \in Crash!Fd, Crash!Serve(f)
    PROVE  CrashInv'
  <1>0. /\ Crash!TypeOK /\ FaultInv /\ CloseInv /\ BegunInv /\ NotifierInv /\ ReadsInv /\ CountInv
        /\ MaxInits \in Nat
    BY DEF CrashInv, Crash!CrashAssumption
  <1>. USE DEF Crash!descriptors, Crash!threads, Crash!ReporterAt
  <1>1. CASE Crash!Attach(f) \/ Crash!AttachFails(f)
    <2>1. Crash!TypeOK'
      BY <1>0, <1>1 DEF Crash!Attach, Crash!AttachFails, Crash!TypeOK
    <2>2. FaultInv' /\ CloseInv' /\ BegunInv' /\ NotifierInv' /\ ReadsInv'
      BY <1>0, <1>1 DEF Crash!Attach, Crash!AttachFails, FaultInv, CloseInv, BegunInv, NotifierInv, ReadsInv, Broken, Crash!TypeOK
    <2>. QED
      BY <1>1, <2>1, <2>2, QuietStep DEF Crash!Attach, Crash!AttachFails
  <1>2. CASE Crash!EnterRead(f)
    <2>1. Crash!TypeOK'
      BY <1>0, <1>2 DEF Crash!EnterRead, Crash!TypeOK
    <2>2. notifier \in shut \/ notifier = 0 => Broken
      BY <1>0, <1>2 DEF Crash!EnterRead, CloseInv, NotifierInv, Broken
    <2>3. FaultInv' /\ CloseInv' /\ BegunInv' /\ NotifierInv'
      BY <1>0, <1>2 DEF Crash!EnterRead, FaultInv, CloseInv, BegunInv, NotifierInv, Broken, Crash!TypeOK
    <2>4. ReadsInv'
      BY <1>0, <1>2, <2>2 DEF Crash!EnterRead, ReadsInv, Broken, Crash!TypeOK
    <2>. QED
      BY <1>2, <2>1, <2>3, <2>4, QuietStep DEF Crash!EnterRead
  <1>3. CASE Crash!Read(f)
    <2>. DEFINE fd == reads[f]
                r == [by |-> f, fd |-> fd, number |-> tally[fd], writes |-> written[fd]]
    <2>1. /\ reporter[f] = "wait" /\ fd # 0 /\ tally[fd] > 0
          /\ reports' = reports \cup {r}
          /\ tally' = [tally EXCEPT ![fd] = 0] /\ written' = [written EXCEPT ![fd] = 0]
          /\ reporter' = [reporter EXCEPT ![f] = "done"]
          /\ UNCHANGED <<handled, setup, inits, notifier, shut, reads, fault, stray, failed>>
      BY <1>3 DEF Crash!Read, Crash!Report
    <2>2. fd \in Crash!Fd /\ fd \in 0 .. MaxInits
      BY <1>0, <2>1 DEF Crash!TypeOK, Crash!Fd
    <2>3. tally[fd] \in Nat /\ written[fd] \in Nat
      BY <1>0, <2>2 DEF Crash!TypeOK
    <2>4. r.by = f /\ r.fd = fd /\ r.number = tally[fd] /\ r.writes = written[fd]
      OBVIOUS
    <2>5. written[fd] # 0 /\ (written[fd] = 1 => tally[fd] \in handled)
      BY <1>0, <2>1, <2>2, <2>3 DEF CountInv
    <2>. HIDE DEF r
    <2>6. Crash!TypeOK'
      BY <1>0, <2>1, <2>2, <2>3, <2>4 DEF Crash!TypeOK
    <2>7. FaultInv' /\ CloseInv' /\ BegunInv' /\ NotifierInv' /\ ReadsInv'
      BY <1>0, <2>1 DEF FaultInv, CloseInv, BegunInv, NotifierInv, ReadsInv, Broken, Crash!TypeOK
    <2>8. CountInv'
      BY <1>0, <2>1, <2>2 DEF CountInv, Crash!TypeOK
    <2>9. ReportInv'
      BY <2>1, <2>3, <2>4 DEF CrashInv, ReportInv
    <2>10. Crash!ReportNamesASignal'
      <3>1. r.number \in handled \/ r.writes > 1
        BY <2>3, <2>4, <2>5
      <3>. QED
        BY <2>1, <3>1 DEF CrashInv, Crash!ReportNamesASignal
    <2>11. Crash!NoSignalNoReport'
      BY <2>1, <2>4, <2>5 DEF CrashInv, Crash!NoSignalNoReport
    <2>12. Crash!StrayNeedsFailure'
      BY <2>1 DEF CrashInv, Crash!StrayNeedsFailure
    <2>. QED
      BY <2>6, <2>7, <2>8, <2>9, <2>10, <2>11, <2>12 DEF CrashInv
  <1>4. CASE Crash!ReadFails(f)
    <2>. DEFINE r == [by |-> f, fd |-> reads[f], number |-> -1, writes |-> 0]
    <2>1. /\ reporter[f] = "wait" /\ reads[f] = 0
          /\ reports' = reports \cup {r}
          /\ reporter' = [reporter EXCEPT ![f] = "done"]
          /\ UNCHANGED <<handled, setup, inits, Crash!descriptors, reads, fault, stray, failed>>
      BY <1>4 DEF Crash!ReadFails, Crash!Report
    <2>2. r.by = f /\ r.fd = 0 /\ r.writes = 0
      BY <2>1
    <2>3. Broken
      BY <1>0, <2>1 DEF ReadsInv
    <2>. HIDE DEF r
    <2>4. Crash!TypeOK'
      BY <1>0, <2>1, <2>2 DEF Crash!TypeOK
    <2>5. FaultInv' /\ CloseInv' /\ BegunInv' /\ NotifierInv' /\ ReadsInv' /\ CountInv'
      BY <1>0, <2>1 DEF FaultInv, CloseInv, BegunInv, NotifierInv, ReadsInv, Broken, CountInv, Crash!TypeOK
    <2>6. ReportInv' /\ Crash!ReportNamesASignal' /\ Crash!NoSignalNoReport' /\ Crash!StrayNeedsFailure'
      BY <2>1, <2>2, <2>3 DEF CrashInv, ReportInv, Crash!ReportNamesASignal, Crash!NoSignalNoReport,
         Crash!StrayNeedsFailure, Broken
    <2>. QED
      BY <2>4, <2>5, <2>6 DEF CrashInv
  <1>. QED
    BY <1>1, <1>2, <1>3, <1>4 DEF Crash!Serve

LEMMA CrashStep ==
    ASSUME Crash!CrashAssumption, CrashInv, [Crash!Next]_(Crash!all)
    PROVE  CrashInv'
  <1>1. CASE UNCHANGED Crash!all
    <2>1. UNCHANGED <<handled, setup, inits, notifier, tally, shut, reporter, reads, fault, reports,
                      written, stray, failed>>
      BY <1>1 DEF Crash!all
    <2>2. Crash!TypeOK'
      BY <2>1 DEF CrashInv, Crash!TypeOK
    <2>3. FaultInv' /\ CloseInv' /\ BegunInv' /\ NotifierInv' /\ ReadsInv'
      BY <2>1 DEF CrashInv, FaultInv, CloseInv, BegunInv, NotifierInv, ReadsInv, Broken
    <2>. QED
      BY <2>1, <2>2, <2>3, QuietStep
  <1>. QED
    BY <1>1, SetupStep, HandleStep, ServeStep DEF Crash!Next

-----------------------------------------------------------------------------
(* NativeLog.                                                              *)

\* The vector has no slots that were never filled, and different adapters in those it uses.
VectorInv ==
    /\ Len(slot) <= made + 1 /\ block <= made + 1
    /\ \A i \in 1 .. Len(slot) : slot[i] <= made
    /\ \A i, j \in 1 .. size : slot[i] = slot[j] => i = j
    /\ \A a \in Native!Adapter : type[a] # "none" <=> a <= made

\* A loop ends with the vector it began with, unless it was changed.
LoopOf(t) ==
    /\ place[t].end <= made + 1
    /\ t \in Native!Inside => t \in called
    /\ t \in Native!Inside \ shaken => Native!Valid(t) /\ place[t].end = size

\* What an adapter that is on gets of a line.
Due(a) == IF type[a] = "custom" THEN 0 ELSE 1

\* What a loop has written to.
OutOf(t) ==
    \A a \in Native!Adapter :
        /\ t \notin called => out[a][t] = 0
        /\ t \in Native!Inside => out[a][t] <= place[t].pos
        /\ t \in Native!Inside \ shaken =>
              /\ out[a][t] <= 1
              /\ out[a][t] # 0 => a \in ever[t] /\ \E i \in 1 .. place[t].pos : slot[i] = a
              /\ a \in always[t] => \A i \in 1 .. place[t].pos : slot[i] = a => out[a][t] = Due(a)

\* Which adapters were on.
OnOf(t) ==
    /\ \A a \in ever[t] \cup always[t] : a <= made
    /\ t \notin called => always[t] = {} /\ ever[t] = {}
    /\ t \in Native!Inside \ shaken =>
          /\ always[t] \subseteq {a \in Native!Listed : on[a]}
          /\ {a \in Native!Listed : on[a]} \subseteq ever[t]
          /\ \A a \in ever[t] : type[a] = "file" => a \in always[t]

\* What LinesArrive and FileGetsAll say of one logger.
OverOf(t) ==
    t \notin shaken \cup Native!Inside =>
        \A a \in Native!Adapter :
            /\ a \in always[t] => out[a][t] = Due(a)
            /\ a \notin ever[t] => out[a][t] = 0
            /\ out[a][t] <= 1
            /\ a \in ever[t] /\ type[a] = "file" => out[a][t] = 1

LoggerInv(t) == LoopOf(t) /\ OutOf(t) /\ OnOf(t) /\ OverOf(t)

NativeInv == Native!TypeOK /\ VectorInv /\ Native!CrashNeedsOverlap /\ \A t \in Logger : LoggerInv(t)

LEMMA NativeInit ==
    ASSUME Native!NativeAssumption, Native!Init
    PROVE  NativeInv
  <1>1. MaxAdapts \in Nat /\ 0 \in Native!Adapter /\ Native!Adapter \subseteq Nat
    BY DEF Native!NativeAssumption, Native!Adapter
  <1>2. <<0>> \in Seq(Native!Adapter) /\ Len(<<0>>) = 1 /\ <<0>>[1] = 0
    BY <1>1
  <1>3. slot \in Seq(Native!Adapter) /\ Len(slot) = 1 /\ slot[1] = 0 /\ size = 1 /\ block = 1 /\ made = 0
    BY <1>2 DEF Native!Init
  <1>4. Native!Listed = {0}
    BY <1>3 DEF Native!Listed
  <1>5. Native!Inside = {} /\ called = {}
    BY DEF Native!Init, Native!Inside
  <1>6. Native!TypeOK
    <2>1. slot \in Seq(Native!Adapter) /\ size \in 0 .. Len(slot) /\ block \in 1 .. MaxAdapts + 1
          /\ made \in 0 .. MaxAdapts
      BY <1>1, <1>3
    <2>2. \A a \in Native!Listed : type[a] # "none"
      BY <1>1, <1>4 DEF Native!Init
    <2>3. place \in [Logger -> [pos : 0 .. MaxAdapts, end : 0 .. MaxAdapts + 1, block : 0 .. MaxAdapts + 1]]
      BY <1>1 DEF Native!Init, Native!Outside
    <2>4. type \in [Native!Adapter -> Native!Types \cup {"none"}]
      BY DEF Native!Init, Native!Types
    <2>5. out \in [Native!Adapter -> [Logger -> 0 .. MaxAdapts + 1]] /\ on \in [Native!Adapter -> BOOLEAN]
      BY <1>1 DEF Native!Init
    <2>6. always \in [Logger -> SUBSET Native!Adapter] /\ ever \in [Logger -> SUBSET Native!Adapter]
      BY DEF Native!Init
    <2>7. \A t \in Logger : place[t] = Native!Outside
      BY DEF Native!Init
    <2>. QED
      BY <2>1, <2>2, <2>3, <2>4, <2>5, <2>6, <2>7 DEF Native!Init, Native!TypeOK
  <1>7. VectorInv
    BY <1>1, <1>3 DEF Native!Init, VectorInv, Native!Adapter
  <1>8. \A t \in Logger : LoggerInv(t)
    BY <1>1, <1>3, <1>5 DEF Native!Init, LoggerInv, LoopOf, OutOf, OnOf, OverOf, Native!Outside
  <1>. QED
    BY <1>6, <1>7, <1>8 DEF NativeInv, Native!CrashNeedsOverlap, Native!Init

\* What a step does not touch of a logger stays as it is.
LEMMA LoggerKept ==
    ASSUME Native!NativeAssumption, NativeInv, NEW t \in Logger,
           UNCHANGED <<Native!vector, on, shaken>>,
           place'[t] = place[t], t \in called' <=> t \in called,
           always'[t] = always[t], ever'[t] = ever[t],
           \A a \in Native!Adapter : out'[a][t] = out[a][t]
    PROVE  LoggerInv(t)'
  <1>1. LoggerInv(t) /\ Native!Listed' = Native!Listed /\ (Native!Valid(t)' <=> Native!Valid(t)) /\ (t \in Native!Inside' <=> t \in Native!Inside)
        /\ Native!Outside' = Native!Outside
    BY DEF NativeInv, Native!Listed, Native!Valid, Native!Inside, Native!vector, Native!names, Native!Outside
  <1>2. LoopOf(t)' /\ OutOf(t)'
    BY <1>1 DEF LoggerInv, LoopOf, OutOf, Due, Native!vector
  <1>3. OnOf(t)' /\ OverOf(t)'
    BY <1>1 DEF LoggerInv, OnOf, OverOf, Due, Native!vector
  <1>. QED
    BY <1>2, <1>3 DEF LoggerInv

\* The vector holds adapters that were made.
LEMMA ListedIsMade ==
    ASSUME Native!NativeAssumption, NativeInv
    PROVE  Native!Listed \subseteq Native!Adapter /\ \A a \in Native!Listed : a <= made
  BY DEF NativeInv, Native!TypeOK, VectorInv, Native!Listed

\* A call that is over, or whose vector changes, is owed no more than before.
LEMMA LoggerShaken ==
    ASSUME Native!NativeAssumption, NativeInv, NEW t \in Logger,
           UNCHANGED <<place, called, out, always, ever>>, shaken' = shaken \cup Native!Inside,
           made' \in Nat, made' >= made, \A a \in Native!Adapter : a <= made => type'[a] = type[a]
    PROVE  LoggerInv(t)'
  <1>1. LoggerInv(t) /\ Native!TypeOK /\ (t \in Native!Inside' <=> t \in Native!Inside) /\ MaxAdapts \in Nat
    BY DEF NativeInv, Native!Inside, Native!NativeAssumption, Native!Outside
  <1>2. LoopOf(t)'
    BY <1>1 DEF LoggerInv, LoopOf, Native!TypeOK
  <1>3. OutOf(t)'
    BY <1>1 DEF LoggerInv, OutOf
  <1>4. OnOf(t)'
    BY <1>1 DEF LoggerInv, OnOf, Native!TypeOK, Native!Adapter
  <1>5. OverOf(t)'
    <2>1. \A a \in ever[t] \cup always[t] : a \in Native!Adapter /\ type'[a] = type[a]
      BY <1>1 DEF LoggerInv, OnOf, Native!TypeOK
    <2>. QED
      BY <1>1, <2>1 DEF LoggerInv, OverOf, Due
  <1>. QED
    BY <1>2, <1>3, <1>4, <1>5 DEF LoggerInv

LEMMA ClearStep == ASSUME Native!NativeAssumption, NativeInv, Native!Clear PROVE NativeInv'
  <1>1. Native!TypeOK /\ VectorInv /\ MaxAdapts \in Nat
    BY DEF NativeInv, Native!NativeAssumption
  <1>2. Native!Listed' = {}
    BY DEF Native!Clear, Native!Listed
  <1>3. Native!TypeOK'
    BY <1>1, <1>2 DEF Native!TypeOK, Native!Clear, Native!Inside, Native!Outside
  <1>4. VectorInv'
    BY <1>1 DEF Native!TypeOK, VectorInv, Native!Clear
  <1>5. \A t \in Logger : LoggerInv(t)'
    BY <1>1, LoggerShaken DEF Native!Clear, Native!TypeOK
  <1>. QED
    BY <1>3, <1>4, <1>5 DEF NativeInv, Native!CrashNeedsOverlap, Native!Clear

LEMMA SetAdaptStep == ASSUME Native!NativeAssumption, NativeInv, Native!SetAdapt PROVE NativeInv'
  <1>0. Native!TypeOK /\ VectorInv /\ MaxAdapts \in Nat /\ made < MaxAdapts /\ made' = made + 1
    BY DEF NativeInv, Native!NativeAssumption, Native!SetAdapt
  <1>a. made \in Nat /\ slot \in Seq(Native!Adapter) /\ size \in Nat /\ size <= Len(slot) /\ block \in Nat
        /\ block >= 1 /\ Native!Adapter \subseteq Nat
    BY <1>0 DEF Native!TypeOK, Native!Adapter
  <1>b. made' \in Native!Adapter /\ made + 1 \in Native!Adapter
    BY <1>0, <1>a DEF Native!Adapter
  <1>1. Native!TypeOK /\ VectorInv /\ MaxAdapts \in Nat /\ made' = made + 1
    BY <1>0
  \* The slots in use are those of before, and the one with the new adapter.
  <1>2. /\ slot' \in Seq(Native!Adapter) /\ size' \in 0 .. Len(slot') /\ size' = size + 1
        /\ Len(slot') <= made' + 1
        /\ slot'[size'] = made'
        /\ \A i \in 1 .. size : slot'[i] = slot[i]
        /\ \A i \in 1 .. Len(slot') : slot'[i] <= made'
    <2>1. Len(slot) \in Nat /\ Len(slot) <= made + 1 /\ size' = size + 1
          /\ \A i \in 1 .. Len(slot) : slot[i] \in Nat /\ slot[i] <= made
      <3>1. Len(slot) \in Nat /\ \A i \in 1 .. Len(slot) : slot[i] \in Native!Adapter
        BY <1>a
      <3>2. Len(slot) <= made + 1 /\ \A i \in 1 .. Len(slot) : slot[i] <= made
        BY <1>0 DEF VectorInv
      <3>3. size' = size + 1
        BY DEF Native!SetAdapt
      <3>. QED
        BY <1>a, <3>1, <3>2, <3>3, Zenon
    <2>2. CASE size < Len(slot)
      <3>1. slot' = [slot EXCEPT ![size + 1] = made + 1] /\ size + 1 \in 1 .. Len(slot)
        BY <1>a, <2>1, <2>2 DEF Native!SetAdapt
      <3>2. slot' \in Seq(Native!Adapter) /\ Len(slot') = Len(slot)
        BY <1>a, <1>b, <3>1
      <3>3. \A i \in 1 .. Len(slot) : slot'[i] = IF i = size + 1 THEN made + 1 ELSE slot[i]
        BY <1>a, <3>1
      <3>. QED
        BY <1>0, <1>a, <2>1, <3>1, <3>2, <3>3
    <2>3. CASE ~(size < Len(slot))
      <3>1. size = Len(slot) /\ slot' = Append(slot, made + 1)
        BY <1>a, <2>1, <2>3 DEF Native!SetAdapt
      <3>2. slot' \in Seq(Native!Adapter) /\ Len(slot') = Len(slot) + 1
            /\ \A i \in 1 .. Len(slot) + 1 : slot'[i] = IF i = Len(slot) + 1 THEN made + 1 ELSE slot[i]
        BY <1>a, <1>b, <3>1, AppendProperties
      <3>. QED
        BY <1>0, <1>a, <2>1, <3>1, <3>2
    <2>. QED
      BY <2>2, <2>3
  <1>3. block' \in 1 .. MaxAdapts + 1 /\ block' <= made' + 1
    <2>1. block' \in {block, block + 1} /\ block <= made + 1
      BY <1>0 DEF Native!SetAdapt, VectorInv
    <2>. QED
      BY <1>0, <1>a, <2>1
  <1>4. PICK y \in Native!Types : type' = [type EXCEPT ![made + 1] = y]
    BY DEF Native!SetAdapt
  <1>5. y # "none" /\ \A a \in Native!Adapter : type'[a] = IF a = made' THEN y ELSE type[a]
    BY <1>0, <1>b, <1>4 DEF Native!TypeOK, Native!Types
  <1>6. Native!Listed' = Native!Listed \cup {made'}
    <2>1. 1 .. size' = (1 .. size) \cup {size'}
      BY <1>a, <1>2
    <2>2. Native!Listed' = {slot'[i] : i \in 1 .. size'}
      BY DEF Native!Listed
    <2>. QED
      BY <1>2, <2>1, <2>2 DEF Native!Listed
  <1>7. \A a \in Native!Listed' : type'[a] # "none"
    <2>1. \A a \in Native!Listed : a \in Native!Adapter /\ a # made' /\ type[a] # "none"
      BY <1>0, <1>a, ListedIsMade DEF Native!TypeOK
    <2>. QED
      BY <1>b, <1>5, <1>6, <2>1
  <1>8. Native!TypeOK'
    <2>1. type' \in [Native!Adapter -> Native!Types \cup {"none"}]
      BY <1>0, <1>b, <1>4 DEF Native!TypeOK
    <2>2. /\ UNCHANGED <<on, enabled, place, called, out, crashed, always, ever>>
          /\ manager' \in {"out", "tag"} /\ UNCHANGED <<tag, head>> /\ shaken' \subseteq Logger /\ made' \in 0 .. MaxAdapts
      BY <1>0, <1>b DEF Native!SetAdapt, Native!TypeOK, Native!Inside, Native!Adapter
    <2>. QED
      BY <1>1, <1>2, <1>3, <1>7, <2>1, <2>2 DEF Native!TypeOK, Native!Outside
  <1>9. VectorInv'
    <2>1. \A i, j \in 1 .. size' : slot'[i] = slot'[j] => i = j
      <3>1. \A i \in 1 .. size : slot'[i] # made'
        BY <1>0, <1>a, <1>2 DEF VectorInv
      <3>2. \A i \in 1 .. size' : i \in 1 .. size \/ i = size'
        BY <1>a, <1>2
      <3>3. \A i, j \in 1 .. size : slot[i] = slot[j] => i = j
        BY <1>0 DEF VectorInv
      <3>. QED
        BY <1>2, <3>1, <3>2, <3>3
    <2>2. \A a \in Native!Adapter : type'[a] # "none" <=> a <= made'
      BY <1>0, <1>a, <1>5 DEF VectorInv
    <2>. QED
      BY <1>2, <1>3, <2>1, <2>2 DEF VectorInv
  <1>10. \A t \in Logger : LoggerInv(t)'
    <2>1. \A a \in Native!Adapter : a <= made => type'[a] = type[a]
      BY <1>0, <1>a, <1>5
    <2>2. made' \in Nat /\ made' >= made
      BY <1>0, <1>a
    <2>. QED
      BY <2>1, <2>2, LoggerShaken DEF Native!SetAdapt
  <1>. QED
    BY <1>8, <1>9, <1>10 DEF NativeInv, Native!CrashNeedsOverlap, Native!SetAdapt

LEMMA SwitchStep ==
    ASSUME Native!NativeAssumption, NativeInv, NEW b \in BOOLEAN, Native!SwitchAdb(b)
    PROVE  NativeInv'
  <1>1. Native!TypeOK /\ VectorInv /\ MaxAdapts \in Nat /\ Native!Listed \subseteq Native!Adapter /\ \A a \in Native!Listed : a <= made
    BY ListedIsMade DEF NativeInv, Native!NativeAssumption
  <1>2. /\ UNCHANGED <<slot, size, block, manager, tag, head, made, type, enabled, place, called, out, crashed, shaken>>
        /\ Native!Listed' = Native!Listed /\ Native!Inside' = Native!Inside /\ Native!Outside' = Native!Outside
    BY DEF Native!SwitchAdb, Native!vector, Native!names, Native!Listed, Native!Inside, Native!Outside
  <1>3. /\ on' \in [Native!Adapter -> BOOLEAN]
        /\ \A a \in Native!Adapter : type[a] = "file" => on'[a] = on[a]
    BY <1>1 DEF Native!SwitchAdb, Native!OfAdb, Native!TypeOK
  <1>4. /\ always' \in [Logger -> SUBSET Native!Adapter] /\ ever' \in [Logger -> SUBSET Native!Adapter]
        /\ \A t \in Logger :
              /\ t \notin Native!Inside => always'[t] = always[t] /\ ever'[t] = ever[t]
              /\ t \in Native!Inside => /\ always'[t] = always[t] \cap {a \in Native!Adapter : on'[a]}
                                        /\ ever'[t] = ever[t] \cup {a \in Native!Listed : on'[a]}
    BY <1>1 DEF Native!SwitchAdb, Native!TypeOK
  <1>5. Native!TypeOK'
    BY <1>1, <1>2, <1>3, <1>4 DEF Native!TypeOK
  <1>6. ASSUME NEW t \in Logger PROVE LoggerInv(t)'
    <2>1. LoggerInv(t) /\ (Native!Valid(t)' <=> Native!Valid(t))
      BY <1>2 DEF NativeInv, Native!Valid
    <2>2. LoopOf(t)'
      BY <1>2, <2>1 DEF LoggerInv, LoopOf
    <2>3. OutOf(t)'
      BY <1>2, <1>4, <2>1 DEF LoggerInv, OutOf, Due
    <2>4. OnOf(t)'
      <3>1. CASE t \notin Native!Inside
        BY <1>2, <1>4, <2>1, <3>1 DEF LoggerInv, OnOf
      <3>2. CASE t \in Native!Inside
        <4>1. t \in called
          BY <2>1, <3>2 DEF LoggerInv, LoopOf
        <4>2. \A a \in ever'[t] \cup always'[t] : a <= made
          BY <1>1, <1>4, <2>1, <3>2 DEF LoggerInv, OnOf
        <4>3. ASSUME t \notin shaken
              PROVE  /\ always'[t] \subseteq {a \in Native!Listed : on'[a]}
                     /\ {a \in Native!Listed : on'[a]} \subseteq ever'[t]
                     /\ \A a \in ever'[t] : type[a] = "file" => a \in always'[t]
          <5>1. /\ always[t] \subseteq {a \in Native!Listed : on[a]}
                /\ {a \in Native!Listed : on[a]} \subseteq ever[t]
                /\ \A a \in ever[t] : type[a] = "file" => a \in always[t]
            BY <2>1, <3>2, <4>3 DEF LoggerInv, OnOf
          <5>2. always'[t] \subseteq {a \in Native!Listed : on'[a]}
            BY <1>4, <3>2, <5>1
          <5>3. {a \in Native!Listed : on'[a]} \subseteq ever'[t]
            BY <1>4, <3>2
          <5>4. ASSUME NEW a \in ever'[t], type[a] = "file" PROVE a \in always'[t]
            <6>1. a \in Native!Adapter
              BY <1>4
            <6>2. a \in ever[t]
              BY <1>1, <1>3, <1>4, <3>2, <5>1, <5>4, <6>1
            <6>. QED
              BY <1>1, <1>3, <1>4, <3>2, <5>1, <5>4, <6>1, <6>2
          <5>. QED
            BY <5>2, <5>3, <5>4
        <4>. QED
          BY <1>2, <3>2, <4>1, <4>2, <4>3 DEF OnOf
      <3>. QED
        BY <3>1, <3>2
    <2>5. OverOf(t)'
      BY <1>2, <1>4, <2>1 DEF LoggerInv, OverOf, Due
    <2>. QED
      BY <2>2, <2>3, <2>4, <2>5 DEF LoggerInv
  <1>7. VectorInv' /\ Native!CrashNeedsOverlap'
    BY <1>1, <1>2 DEF VectorInv, Native!CrashNeedsOverlap, NativeInv
  <1>. QED
    BY <1>5, <1>6, <1>7 DEF NativeInv

\* The return before the loop, or the copy of the tag.
LEMMA BeginStep ==
    ASSUME Native!NativeAssumption, NativeInv, NEW t \in Logger, Native!Begin(t)
    PROVE  NativeInv'
  <1>1. /\ UNCHANGED <<Native!vector, manager, tag, on, enabled, place, out, crashed, shaken, always, ever>>
        /\ called' \in {called, called \cup {t}} /\ t \notin called /\ ~crashed
        /\ Native!Listed' = Native!Listed /\ Native!Outside' = Native!Outside
    BY DEF Native!Begin, Native!vector, Native!Listed, Native!Outside
  <1>2. VectorInv' /\ Native!CrashNeedsOverlap'
    BY <1>1 DEF NativeInv, VectorInv, Native!CrashNeedsOverlap, Native!vector
  <1>3. LoggerInv(t) /\ Native!TypeOK
    BY DEF NativeInv
  <1>4. (\A a \in Native!Adapter : out'[a][t] = 0) /\ place[t] = Native!Outside
        /\ always[t] = {} /\ ever[t] = {}
    BY <1>1, <1>3 DEF LoggerInv, LoopOf, OutOf, OnOf, Native!Inside
  <1>5. Native!TypeOK'
    <2>1. head' \in [Logger -> {"none", "plain", "conversion", "torn"}]
      BY <1>3 DEF Native!Begin, Native!TypeOK
    <2>. QED
      BY <1>1, <1>3, <2>1 DEF Native!TypeOK, Native!vector
  <1>6. LoggerInv(t)'
    <2>1. t \notin Native!Inside'
      BY <1>1, <1>4 DEF Native!Inside
    <2>. QED
      BY <1>1, <1>3, <1>4, <2>1 DEF LoggerInv, LoopOf, OutOf, OnOf, OverOf, Native!vector
  <1>7. ASSUME NEW u \in Logger \ {t} PROVE LoggerInv(u)'
    BY <1>1, LoggerKept
  <1>. QED
    BY <1>2, <1>5, <1>6, <1>7 DEF NativeInv

LEMMA FormatStep ==
    ASSUME Native!NativeAssumption, NativeInv, NEW t \in Logger, Native!Format(t)
    PROVE  NativeInv'
  <1>0. Native!TypeOK /\ MaxAdapts \in Nat /\ Native!Listed \subseteq Native!Adapter /\ \A a \in Native!Listed : a <= made
    BY ListedIsMade DEF NativeInv, Native!NativeAssumption
  <1>1. /\ UNCHANGED <<Native!vector, Native!names, on, enabled, out, crashed, shaken>> /\ called' = called \cup {t} /\ ~crashed
        /\ Native!Listed' = Native!Listed /\ Native!Outside' = Native!Outside /\ t \notin called
    BY DEF Native!Format, Native!vector, Native!names, Native!Listed, Native!Outside
  <1>2. VectorInv' /\ Native!CrashNeedsOverlap'
    BY <1>1 DEF NativeInv, VectorInv, Native!CrashNeedsOverlap, Native!vector, Native!names
  <1>3. LoggerInv(t) /\ (\A a \in Native!Adapter : out'[a][t] = 0) /\ place[t] = Native!Outside
        /\ always[t] = {} /\ ever[t] = {}
    <2>1. LoggerInv(t)
      BY DEF NativeInv
    <2>. QED
      BY <1>1, <2>1 DEF LoggerInv, LoopOf, OutOf, OnOf, Native!Inside
  \* The early return.
  <1>4. CASE UNCHANGED <<place, always, ever>>
    <2>1. Native!TypeOK'
      BY <1>0, <1>1, <1>4 DEF Native!TypeOK, Native!vector, Native!names
    <2>2. t \notin Native!Inside'
      BY <1>1, <1>3, <1>4 DEF Native!Inside
    <2>3. LoggerInv(t)'
      BY <1>0, <1>1, <1>3, <1>4, <2>2 DEF LoggerInv, LoopOf, OutOf, OnOf, OverOf, Native!vector, Native!names
    <2>4. ASSUME NEW u \in Logger \ {t} PROVE LoggerInv(u)'
      BY <1>1, <1>4, LoggerKept
    <2>. QED
      BY <1>2, <2>1, <2>3, <2>4 DEF NativeInv
  <1>5. CASE ~UNCHANGED <<place, always, ever>>
    <2> DEFINE now == {a \in Native!Listed : on[a]}
    <2>1. /\ size # 0
          /\ place' = [place EXCEPT ![t] = [pos |-> 0, end |-> size, block |-> block]]
          /\ always' = [always EXCEPT ![t] = now] /\ ever' = [ever EXCEPT ![t] = now]
      BY <1>5 DEF Native!Format
    <2>2. size \in 1 .. made + 1 /\ size <= MaxAdapts + 1
      BY <1>0, <2>1 DEF NativeInv, Native!TypeOK, VectorInv
    <2>3. place'[t].pos = 0 /\ place'[t].end = size /\ place'[t].block = block /\ place'[t] # Native!Outside
      BY <1>0, <2>1, <2>2 DEF Native!TypeOK, Native!Outside
    <2>4. Native!TypeOK'
      <3>1. place' \in [Logger -> [pos : 0 .. MaxAdapts, end : 0 .. MaxAdapts + 1, block : 0 .. MaxAdapts + 1]]
        BY <1>0, <2>1, <2>2 DEF Native!TypeOK
      <3>2. \A u \in Logger : place'[u] = Native!Outside' \/ place'[u].pos < place'[u].end
        BY <1>0, <1>1, <2>1, <2>2, <2>3 DEF Native!TypeOK
      <3>3. always' \in [Logger -> SUBSET Native!Adapter] /\ ever' \in [Logger -> SUBSET Native!Adapter]
        BY <1>0, <2>1 DEF Native!TypeOK
      <3>4. called' \subseteq Logger
        BY <1>0, <1>1 DEF Native!TypeOK
      <3>. QED
        BY <1>0, <1>1, <3>1, <3>2, <3>3, <3>4 DEF Native!TypeOK, Native!vector, Native!names
    <2>5. always'[t] = now /\ ever'[t] = now
      BY <1>0, <2>1 DEF Native!TypeOK
    <2>6. t \in Native!Inside'
      BY <1>1, <2>3 DEF Native!Inside
    <2>7. Native!Valid(t)' /\ UNCHANGED <<size, made, on, type, slot>>
      BY <1>0, <1>1, <2>2, <2>3 DEF Native!Valid, Native!vector, Native!names, Native!TypeOK
    <2>8. LoopOf(t)'
      BY <1>0, <1>1, <2>2, <2>3, <2>7 DEF LoopOf
    <2>9. OutOf(t)'
      BY <1>0, <1>1, <1>3, <2>3, <2>6 DEF OutOf
    <2>10. OnOf(t)'
      BY <1>0, <1>1, <2>5, <2>7 DEF OnOf
    <2>11. OverOf(t)'
      BY <2>6 DEF OverOf
    <2>12. ASSUME NEW u \in Logger \ {t} PROVE LoggerInv(u)'
      <3>1. place'[u] = place[u] /\ always'[u] = always[u] /\ ever'[u] = ever[u]
        BY <1>0, <2>1 DEF Native!TypeOK
      <3>. QED
        BY <1>1, <3>1, LoggerKept
    <2>. QED
      BY <1>2, <2>4, <2>8, <2>9, <2>10, <2>11, <2>12 DEF NativeInv, LoggerInv
  <1>. QED
    BY <1>4, <1>5

\* One turn of the loop: what it has written to, counted over the slots it went through.
LEMMA TurnWrites ==
    ASSUME Native!NativeAssumption, NativeInv, NEW t \in Logger, Native!Output(t) \/ Native!Skip(t), t \notin shaken
    PROVE  /\ Native!Valid(t) /\ place[t].end = size /\ place[t].pos \in Nat
           /\ \A a \in Native!Adapter :
                 /\ out'[a][t] <= 1
                 /\ out'[a][t] # 0 => a \in ever[t] /\ \E i \in 1 .. place[t].pos + 1 : slot[i] = a
                 /\ a \in always[t] => \A i \in 1 .. place[t].pos + 1 : slot[i] = a => out'[a][t] = Due(a)
  <1>1. Native!TypeOK /\ VectorInv /\ LoggerInv(t) /\ MaxAdapts \in Nat /\ t \in Native!Inside
    BY DEF NativeInv, Native!NativeAssumption, Native!Output, Native!Skip, Native!Inside
  <1>2. Native!Valid(t) /\ place[t].end = size
    BY <1>1 DEF LoggerInv, LoopOf
  <1>3. PICK p \in Nat : p = place[t].pos
    BY <1>1 DEF Native!TypeOK
  <1>4. p + 1 \in 1 .. size /\ Native!This(t) = slot[p + 1] /\ size \in Nat /\ size <= Len(slot) /\ Native!This(t) \in Native!Adapter
    BY <1>1, <1>2, <1>3 DEF Native!Valid, Native!This, Native!TypeOK
  <1>5. Native!This(t) \in Native!Listed
    BY <1>4 DEF Native!Listed
  <1>6. \A i \in 1 .. p : slot[i] # Native!This(t)
    BY <1>1, <1>4 DEF VectorInv
  <1>7. \A a \in Native!Adapter : out[a][t] \in Nat
    BY <1>1 DEF Native!TypeOK
  <1>8. \A a \in Native!Adapter :
            /\ out[a][t] <= 1
            /\ out[a][t] # 0 => a \in ever[t] /\ \E i \in 1 .. p : slot[i] = a
            /\ a \in always[t] => \A i \in 1 .. p : slot[i] = a => out[a][t] = Due(a)
    BY <1>1, <1>3 DEF LoggerInv, OutOf
  <1>9. always[t] \subseteq {a \in Native!Listed : on[a]} /\ {a \in Native!Listed : on[a]} \subseteq ever[t]
    BY <1>1 DEF LoggerInv, OnOf
  <1>10. out[Native!This(t)][t] = 0
    BY <1>4, <1>6, <1>7, <1>8
  <1>11. \A i \in 1 .. p + 1 : i \in 1 .. p \/ i = p + 1
    BY <1>3
  <1>12. CASE Native!Output(t)
    <2>1. \A a \in Native!Adapter : out'[a][t] = IF a = Native!This(t) THEN Due(a) ELSE out[a][t]
      BY <1>1, <1>4, <1>10, <1>12 DEF Native!Output, Native!TypeOK, Due
    <2>a. \A a \in Native!Adapter : Due(a) \in {0, 1}
      BY DEF Due
    <2>2. on[Native!This(t)]
      BY <1>2, <1>12 DEF Native!Output
    <2>3. Native!This(t) \in ever[t]
      BY <1>5, <1>9, <2>2
    <2>4. ASSUME NEW a \in Native!Adapter
          PROVE  /\ out'[a][t] <= 1
                 /\ out'[a][t] # 0 => a \in ever[t] /\ \E i \in 1 .. p + 1 : slot[i] = a
                 /\ a \in always[t] => \A i \in 1 .. p + 1 : slot[i] = a => out'[a][t] = Due(a)
      BY <1>4, <1>8, <1>11, <2>1, <2>a, <2>3
    <2>. QED
      BY <1>2, <1>3, <2>4
  <1>13. CASE Native!Skip(t)
    <2>1. out' = out /\ ~on[Native!This(t)]
      BY <1>2, <1>13 DEF Native!Skip
    <2>2. Native!This(t) \notin always[t]
      BY <1>9, <2>1
    <2>3. ASSUME NEW a \in Native!Adapter
          PROVE  /\ out'[a][t] <= 1
                 /\ out'[a][t] # 0 => a \in ever[t] /\ \E i \in 1 .. p + 1 : slot[i] = a
                 /\ a \in always[t] => \A i \in 1 .. p + 1 : slot[i] = a => out'[a][t] = Due(a)
      BY <1>4, <1>8, <1>11, <2>1, <2>2
    <2>. QED
      BY <1>2, <1>3, <2>3
  <1>. QED
    BY <1>12, <1>13

LEMMA TurnStep ==
    ASSUME Native!NativeAssumption, NativeInv, NEW t \in Logger, Native!Output(t) \/ Native!Skip(t)
    PROVE  NativeInv'
  <1>0. Native!TypeOK /\ VectorInv /\ LoggerInv(t) /\ MaxAdapts \in Nat /\ t \in Native!Inside /\ place[t] # Native!Outside
    BY DEF NativeInv, Native!NativeAssumption, Native!Output, Native!Skip, Native!Inside
  <1>1. /\ UNCHANGED <<Native!vector, Native!names, on, enabled, called, crashed, shaken, always, ever>>
        /\ Native!Listed' = Native!Listed /\ Native!Outside' = Native!Outside /\ Native!Advance(t)
    BY DEF Native!Output, Native!Skip, Native!vector, Native!names, Native!Listed, Native!Outside
  <1>2. VectorInv' /\ Native!CrashNeedsOverlap'
    BY <1>1 DEF NativeInv, VectorInv, Native!CrashNeedsOverlap, Native!vector, Native!names
  <1>3. PICK p, e \in Nat : p = place[t].pos /\ e = place[t].end /\ p < e /\ e <= made + 1 /\ e <= MaxAdapts + 1
    BY <1>0 DEF LoggerInv, LoopOf, Native!TypeOK
  <1>3a. place' = IF p + 1 = e THEN [place EXCEPT ![t] = Native!Outside] ELSE [place EXCEPT ![t].pos = p + 1]
    BY <1>1, <1>3 DEF Native!Advance
  <1>4. \/ p + 1 = e /\ place'[t] = Native!Outside
        \/ p + 1 < e /\ place'[t].pos = p + 1 /\ place'[t].end = e /\ place'[t].block = place[t].block
           /\ place'[t] # Native!Outside
    <2>2. /\ place \in [Logger -> [pos : 0 .. MaxAdapts, end : 0 .. MaxAdapts + 1, block : 0 .. MaxAdapts + 1]]
          /\ Native!Outside.end = 0
      BY <1>0 DEF Native!TypeOK, Native!Outside
    <2>3. place'[t] = IF p + 1 = e THEN Native!Outside ELSE [place[t] EXCEPT !.pos = p + 1]
      BY <1>3a, <2>2
    <2>4. p + 1 = e \/ p + 1 < e
      BY <1>3
    <2>. QED
      BY <1>3, <2>2, <2>3, <2>4
  <1>5. \A u \in Logger \ {t} : place'[u] = place[u]
    BY <1>0, <1>1 DEF Native!Advance, Native!TypeOK
  <1>6. \A a \in Native!Adapter : /\ out'[a][t] \in Nat /\ out'[a][t] <= p + 1
                                  /\ \A u \in Logger \ {t} : out'[a][u] = out[a][u]
    <2>1. \A a \in Native!Adapter : out[a][t] \in Nat /\ out[a][t] <= p
      BY <1>0, <1>3 DEF LoggerInv, OutOf, Native!TypeOK
    <2>2. out \in [Native!Adapter -> [Logger -> 0 .. MaxAdapts + 1]]
      BY <1>0 DEF Native!TypeOK
    <2>3. CASE Native!Output(t)
      <3>1. out' \in {out, [out EXCEPT ![Native!This(t)][t] = @ + 1]}
        BY <2>3 DEF Native!Output
      <3>2. \A a \in Native!Adapter : out'[a][t] \in {out[a][t], out[a][t] + 1}
                                    /\ \A u \in Logger \ {t} : out'[a][u] = out[a][u]
        BY <2>2, <3>1
      <3>. QED
        BY <1>3, <2>1, <3>2
    <2>4. CASE Native!Skip(t)
      BY <1>3, <2>1, <2>4 DEF Native!Skip
    <2>. QED
      BY <2>3, <2>4
  <1>7. Native!TypeOK'
    <2>1. place' \in [Logger -> [pos : 0 .. MaxAdapts, end : 0 .. MaxAdapts + 1, block : 0 .. MaxAdapts + 1]]
      <3>1. CASE p + 1 = e
        BY <1>0, <1>1, <1>3, <3>1 DEF Native!Advance, Native!TypeOK, Native!Outside
      <3>2. CASE p + 1 # e
        <4>0. place \in [Logger -> [pos : 0 .. MaxAdapts, end : 0 .. MaxAdapts + 1, block : 0 .. MaxAdapts + 1]]
          BY <1>0 DEF Native!TypeOK
        <4>1. place' = [place EXCEPT ![t].pos = p + 1]
          BY <1>3a, <1>3, <3>2
        <4>2. p + 1 \in 0 .. MaxAdapts
          BY <1>0, <1>3, <3>2
        <4>. QED
          BY <4>0, <4>1, <4>2
      <3>. QED
        BY <3>1, <3>2
    <2>2. \A u \in Logger : place'[u] = Native!Outside' \/ place'[u].pos < place'[u].end
      BY <1>0, <1>1, <1>3, <1>4, <1>5 DEF Native!TypeOK
    <2>3. out' \in [Native!Adapter -> [Logger -> 0 .. MaxAdapts + 1]]
      <3>1. out \in [Native!Adapter -> [Logger -> 0 .. MaxAdapts + 1]]
        BY <1>0 DEF Native!TypeOK
      <3>2. out' \in [Native!Adapter -> [Logger -> Nat]]
        <4>1. out \in [Native!Adapter -> [Logger -> Nat]]
          BY <1>0, <3>1
        <4>2. out' = out \/ out' = [out EXCEPT ![Native!This(t)][t] = @ + 1]
          BY DEF Native!Output, Native!Skip
        <4>. QED
          BY <4>1, <4>2
      <3>3. \A a \in Native!Adapter : out'[a][t] \in 0 .. MaxAdapts + 1
        BY <1>0, <1>3, <1>6
      <3>4. \A a \in Native!Adapter : \A u \in Logger : out'[a][u] \in 0 .. MaxAdapts + 1
        BY <1>6, <3>1, <3>3
      <3>. QED
        BY <3>2, <3>4
    <2>. QED
      BY <1>0, <1>1, <2>1, <2>2, <2>3 DEF Native!TypeOK, Native!vector, Native!names
  <1>8. ASSUME NEW u \in Logger \ {t} PROVE LoggerInv(u)'
    BY <1>1, <1>5, <1>6, LoggerKept
  <1>9. LoggerInv(t)'
    <2>1. t \in called /\ UNCHANGED <<slot, size, block, made, type>>
      BY <1>0, <1>1 DEF LoggerInv, LoopOf, Native!vector, Native!names
    <2>2. t \notin shaken => Native!Valid(t)' \/ p + 1 = e
      BY <1>0, <1>1, <1>3, <1>4, <2>1 DEF LoggerInv, LoopOf, Native!Valid, Native!TypeOK
    <2>3. LoopOf(t)'
      BY <1>0, <1>1, <1>3, <1>4, <2>1, <2>2 DEF LoggerInv, LoopOf, Native!Inside, Native!Outside, Native!TypeOK
    <2>4. OutOf(t)'
      <3>1. CASE t \in shaken
        BY <1>1, <1>4, <1>6, <2>1, <3>1 DEF OutOf, Native!Inside
      <3>2. CASE t \notin shaken
        BY <1>1, <1>4, <1>3, <1>6, <2>1, <3>2, TurnWrites DEF OutOf, Due, Native!Inside
      <3>. QED
        BY <3>1, <3>2
    <2>5. OnOf(t)'
      BY <1>0, <1>1, <2>1 DEF LoggerInv, OnOf
    <2>6. OverOf(t)'
      <3>. SUFFICES ASSUME t \notin shaken \cup Native!Inside'
                    PROVE  \A a \in Native!Adapter :
                               /\ a \in always[t] => out'[a][t] = Due(a)
                               /\ a \notin ever[t] => out'[a][t] = 0
                               /\ out'[a][t] <= 1
                               /\ a \in ever[t] /\ type[a] = "file" => out'[a][t] = 1
        BY <1>1, <2>1 DEF OverOf, Due
      <3>1. p + 1 = e /\ e = size /\ size \in Nat
        BY <1>1, <1>3, <1>4, TurnWrites DEF Native!Inside
      <3>2. \A a \in Native!Adapter :
                 /\ out'[a][t] <= 1
                 /\ out'[a][t] # 0 => a \in ever[t]
                 /\ a \in always[t] => \A i \in 1 .. p + 1 : slot[i] = a => out'[a][t] = Due(a)
        BY <1>3, TurnWrites
      <3>3. ASSUME NEW a \in always[t] PROVE out'[a][t] = Due(a)
        <4>1. a \in Native!Listed /\ a \in Native!Adapter
          BY <1>0 DEF LoggerInv, OnOf, Native!TypeOK
        <4>2. PICK i \in 1 .. size : slot[i] = a
          BY <4>1 DEF Native!Listed
        <4>. QED
          BY <3>1, <3>2, <4>1, <4>2
      <3>4. \A a \in ever[t] : type[a] = "file" => a \in always[t]
        BY <1>0 DEF LoggerInv, OnOf
      <3>. QED
        BY <1>6, <3>2, <3>3, <3>4 DEF Due
    <2>. QED
      BY <2>3, <2>4, <2>5, <2>6 DEF LoggerInv
  <1>. QED
    BY <1>2, <1>7, <1>8, <1>9 DEF NativeInv

\* A crash while the line is made up, or in the loop.
LEMMA FormatBreakStep ==
    ASSUME Native!NativeAssumption, NativeInv, NEW t \in Logger, Native!FormatCrashes(t)
    PROVE  NativeInv'
  <1>1. UNCHANGED <<Native!vector, on, enabled, Native!names, place, called, out, shaken, always, ever>> /\ crashed' = TRUE
        /\ Native!Listed' = Native!Listed /\ head[t] \in {"torn", "conversion"}
    BY DEF Native!FormatCrashes, Native!vector, Native!Listed
  <1>2. Native!TypeOK' /\ VectorInv' /\ Native!CrashNeedsOverlap'
    BY <1>1 DEF NativeInv, Native!TypeOK, VectorInv, Native!CrashNeedsOverlap, Native!vector, Native!names, Native!Outside
  <1>3. \A u \in Logger : LoggerInv(u)'
    BY <1>1, LoggerKept
  <1>. QED
    BY <1>2, <1>3 DEF NativeInv

LEMMA BreakStep ==
    ASSUME Native!NativeAssumption, NativeInv, NEW t \in Logger, Native!Crash(t)
    PROVE  NativeInv'
  <1>1. Native!TypeOK /\ LoggerInv(t) /\ t \in Native!Inside
    BY DEF NativeInv, Native!Crash, Native!Inside
  <1>2. UNCHANGED <<Native!vector, Native!names, on, enabled, place, called, out, shaken, always, ever>> /\ crashed' = TRUE
        /\ Native!Listed' = Native!Listed
    BY DEF Native!Crash, Native!vector, Native!names, Native!Listed
  \* Whoever finds what is not in the vector was overlapped.
  <1>3. Native!CrashNeedsOverlap'
    <2>1. CASE t \in shaken
      BY <1>2, <2>1 DEF Native!CrashNeedsOverlap
    <2>2. CASE t \notin shaken
      <3>1. Native!Valid(t) /\ type[Native!This(t)] = "nofile"
        BY <1>1, <2>2 DEF LoggerInv, LoopOf, Native!Crash
      <3>2. Native!This(t) \in Native!Listed
        <4>1. PICK p \in Nat : p = place[t].pos
          BY <1>1 DEF Native!TypeOK
        <4>2. p + 1 \in 1 .. size /\ Native!This(t) = slot[p + 1]
          BY <1>1, <3>1, <4>1 DEF Native!Valid, Native!This, Native!TypeOK
        <4>. QED
          BY <4>2 DEF Native!Listed
      <3>. QED
        BY <1>2, <3>1, <3>2 DEF Native!CrashNeedsOverlap, Native!vector, Native!names
    <2>. QED
      BY <2>1, <2>2
  <1>4. Native!TypeOK' /\ VectorInv'
    BY <1>2 DEF NativeInv, Native!TypeOK, VectorInv, Native!vector, Native!names, Native!Outside
  <1>5. \A u \in Logger : LoggerInv(u)'
    BY <1>2, LoggerKept
  <1>. QED
    BY <1>3, <1>4, <1>5 DEF NativeInv

LEMMA NativeStep == ASSUME Native!NativeAssumption, NativeInv, [Native!Next]_(Native!vars) PROVE NativeInv'
  <1>1. ASSUME UNCHANGED <<Native!vector, head, place, called, out, crashed, shaken, always, ever, on>>,
               enabled' \in BOOLEAN, manager' \in {"out", "clear", "tag", "set"},
               tag' \in {"plain", "conversion"}
        PROVE  NativeInv'
    <2>1. Native!TypeOK' /\ VectorInv' /\ Native!CrashNeedsOverlap'
      BY <1>1 DEF NativeInv, Native!TypeOK, VectorInv, Native!CrashNeedsOverlap, Native!vector, Native!names, Native!Listed, Native!Outside
    <2>2. \A t \in Logger : LoggerInv(t)'
      BY <1>1, LoggerKept
    <2>. QED
      BY <2>1, <2>2 DEF NativeInv
  <1>2. CASE Native!InitNull \/ Native!StartTag \/ Native!EndTag \/ UNCHANGED Native!vars
    <2>1. Native!TypeOK
      BY DEF NativeInv
    <2>. QED
      BY <1>1, <1>2, <2>1 DEF Native!InitNull, Native!StartTag, Native!EndTag, Native!vars, Native!names, Native!TypeOK
  <1>. QED
    BY <1>2, ClearStep, SetAdaptStep, SwitchStep, BeginStep, FormatStep, FormatBreakStep, TurnStep, BreakStep
       DEF Native!Next, Native!DoLog

LEMMA NativeArrives ==
    NativeInv => Native!TypeOK /\ Native!LinesArrive /\ Native!FileGetsAll /\ Native!CrashNeedsOverlap
  BY DEF NativeInv, LoggerInv, OverOf, OnOf, Due, Native!LinesArrive, Native!FileGetsAll, Native!TypeOK

-----------------------------------------------------------------------------
(* Strings: least and greatest numbers, and recursion.                     *)

\* What Min and Max of FiniteSetsExt choose.
LEMMA LeastNatural ==
    ASSUME NEW S \in SUBSET Nat, S # {}
    PROVE  Str!Min(S) \in S /\ \A k \in S : Str!Min(S) <= k
  <1>. DEFINE R == {ss \in Nat \X Nat : ss[1] < ss[2]}
  <1>1. IsWellFoundedOn(R, Nat)
    BY NatLessThanWellFounded DEF OpToRel
  <1>2. \E x \in S : \A y \in S : ~ (<<y, x>> \in R)
    <2>. HIDE DEF R
    <2>. QED
      BY <1>1, WFMin
  <1>3. PICK x \in S : \A y \in S : x <= y
    <2>1. PICK x \in S : \A y \in S : ~ (<<y, x>> \in R)
      BY <1>2
    <2>2. ASSUME NEW y \in S PROVE x <= y
      <3>1. x \in Nat /\ y \in Nat /\ <<y, x>> \notin R
        BY <2>1
      <3>2. ~(y < x)
        BY <3>1
      <3>. QED
        BY <3>1, <3>2
    <2>. QED
      BY <2>2
  <1>. QED
    BY <1>3 DEF Str!Min

LEMMA GreatestNatural ==
    ASSUME NEW n \in Nat, NEW S \in SUBSET (0 .. n), S # {}
    PROVE  Str!Max(S) \in S /\ \A k \in S : k <= Str!Max(S)
  <1>. DEFINE T == {n - k : k \in S}
  <1>1. T \in SUBSET Nat /\ T # {}
    <2>1. \A k \in S : k \in Nat /\ n - k \in Nat
      OBVIOUS
    <2>2. PICK k \in S : TRUE
      OBVIOUS
    <2>3. n - k \in T
      OBVIOUS
    <2>. QED
      BY <2>1, <2>3
  <1>2. Str!Min(T) \in T /\ \A d \in T : Str!Min(T) <= d
    <2>. HIDE DEF T
    <2>. QED
      BY <1>1, LeastNatural
  <1>3. PICK x \in S : Str!Min(T) = n - x
    BY <1>2
  <1>4. \A k \in S : k <= x
    <2>1. ASSUME NEW k \in S PROVE k <= x
      <3>1. n - x <= n - k
        BY <1>2, <1>3
      <3>. QED
        BY <3>1
    <2>. QED
      BY <2>1
  <1>. QED
    BY <1>4 DEF Str!Max

\* What a recursion goes back to has less rank; its values are in V.
Descends(D, V, stop, next, base, step, rank, top) ==
    /\ top \in Nat
    /\ \A k \in D : rank[k] \in Nat /\ rank[k] < top /\ base[k] \in V
    /\ \A k \in D \ stop : next[k] \in D /\ rank[next[k]] < rank[k]
    /\ \A k \in D \ stop : \A v \in V : step[k][v] \in V

\* The function defined by such a recursion exists.
LEMMA Recursion ==
    ASSUME NEW D, NEW V, NEW stop, NEW next, NEW base, NEW step, NEW rank, NEW top,
           Descends(D, V, stop, next, base, step, rank, top)
    PROVE  \E F \in [D -> V] : \A k \in D : F[k] = IF k \in stop THEN base[k] ELSE step[k][F[next[k]]]
  <1>0. /\ top \in Nat
        /\ \A k \in D : rank[k] \in Nat /\ rank[k] < top /\ base[k] \in V
        /\ \A k \in D \ stop : next[k] \in D /\ rank[next[k]] < rank[k]
        /\ \A k \in D \ stop : \A v \in V : step[k][v] \in V
    BY DEF Descends
  <1>. DEFINE Good(F, r) ==
                \A k \in D : rank[k] < r => F[k] = IF k \in stop THEN base[k] ELSE step[k][F[next[k]]]
              Bad == {r \in Nat : ~\E F \in [D -> V] : Good(F, r)}
  <1>1. Bad = {}
    <2>. SUFFICES ASSUME Bad # {} PROVE FALSE
      OBVIOUS
    <2>1. PICK r \in Bad : \A q \in Bad : r <= q
      <3>1. Bad \in SUBSET Nat
        OBVIOUS
      <3>. HIDE DEF Bad
      <3>. QED
        BY <3>1, LeastNatural
    <2>2. r \in Nat /\ ~\E F \in [D -> V] : Good(F, r)
      OBVIOUS
    <2>3. r # 0
      <3>1. [k \in D |-> base[k]] \in [D -> V]
        BY <1>0
      <3>2. Good([k \in D |-> base[k]], 0)
        BY <1>0
      <3>. HIDE DEF Good
      <3>. QED
        BY <2>2, <3>1, <3>2
    <2>4. r - 1 \in Nat /\ r - 1 \notin Bad
      <3>. HIDE DEF Bad
      <3>. QED
        BY <2>1, <2>2, <2>3
    <2>5. PICK F \in [D -> V] : Good(F, r - 1)
      BY <2>4
    <2>. DEFINE G == [k \in D |-> IF rank[k] # r - 1 THEN F[k]
                                  ELSE IF k \in stop THEN base[k] ELSE step[k][F[next[k]]]]
    <2>6. G \in [D -> V]
      <3>1. ASSUME NEW k \in D PROVE G[k] \in V
        BY <1>0, <2>5
      <3>. QED
        BY <3>1
    <2>7. ASSUME NEW k \in D, rank[k] < r
          PROVE  G[k] = IF k \in stop THEN base[k] ELSE step[k][G[next[k]]]
      <3>1. rank[k] \in Nat
        BY <1>0
      <3>2. k \notin stop => next[k] \in D /\ rank[next[k]] \in Nat /\ rank[next[k]] < rank[k]
        BY <1>0
      <3>3. k \notin stop => rank[next[k]] # r - 1
        BY <2>2, <2>7, <3>1, <3>2
      <3>4. k \notin stop => G[next[k]] = F[next[k]]
        BY <3>2, <3>3
      <3>5. CASE rank[k] = r - 1
        BY <3>4, <3>5
      <3>6. CASE rank[k] # r - 1
        <4>1. rank[k] < r - 1
          BY <2>2, <2>7, <3>1, <3>6
        <4>2. F[k] = IF k \in stop THEN base[k] ELSE step[k][F[next[k]]]
          BY <2>5, <4>1
        <4>3. G[k] = F[k]
          BY <3>6
        <4>. HIDE DEF G
        <4>. QED
          BY <3>4, <4>2, <4>3
      <3>. QED
        BY <3>5, <3>6
    <2>8. Good(G, r)
      <3>. HIDE DEF G
      <3>. QED
        BY <2>7
    <2>. HIDE DEF Good
    <2>. QED
      BY <2>2, <2>6, <2>8
  <1>2. \E F \in [D -> V] : Good(F, top)
    BY <1>0, <1>1
  <1>. QED
    BY <1>0, <1>2

\* Two functions that can only differ at a point when they differ at one of less rank are
\* the same.
DifferBelow(D, next, rank, F, G) ==
    /\ \A k \in D : rank[k] \in Nat
    /\ \A k \in D : F[k] = G[k] \/ (next[k] \in D /\ rank[next[k]] < rank[k] /\ F[next[k]] # G[next[k]])

\* Functions that differ only where they differ further down do not differ.
LEMMA Agreement ==
    ASSUME NEW D, NEW next, NEW rank, NEW F, NEW G, DifferBelow(D, next, rank, F, G)
    PROVE  \A k \in D : F[k] = G[k]
  <1>0. /\ \A k \in D : rank[k] \in Nat
        /\ \A k \in D : F[k] = G[k] \/ (next[k] \in D /\ rank[next[k]] < rank[k] /\ F[next[k]] # G[next[k]])
    BY DEF DifferBelow
  <1>. DEFINE Bad == {r \in Nat : \E k \in D : rank[k] = r /\ F[k] # G[k]}
  <1>1. SUFFICES ASSUME Bad # {} PROVE FALSE
    BY <1>0
  <1>2. PICK r \in Bad : \A q \in Bad : r <= q
    <2>1. Bad \in SUBSET Nat
      OBVIOUS
    <2>. HIDE DEF Bad
    <2>. QED
      BY <1>1, <2>1, LeastNatural
  <1>3. PICK k \in D : rank[k] = r /\ F[k] # G[k]
    OBVIOUS
  <1>4. next[k] \in D /\ rank[next[k]] < r /\ F[next[k]] # G[next[k]] /\ r \in Nat
    BY <1>0, <1>3
  <1>5. rank[next[k]] \in Nat
    BY <1>0, <1>4
  <1>6. rank[next[k]] \in Bad
    BY <1>4, <1>5
  <1>. HIDE DEF Bad
  <1>. QED
    BY <1>2, <1>4, <1>5, <1>6

-----------------------------------------------------------------------------
(* Strings: string::find.                                                  *)

\* p is found at k.
MatchAt(s, p, k) == \A j \in 1 .. Len(p) : s[k + j - 1] = p[j]

\* The characters from a to b.
LEMMA Cut ==
    ASSUME NEW C, NEW s \in Seq(C), NEW a \in Nat, NEW b \in Nat, 1 <= a, a <= b + 1, b <= Len(s)
    PROVE  /\ SubSeq(s, a, b) \in Seq(C) /\ Len(SubSeq(s, a, b)) = b + 1 - a
           /\ \A j \in 1 .. b + 1 - a : SubSeq(s, a, b)[j] = s[a + j - 1]
  <1>1. PICK n \in Nat : n = Len(s)
    BY LenProperties
  <1>2. \A i \in a .. b : s[i] \in C
    <2>1. \A i \in a .. b : i \in 1 .. n
      BY <1>1
    <2>. QED
      BY <1>1, <2>1, ElementOfSeq
  <1>3. /\ SubSeq(s, a, b) \in Seq(C)
        /\ Len(SubSeq(s, a, b)) = IF a <= b THEN b - a + 1 ELSE 0
        /\ \A i \in 1 .. b - a + 1 : SubSeq(s, a, b)[i] = s[a + i - 1]
    BY <1>2, SubSeqProperties
  <1>4. (IF a <= b THEN b - a + 1 ELSE 0) = b + 1 - a /\ b - a + 1 = b + 1 - a
    OBVIOUS
  <1>. QED
    BY <1>3, <1>4

\* As find compares: a part of the text with the pattern.
LEMMA MatchIsSubSeq ==
    ASSUME NEW C, NEW s \in Seq(C), NEW p \in Seq(C), NEW k \in Nat, 1 <= k, k + Len(p) <= Len(s) + 1
    PROVE  SubSeq(s, k, k + Len(p) - 1) = p <=> MatchAt(s, p, k)
  <1>1. PICK n \in Nat, m \in Nat : n = Len(s) /\ m = Len(p)
    BY LenProperties
  <1>2. PICK b \in Nat : b = k + m - 1 /\ k <= b + 1 /\ b <= n /\ b + 1 - k = m
    <2>1. k + m <= n + 1
      BY <1>1
    <2>2. k + m - 1 \in Nat /\ k + m - 1 <= n /\ k <= (k + m - 1) + 1 /\ (k + m - 1) + 1 - k = m
      BY <2>1
    <2>. QED
      BY <2>2
  <1>3. /\ SubSeq(s, k, b) \in Seq(C) /\ Len(SubSeq(s, k, b)) = m
        /\ \A j \in 1 .. m : SubSeq(s, k, b)[j] = s[k + j - 1]
    BY <1>1, <1>2, Cut
  <1>4. SubSeq(s, k, b) = p <=> \A j \in 1 .. m : SubSeq(s, k, b)[j] = p[j]
    <2>1. PICK x \in Seq(C) : x = SubSeq(s, k, b) /\ Len(x) = m
      BY <1>3
    <2>2. (\A j \in 1 .. m : x[j] = p[j]) => x = p
      BY <1>1, <2>1, SeqEqual
    <2>. QED
      BY <2>1, <2>2
  <1>5. SubSeq(s, k, b) = p <=> \A j \in 1 .. m : s[k + j - 1] = p[j]
    BY <1>3, <1>4
  <1>6. k + Len(p) - 1 = b
    BY <1>1, <1>2
  <1>. QED
    BY <1>1, <1>5, <1>6 DEF MatchAt

\* find returns the first match at or after a position.
LEMMA FindFacts ==
    ASSUME NEW C, NEW s \in Seq(C), NEW p \in Seq(C), NEW from \in Nat, 1 <= from
    PROVE  /\ Str!Find(s, p, from) \in Nat
           /\ Str!Find(s, p, from) = 0 =>
                 \A k \in Nat : from <= k /\ k + Len(p) <= Len(s) + 1 => ~MatchAt(s, p, k)
           /\ Str!Find(s, p, from) # 0 =>
                 /\ from <= Str!Find(s, p, from) /\ Str!Find(s, p, from) + Len(p) <= Len(s) + 1
                 /\ MatchAt(s, p, Str!Find(s, p, from))
                 /\ \A k \in Nat : from <= k /\ k < Str!Find(s, p, from) => ~MatchAt(s, p, k)
  <1>1. PICK n \in Nat, m \in Nat : n = Len(s) /\ m = Len(p)
    BY LenProperties
  <1>2. \A k : k \in Str!Matches(s, p, from) <=> k \in Nat /\ from <= k /\ k + m <= n + 1 /\ MatchAt(s, p, k)
    <2>1. \A k : k \in from .. n + 1 - m <=> k \in Nat /\ from <= k /\ k + m <= n + 1
      OBVIOUS
    <2>2. \A k \in from .. n + 1 - m : SubSeq(s, k, k + m - 1) = p <=> MatchAt(s, p, k)
      <3>1. ASSUME NEW k \in from .. n + 1 - m PROVE SubSeq(s, k, k + m - 1) = p <=> MatchAt(s, p, k)
        <4>1. k \in Nat /\ 1 <= k /\ k + m <= n + 1
          OBVIOUS
        <4>. QED
          BY <1>1, <4>1, MatchIsSubSeq
      <3>. QED
        BY <3>1
    <2>. QED
      BY <1>1, <2>1, <2>2 DEF Str!Matches
  <1>3. CASE Str!Matches(s, p, from) = {}
    <2>1. Str!Find(s, p, from) = 0
      BY <1>3 DEF Str!Find
    <2>. QED
      BY <1>1, <1>2, <1>3, <2>1
  <1>4. CASE Str!Matches(s, p, from) # {}
    <2>1. PICK pos : pos = Str!Min(Str!Matches(s, p, from))
      OBVIOUS
    <2>2. Str!Matches(s, p, from) \in SUBSET Nat
      BY <1>2
    <2>3. pos \in Str!Matches(s, p, from) /\ \A k \in Str!Matches(s, p, from) : pos <= k
      BY <1>4, <2>1, <2>2, LeastNatural
    <2>4. Str!Find(s, p, from) = pos
      BY <1>4, <2>1 DEF Str!Find
    <2>5. pos \in Nat /\ from <= pos /\ pos + m <= n + 1 /\ MatchAt(s, p, pos) /\ pos # 0
      BY <1>2, <2>3
    <2>6. ASSUME NEW k \in Nat, from <= k, k < pos PROVE ~MatchAt(s, p, k)
      <3>1. k + m <= n + 1 /\ ~(pos <= k)
        BY <2>5, <2>6
      <3>. QED
        BY <1>2, <2>3, <2>6, <3>1
    <2>. QED
      BY <1>1, <2>4, <2>5, <2>6
  <1>. QED
    BY <1>3, <1>4

\* The position found is determined by that.
LEMMA FindIs ==
    ASSUME NEW C, NEW s \in Seq(C), NEW p \in Seq(C), NEW from \in Nat, 1 <= from,
           NEW pos \in Nat, from <= pos, pos + Len(p) <= Len(s) + 1, MatchAt(s, p, pos),
           \A k \in Nat : from <= k /\ k < pos => ~MatchAt(s, p, k)
    PROVE  Str!Find(s, p, from) = pos
  <1>1. PICK f : f = Str!Find(s, p, from)
    OBVIOUS
  <1>2. f \in Nat /\ f # 0 /\ from <= f /\ ~(pos < f)
    BY <1>1, FindFacts
  <1>3. MatchAt(s, p, f)
    BY <1>1, <1>2, FindFacts
  <1>4. ~(f < pos)
    BY <1>2, <1>3
  <1>. QED
    BY <1>1, <1>2, <1>4

\* There is nothing to find.
LEMMA FindNone ==
    ASSUME NEW C, NEW s \in Seq(C), NEW p \in Seq(C), NEW from \in Nat, 1 <= from,
           \A k \in Nat : from <= k /\ k + Len(p) <= Len(s) + 1 => ~MatchAt(s, p, k)
    PROVE  Str!Find(s, p, from) = 0
  BY FindFacts

-----------------------------------------------------------------------------
(* Strings: what its recursive functions return.                           *)

\* The equation that the pieces of string_split satisfy from every position on.
LEMMA PiecesFromFacts ==
    ASSUME NEW C, NEW s \in Seq(C), NEW p \in Seq(C), p # <<>>
    PROVE  /\ Str!PiecesFrom(s, p) \in [1 .. Len(s) + 1 -> Seq(Seq(C))]
           /\ \A i \in 1 .. Len(s) + 1 : Str!PiecesFrom(s, p)[i] =
                 IF i > Len(s) THEN <<>>
                 ELSE IF Str!Find(s, p, i) = 0 THEN <<SubSeq(s, i, Len(s))>>
                      ELSE <<SubSeq(s, i, Str!Find(s, p, i) - 1)>> \o Str!PiecesFrom(s, p)[Str!Find(s, p, i) + Len(p)]
  <1>1. PICK n \in Nat, m \in Nat : n = Len(s) /\ m = Len(p)
    BY LenProperties
  <1>2. m > 0
    BY <1>1, EmptySeq
  <1>. DEFINE D == 1 .. n + 1
              V == Seq(Seq(C))
              stop == {i \in D : i > n \/ Str!Find(s, p, i) = 0}
              base == [i \in D |-> IF i > n THEN <<>> ELSE <<SubSeq(s, i, n)>>]
              next == [i \in D |-> Str!Find(s, p, i) + m]
              step == [i \in D |-> [v \in V |-> <<SubSeq(s, i, Str!Find(s, p, i) - 1)>> \o v]]
              rank == [i \in D |-> n + 1 - i]
              Eq(f) == f = [i \in 1 .. Len(s) + 1 |->
                             IF i > Len(s) THEN <<>>
                             ELSE LET pos == Str!Find(s, p, i)
                                  IN  IF pos = 0 THEN <<SubSeq(s, i, Len(s))>>
                                      ELSE <<SubSeq(s, i, pos - 1)>> \o f[pos + Len(p)]]
  <1>3. ASSUME NEW i \in D PROVE i \in Nat /\ 1 <= i /\ i <= n + 1
    OBVIOUS
  <1>4. ASSUME NEW i \in D, i \notin stop
        PROVE  /\ i <= n /\ Str!Find(s, p, i) \in Nat /\ i <= Str!Find(s, p, i) /\ Str!Find(s, p, i) + m <= n + 1
               /\ next[i] \in D /\ rank[next[i]] < rank[i]
               /\ SubSeq(s, i, Str!Find(s, p, i) - 1) \in Seq(C)
    <2>1. i <= n /\ Str!Find(s, p, i) # 0
      BY <1>3, <1>4
    <2>2. PICK pos \in Nat : pos = Str!Find(s, p, i) /\ i <= pos /\ pos + m <= n + 1
      BY <1>1, <1>3, <2>1, FindFacts
    <2>3. next[i] = pos + m /\ pos + m \in D /\ n + 1 - (pos + m) < n + 1 - i
      BY <1>2, <1>3, <2>2
    <2>4. rank[pos + m] < rank[i]
      BY <2>3
    <2>5. SubSeq(s, i, pos - 1) \in Seq(C)
      <3>1. pos - 1 \in Nat /\ i <= (pos - 1) + 1 /\ pos - 1 <= n
        BY <1>3, <2>2
      <3>. QED
        BY <1>1, <1>3, <3>1, Cut
    <2>. HIDE DEF next, rank
    <2>. QED
      BY <2>1, <2>2, <2>3, <2>4, <2>5
  <1>5. \A k \in D : rank[k] \in Nat /\ rank[k] < n + 2
    OBVIOUS
  <1>6. \A k \in D \ stop : next[k] \in D /\ rank[next[k]] < rank[k]
    <2>. HIDE DEF D, next, rank, stop
    <2>. QED
      BY <1>4
  <1>7. ASSUME NEW i \in D PROVE base[i] \in V
    <2>1. CASE i > n
      BY <2>1
    <2>2. CASE ~(i > n)
      <3>1. i \in Nat /\ 1 <= i /\ i <= n + 1
        BY <1>3
      <3>2. SubSeq(s, i, n) \in Seq(C)
        BY <1>1, <3>1, Cut
      <3>. QED
        BY <2>2, <3>2
    <2>. QED
      BY <2>1, <2>2
  <1>8. ASSUME NEW i \in D, i \notin stop, NEW v \in V PROVE step[i][v] \in V
    <2>1. PICK x \in Seq(C) : x = SubSeq(s, i, Str!Find(s, p, i) - 1)
      BY <1>4, <1>8
    <2>2. <<x>> \in Seq(Seq(C))
      OBVIOUS
    <2>3. <<x>> \o v \in V
      <3>1. v \in Seq(Seq(C))
        OBVIOUS
      <3>. QED
        BY <2>2, <3>1, ConcatProperties
    <2>4. step[i][v] = <<x>> \o v
      BY <2>1
    <2>. HIDE DEF step
    <2>. QED
      BY <2>3, <2>4
  <1>9. \A k \in D \ stop : \A v \in V : step[k][v] \in V
    <2>. HIDE DEF stop, step, V, D
    <2>. QED
      BY <1>8
  <1>10. PICK F \in [D -> V] : \A k \in D : F[k] = IF k \in stop THEN base[k] ELSE step[k][F[next[k]]]
    <2>1. n + 2 \in Nat
      OBVIOUS
    <2>2. \A k \in D : base[k] \in V
      <3>. HIDE DEF D, V, base
      <3>. QED
        BY <1>7
    <2>. HIDE DEF D, V, stop, base, next, step, rank
    <2>3. Descends(D, V, stop, next, base, step, rank, n + 2)
      BY <1>5, <1>6, <1>9, <2>1, <2>2 DEF Descends
    <2>. QED
      BY <2>3, Recursion
  <1>11. ASSUME NEW k \in D
         PROVE  F[k] = IF k > n THEN <<>>
                       ELSE IF Str!Find(s, p, k) = 0 THEN <<SubSeq(s, k, n)>>
                       ELSE <<SubSeq(s, k, Str!Find(s, p, k) - 1)>> \o F[Str!Find(s, p, k) + m]
    <2>1. CASE k \in stop
      <3>1. F[k] = base[k] /\ (k > n \/ Str!Find(s, p, k) = 0)
        BY <1>10, <2>1
      <3>. QED
        BY <3>1
    <2>2. CASE k \notin stop
      <3>1. F[k] = step[k][F[next[k]]]
        <4>. HIDE DEF step, next, stop
        <4>. QED
          BY <1>10, <2>2
      <3>2. F[next[k]] \in V
        <4>1. next[k] \in D
          BY <1>4, <2>2
        <4>. HIDE DEF next, V, D
        <4>. QED
          BY <1>10, <4>1
      <3>3. step[k][F[next[k]]] = <<SubSeq(s, k, Str!Find(s, p, k) - 1)>> \o F[next[k]]
        <4>. HIDE DEF next, V, D
        <4>. QED
          BY <3>2
      <3>4. next[k] = Str!Find(s, p, k) + m /\ ~(k > n) /\ Str!Find(s, p, k) # 0
        BY <2>2
      <3>. HIDE DEF next, step
      <3>. QED
        BY <3>1, <3>3, <3>4
    <2>. QED
      BY <2>1, <2>2
  <1>12. Eq(F)
    BY <1>1, <1>10, <1>11
  <1>13. Eq(Str!PiecesFrom(s, p))
    <2>1. Str!PiecesFrom(s, p) = CHOOSE f : Eq(f)
      BY DEF Str!PiecesFrom
    <2>. HIDE DEF Eq
    <2>. QED
      BY <1>12, <2>1
  <1>14. \A k \in D : Str!PiecesFrom(s, p)[k] = F[k]
    <2>1. PICK G : G = Str!PiecesFrom(s, p)
      OBVIOUS
    <2>2. Eq(G)
      <3>. HIDE DEF Eq
      <3>. QED
        BY <1>13, <2>1
    <2>3. ASSUME NEW k \in D, k \in stop PROVE G[k] = F[k]
      BY <1>1, <1>11, <2>2, <2>3
    <2>4. ASSUME NEW k \in D, k \notin stop, F[next[k]] = G[next[k]] PROVE F[k] = G[k]
      <3>1. ~(k > n) /\ Str!Find(s, p, k) # 0 /\ next[k] = Str!Find(s, p, k) + m
        BY <2>4
      <3>2. F[k] = <<SubSeq(s, k, Str!Find(s, p, k) - 1)>> \o F[Str!Find(s, p, k) + m]
        BY <1>11, <3>1
      <3>3. G[k] = <<SubSeq(s, k, Str!Find(s, p, k) - 1)>> \o G[Str!Find(s, p, k) + m]
        BY <1>1, <2>2, <3>1
      <3>. HIDE DEF next
      <3>. QED
        BY <2>4, <3>1, <3>2, <3>3
    <2>5. \A k \in D : rank[k] \in Nat
      BY <1>5
    <2>6. \A k \in D : F[k] = G[k] \/ (next[k] \in D /\ rank[next[k]] < rank[k] /\ F[next[k]] # G[next[k]])
      <3>. HIDE DEF D, next, rank, stop
      <3>. QED
        BY <1>6, <2>3, <2>4
    <2>. HIDE DEF D, next, rank
    <2>7. \A k \in D : F[k] = G[k]
      <3>1. DifferBelow(D, next, rank, F, G)
        BY <2>5, <2>6 DEF DifferBelow
      <3>. QED
        BY <3>1, Agreement
    <2>. QED
      BY <2>1, <2>7
  <1>15. Str!PiecesFrom(s, p) = F
    <2>1. DOMAIN Str!PiecesFrom(s, p) = D /\ Str!PiecesFrom(s, p) = [k \in D |-> Str!PiecesFrom(s, p)[k]]
      BY <1>1, <1>13
    <2>2. F = [k \in D |-> F[k]]
      OBVIOUS
    <2>. HIDE DEF D
    <2>. QED
      BY <1>14, <2>1, <2>2
  <1>. QED
    BY <1>1, <1>10, <1>11, <1>15

\* The equation of the text with each match replaced once.
LEMMA OnePassFacts ==
    ASSUME NEW C, NEW s \in Seq(C), NEW p \in Seq(C), NEW w \in Seq(C), p # <<>>
    PROVE  /\ Str!OnePass(s, p, w) \in [1 .. Len(s) + 1 -> Seq(C)]
           /\ \A i \in 1 .. Len(s) + 1 : Str!OnePass(s, p, w)[i] =
                 IF Str!Find(s, p, i) = 0 THEN SubSeq(s, i, Len(s))
                 ELSE SubSeq(s, i, Str!Find(s, p, i) - 1) \o w \o Str!OnePass(s, p, w)[Str!Find(s, p, i) + Len(p)]
  <1>1. PICK n \in Nat, m \in Nat : n = Len(s) /\ m = Len(p)
    BY LenProperties
  <1>2. m > 0
    BY <1>1, EmptySeq
  <1>. DEFINE D == 1 .. n + 1
              V == Seq(C)
              stop == {i \in D : Str!Find(s, p, i) = 0}
              base == [i \in D |-> SubSeq(s, i, n)]
              next == [i \in D |-> Str!Find(s, p, i) + m]
              step == [i \in D |-> [v \in V |-> SubSeq(s, i, Str!Find(s, p, i) - 1) \o w \o v]]
              rank == [i \in D |-> n + 1 - i]
              Eq(f) == f = [k \in 1 .. Len(s) + 1 |->
                             LET pos == Str!Find(s, p, k)
                             IN  IF pos = 0 THEN SubSeq(s, k, Len(s))
                                 ELSE SubSeq(s, k, pos - 1) \o w \o f[pos + Len(p)]]
  <1>3. ASSUME NEW i \in D PROVE i \in Nat /\ 1 <= i /\ i <= n + 1
    OBVIOUS
  <1>4. ASSUME NEW i \in D, i \notin stop
        PROVE  /\ Str!Find(s, p, i) \in Nat /\ i <= Str!Find(s, p, i) /\ Str!Find(s, p, i) + m <= n + 1
               /\ next[i] \in D /\ rank[next[i]] < rank[i]
               /\ SubSeq(s, i, Str!Find(s, p, i) - 1) \in Seq(C)
    <2>1. Str!Find(s, p, i) # 0
      BY <1>3, <1>4
    <2>2. PICK pos \in Nat : pos = Str!Find(s, p, i) /\ i <= pos /\ pos + m <= n + 1
      BY <1>1, <1>3, <2>1, FindFacts
    <2>3. next[i] = pos + m /\ pos + m \in D /\ n + 1 - (pos + m) < n + 1 - i
      BY <1>2, <1>3, <2>2
    <2>4. rank[pos + m] < rank[i]
      BY <2>3
    <2>5. SubSeq(s, i, pos - 1) \in Seq(C)
      <3>1. pos - 1 \in Nat /\ i <= (pos - 1) + 1 /\ pos - 1 <= n
        BY <1>3, <2>2
      <3>. QED
        BY <1>1, <1>3, <3>1, Cut
    <2>. HIDE DEF next, rank
    <2>. QED
      BY <2>1, <2>2, <2>3, <2>4, <2>5
  <1>5. \A k \in D : rank[k] \in Nat /\ rank[k] < n + 2
    OBVIOUS
  <1>6. \A k \in D \ stop : next[k] \in D /\ rank[next[k]] < rank[k]
    <2>. HIDE DEF D, next, rank, stop
    <2>. QED
      BY <1>4
  <1>7. ASSUME NEW i \in D PROVE base[i] \in V
    <2>1. i \in Nat /\ 1 <= i /\ i <= n + 1
      BY <1>3
    <2>2. SubSeq(s, i, n) \in Seq(C)
      BY <1>1, <2>1, Cut
    <2>. QED
      BY <2>2
  <1>8. ASSUME NEW i \in D, i \notin stop, NEW v \in V PROVE step[i][v] \in V
    <2>1. PICK x \in Seq(C) : x = SubSeq(s, i, Str!Find(s, p, i) - 1)
      BY <1>4, <1>8
    <2>2. x \o w \in Seq(C)
      BY ConcatProperties
    <2>3. x \o w \o v \in V
      BY <2>2, ConcatProperties
    <2>4. step[i][v] = x \o w \o v
      BY <2>1
    <2>. HIDE DEF step
    <2>. QED
      BY <2>3, <2>4
  <1>9. \A k \in D \ stop : \A v \in V : step[k][v] \in V
    <2>. HIDE DEF stop, step, V, D
    <2>. QED
      BY <1>8
  <1>10. PICK F \in [D -> V] : \A k \in D : F[k] = IF k \in stop THEN base[k] ELSE step[k][F[next[k]]]
    <2>1. n + 2 \in Nat
      OBVIOUS
    <2>2. \A k \in D : base[k] \in V
      <3>. HIDE DEF D, V, base
      <3>. QED
        BY <1>7
    <2>. HIDE DEF D, V, stop, base, next, step, rank
    <2>3. Descends(D, V, stop, next, base, step, rank, n + 2)
      BY <1>5, <1>6, <1>9, <2>1, <2>2 DEF Descends
    <2>. QED
      BY <2>3, Recursion
  <1>11. ASSUME NEW k \in D
         PROVE  F[k] = IF Str!Find(s, p, k) = 0 THEN SubSeq(s, k, n)
                       ELSE SubSeq(s, k, Str!Find(s, p, k) - 1) \o w \o F[Str!Find(s, p, k) + m]
    <2>1. CASE k \in stop
      <3>1. F[k] = base[k] /\ Str!Find(s, p, k) = 0
        BY <1>10, <2>1
      <3>. QED
        BY <3>1
    <2>2. CASE k \notin stop
      <3>1. F[k] = step[k][F[next[k]]]
        <4>. HIDE DEF step, next, stop
        <4>. QED
          BY <1>10, <2>2
      <3>2. F[next[k]] \in V
        <4>1. next[k] \in D
          BY <1>4, <2>2
        <4>. HIDE DEF next, V, D
        <4>. QED
          BY <1>10, <4>1
      <3>3. step[k][F[next[k]]] = SubSeq(s, k, Str!Find(s, p, k) - 1) \o w \o F[next[k]]
        <4>. HIDE DEF next, V, D
        <4>. QED
          BY <3>2
      <3>4. next[k] = Str!Find(s, p, k) + m /\ Str!Find(s, p, k) # 0
        BY <2>2
      <3>. HIDE DEF next, step
      <3>. QED
        BY <3>1, <3>3, <3>4
    <2>. QED
      BY <2>1, <2>2
  <1>12. Eq(F)
    BY <1>1, <1>10, <1>11
  <1>13. Eq(Str!OnePass(s, p, w))
    <2>1. Str!OnePass(s, p, w) = CHOOSE f : Eq(f)
      BY DEF Str!OnePass
    <2>. HIDE DEF Eq
    <2>. QED
      BY <1>12, <2>1
  <1>14. \A k \in D : Str!OnePass(s, p, w)[k] = F[k]
    <2>1. PICK G : G = Str!OnePass(s, p, w)
      OBVIOUS
    <2>2. Eq(G)
      <3>. HIDE DEF Eq
      <3>. QED
        BY <1>13, <2>1
    <2>3. ASSUME NEW k \in D, k \in stop PROVE G[k] = F[k]
      BY <1>1, <1>11, <2>2, <2>3
    <2>4. ASSUME NEW k \in D, k \notin stop, F[next[k]] = G[next[k]] PROVE F[k] = G[k]
      <3>1. Str!Find(s, p, k) # 0 /\ next[k] = Str!Find(s, p, k) + m
        BY <2>4
      <3>2. F[k] = SubSeq(s, k, Str!Find(s, p, k) - 1) \o w \o F[Str!Find(s, p, k) + m]
        BY <1>11, <3>1
      <3>3. G[k] = SubSeq(s, k, Str!Find(s, p, k) - 1) \o w \o G[Str!Find(s, p, k) + m]
        BY <1>1, <2>2, <3>1
      <3>. HIDE DEF next
      <3>. QED
        BY <2>4, <3>1, <3>2, <3>3
    <2>5. \A k \in D : rank[k] \in Nat
      BY <1>5
    <2>6. \A k \in D : F[k] = G[k] \/ (next[k] \in D /\ rank[next[k]] < rank[k] /\ F[next[k]] # G[next[k]])
      <3>. HIDE DEF D, next, rank, stop
      <3>. QED
        BY <1>6, <2>3, <2>4
    <2>. HIDE DEF D, next, rank
    <2>7. \A k \in D : F[k] = G[k]
      <3>1. DifferBelow(D, next, rank, F, G)
        BY <2>5, <2>6 DEF DifferBelow
      <3>. QED
        BY <3>1, Agreement
    <2>. QED
      BY <2>1, <2>7
  <1>15. Str!OnePass(s, p, w) = F
    <2>1. DOMAIN Str!OnePass(s, p, w) = D /\ Str!OnePass(s, p, w) = [k \in D |-> Str!OnePass(s, p, w)[k]]
      BY <1>1, <1>13
    <2>2. F = [k \in D |-> F[k]]
      OBVIOUS
    <2>. HIDE DEF D
    <2>. QED
      BY <1>14, <2>1, <2>2
  <1>. QED
    BY <1>1, <1>10, <1>11, <1>15

\* Join adds up its sequences from the first to the last.
LEMMA JoinIs ==
    ASSUME NEW C, NEW q \in Seq(Seq(C)), NEW p \in Seq(C), q # <<>>
    PROVE  \E F \in [1 .. Len(q) -> Seq(C)] :
              /\ F[1] = q[1]
              /\ \A k \in 2 .. Len(q) : F[k] = F[k - 1] \o p \o q[k]
              /\ Str!Join(q, p) = F[Len(q)]
  <1>1. PICK n \in Nat : n = Len(q)
    BY LenProperties
  <1>2. n > 0
    BY <1>1, EmptySeq
  <1>3. \A i \in 1 .. n : q[i] \in Seq(C)
    BY <1>1, ElementOfSeq
  <1>. DEFINE D == 1 .. n
              V == Seq(C)
              stop == {1}
              base == [i \in D |-> q[1]]
              next == [i \in D |-> i - 1]
              step == [i \in D |-> [v \in V |-> v \o p \o q[i]]]
              rank == [i \in D |-> i]
              Eq(f) == f = [k \in 1 .. Len(q) |-> IF k = 1 THEN q[1] ELSE f[k - 1] \o p \o q[k]]
  <1>4. \A k \in D \ stop : next[k] \in D /\ rank[next[k]] < rank[k]
    OBVIOUS
  <1>5. PICK F \in [D -> V] : \A k \in D : F[k] = IF k \in stop THEN base[k] ELSE step[k][F[next[k]]]
    <2>1. n + 1 \in Nat
      OBVIOUS
    <2>2. \A k \in D : rank[k] \in Nat /\ rank[k] < n + 1 /\ base[k] \in V
      BY <1>2, <1>3
    <2>3. ASSUME NEW k \in D \ stop, NEW v \in V PROVE step[k][v] \in V
      <3>1. PICK x \in Seq(C) : x = q[k]
        BY <1>3
      <3>2. v \o p \in Seq(C)
        BY ConcatProperties
      <3>3. v \o p \o x \in Seq(C)
        BY <3>2, ConcatProperties
      <3>4. step[k][v] = v \o p \o x
        BY <3>1
      <3>. HIDE DEF step
      <3>. QED
        BY <3>3, <3>4
    <2>. HIDE DEF D, V, stop, base, next, step, rank
    <2>4. Descends(D, V, stop, next, base, step, rank, n + 1)
      BY <1>4, <2>1, <2>2, <2>3 DEF Descends
    <2>. QED
      BY <2>4, Recursion
  <1>6. F[1] = q[1]
    <2>1. 1 \in D /\ 1 \in stop /\ base[1] = q[1]
      BY <1>2
    <2>. HIDE DEF D, V, stop, next, base, step
    <2>. QED
      BY <1>5, <2>1
  <1>7. ASSUME NEW k \in D, k # 1 PROVE F[k] = F[k - 1] \o p \o q[k] /\ k - 1 \in D
    <2>1. k - 1 \in D /\ next[k] = k - 1 /\ k \notin stop
      BY <1>7
    <2>2. F[k] = step[k][F[k - 1]]
      <3>. HIDE DEF D, V, stop, next, base, step
      <3>. QED
        BY <1>5, <2>1
    <2>3. F[k - 1] \in V
      <3>. HIDE DEF D, V
      <3>. QED
        BY <1>5, <2>1
    <2>. QED
      BY <2>1, <2>2, <2>3
  <1>8. Eq(F)
    <2>1. F = [k \in D |-> F[k]]
      OBVIOUS
    <2>. HIDE DEF D
    <2>2. F = [k \in D |-> IF k = 1 THEN q[1] ELSE F[k - 1] \o p \o q[k]]
      BY <1>6, <1>7, <2>1
    <2>. QED
      BY <1>1, <2>2 DEF D
  <1>9. PICK u : Eq(u) /\ Str!Join(q, p) = u[n]
    <2>1. Str!Join(q, p) = (CHOOSE u : Eq(u))[n]
      BY <1>1 DEF Str!Join
    <2>. HIDE DEF Eq
    <2>. QED
      BY <1>8, <2>1
  <1>10. \A k \in D : F[k] = u[k]
    <2>1. F[1] = u[1]
      BY <1>1, <1>2, <1>6, <1>9
    <2>2. ASSUME NEW k \in D, k # 1, F[k - 1] = u[k - 1] PROVE F[k] = u[k]
      <3>1. u[k] = u[k - 1] \o p \o q[k]
        BY <1>1, <1>9, <2>2
      <3>. QED
        BY <1>7, <2>2, <3>1
    <2>3. \A k \in D : k # 1 => next[k] = k - 1
      OBVIOUS
    <2>4. \A k \in D : rank[k] \in Nat
      OBVIOUS
    <2>5. \A k \in D : F[k] = u[k] \/ (next[k] \in D /\ rank[next[k]] < rank[k] /\ F[next[k]] # u[next[k]])
      <3>1. \A k \in D : k # 1 => k \in D \ stop
        OBVIOUS
      <3>. HIDE DEF D, next, rank, stop, Eq
      <3>. QED
        BY <1>4, <2>1, <2>2, <2>3, <3>1
    <2>. HIDE DEF D, next, rank
    <2>6. DifferBelow(D, next, rank, F, u)
      BY <2>4, <2>5 DEF DifferBelow
    <2>. QED
      BY <2>6, Agreement
  <1>11. Str!Join(q, p) = F[n]
    <2>1. n \in D
      BY <1>2
    <2>. HIDE DEF D, Eq
    <2>. QED
      BY <1>9, <1>10, <2>1
  <1>12. \A k \in 2 .. n : F[k] = F[k - 1] \o p \o q[k]
    <2>1. \A k \in 2 .. n : k \in D /\ k # 1
      OBVIOUS
    <2>. HIDE DEF D
    <2>. QED
      BY <1>7, <2>1
  <1>13. F \in [1 .. n -> Seq(C)]
    OBVIOUS
  <1>. HIDE DEF D
  <1>. QED
    BY <1>1, <1>6, <1>11, <1>12, <1>13

\* One piece alone has no pattern after it.
LEMMA JoinOne ==
    ASSUME NEW C, NEW p \in Seq(C), NEW x \in Seq(C)
    PROVE  Str!Join(<<x>>, p) = x
  <1>1. PICK r \in Seq(Seq(C)) : r = <<x>> /\ r # <<>> /\ Len(r) = 1 /\ r[1] = x
    <2>1. <<x>> \in Seq(Seq(C)) /\ <<x>> # <<>> /\ Len(<<x>>) = 1 /\ <<x>>[1] = x
      OBVIOUS
    <2>. QED
      BY <2>1
  <1>2. \E F \in [1 .. Len(r) -> Seq(C)] :
           /\ F[1] = r[1]
           /\ \A k \in 2 .. Len(r) : F[k] = F[k - 1] \o p \o r[k]
           /\ Str!Join(r, p) = F[Len(r)]
    <2>1. r \in Seq(Seq(C)) /\ r # <<>>
      BY <1>1
    <2>. QED
      BY <2>1, JoinIs
  <1>3. Str!Join(r, p) = x
    BY <1>1, <1>2
  <1>. QED
    BY <1>1, <1>3

\* A piece more comes after one pattern more.
LEMMA JoinFacts ==
    ASSUME NEW C, NEW q \in Seq(Seq(C)), NEW p \in Seq(C), NEW x \in Seq(C)
    PROVE  q # <<>> => Str!Join(q, p) \in Seq(C) /\ Str!Join(Append(q, x), p) = Str!Join(q, p) \o p \o x
  <1>1. PICK n \in Nat : n = Len(q)
    BY LenProperties
  <1>2. PICK r \in Seq(Seq(C)) :
           /\ r = Append(q, x) /\ r # <<>> /\ Len(r) = n + 1 /\ r[n + 1] = x
           /\ \A i \in 1 .. n : r[i] = q[i]
    <2>1. PICK V : V = Seq(C)
      OBVIOUS
    <2>2. q \in Seq(V) /\ x \in V
      BY <2>1
    <2>3. /\ Append(q, x) \in Seq(V) /\ Append(q, x) # <<>> /\ Len(Append(q, x)) = n + 1
          /\ \A i \in 1 .. n : Append(q, x)[i] = q[i]
          /\ Append(q, x)[n + 1] = x
      BY <1>1, <2>2, AppendProperties
    <2>. QED
      BY <2>1, <2>3
  <1>3. PICK G \in [1 .. n + 1 -> Seq(C)] :
           /\ G[1] = r[1] /\ Str!Join(r, p) = G[n + 1]
           /\ \A k \in 2 .. n + 1 : G[k] = G[k - 1] \o p \o r[k]
    <2>1. \E F \in [1 .. Len(r) -> Seq(C)] :
             /\ F[1] = r[1]
             /\ \A k \in 2 .. Len(r) : F[k] = F[k - 1] \o p \o r[k]
             /\ Str!Join(r, p) = F[Len(r)]
      <3>1. r \in Seq(Seq(C)) /\ r # <<>>
        BY <1>2
      <3>. QED
        BY <3>1, JoinIs
    <2>2. Len(r) = n + 1
      BY <1>2
    <2>. QED
      BY <2>1, <2>2
  <1>5. ASSUME q # <<>> PROVE Str!Join(q, p) \in Seq(C) /\ Str!Join(r, p) = Str!Join(q, p) \o p \o x
    <2>1. n > 0
      BY <1>1, <1>5, EmptySeq
    <2>2. PICK F \in [1 .. n -> Seq(C)] :
             /\ F[1] = q[1] /\ Str!Join(q, p) = F[n]
             /\ \A k \in 2 .. n : F[k] = F[k - 1] \o p \o q[k]
      <3>1. \E F \in [1 .. Len(q) -> Seq(C)] :
               /\ F[1] = q[1]
               /\ \A k \in 2 .. Len(q) : F[k] = F[k - 1] \o p \o q[k]
               /\ Str!Join(q, p) = F[Len(q)]
        BY <1>5, JoinIs
      <3>. QED
        BY <1>1, <3>1
    <2>3. \A k \in 1 .. n : F[k] = G[k]
      <3>1. F[1] = G[1]
        BY <1>2, <1>3, <2>1, <2>2
      <3>2. ASSUME NEW k \in 1 .. n, k # 1, F[k - 1] = G[k - 1] PROVE F[k] = G[k]
        <4>1. k \in 2 .. n /\ k \in 2 .. n + 1
          BY <3>2
        <4>2. F[k] = F[k - 1] \o p \o q[k] /\ G[k] = G[k - 1] \o p \o r[k] /\ r[k] = q[k]
          BY <1>2, <1>3, <2>2, <4>1
        <4>. QED
          BY <3>2, <4>2
      <3>3. PICK D, next, rank, f, g :
               /\ D = 1 .. n /\ next = [i \in 1 .. n |-> i - 1] /\ rank = [i \in 1 .. n |-> i]
               /\ f = F /\ g = G
        OBVIOUS
      <3>4. /\ \A k \in D : rank[k] \in Nat
            /\ \A k \in D : k # 1 => next[k] = k - 1 /\ next[k] \in D /\ rank[next[k]] < rank[k]
        BY <3>3
      <3>5. DifferBelow(D, next, rank, f, g)
        BY <3>1, <3>2, <3>3, <3>4 DEF DifferBelow
      <3>6. \A k \in D : f[k] = g[k]
        BY <3>5, Agreement
      <3>. QED
        BY <3>3, <3>6
    <2>4. G[n + 1] = G[n] \o p \o x
      <3>1. n + 1 \in 2 .. n + 1 /\ (n + 1) - 1 = n
        BY <2>1
      <3>. QED
        BY <1>2, <1>3, <3>1
    <2>5. G[n] = F[n] /\ F[n] \in Seq(C)
      BY <2>1, <2>3
    <2>. QED
      BY <1>3, <2>2, <2>4, <2>5
  <1>. QED
    BY <1>2, <1>5

\* A part of s has a match only where s has one.
LEMMA NoMatchInside ==
    ASSUME NEW C, NEW s \in Seq(C), NEW p \in Seq(C), NEW a \in Nat, NEW b \in Nat,
           1 <= a, a <= b + 1, b <= Len(s),
           \A k \in Nat : a <= k /\ k + Len(p) <= b + 1 => ~MatchAt(s, p, k)
    PROVE  Str!Find(SubSeq(s, a, b), p, 1) = 0
  <1>1. PICK m \in Nat : m = Len(p)
    BY LenProperties
  <1>2. PICK x \in Seq(C) : /\ x = SubSeq(s, a, b) /\ Len(x) = b + 1 - a
                            /\ \A j \in 1 .. b + 1 - a : x[j] = s[a + j - 1]
    <2>1. /\ SubSeq(s, a, b) \in Seq(C) /\ Len(SubSeq(s, a, b)) = b + 1 - a
          /\ \A j \in 1 .. b + 1 - a : SubSeq(s, a, b)[j] = s[a + j - 1]
      BY Cut
    <2>. QED
      BY <2>1
  <1>3. ASSUME NEW k \in Nat, 1 <= k, k + Len(p) <= Len(x) + 1 PROVE ~MatchAt(x, p, k)
    <2>1. k + m <= b + 1 - a + 1
      BY <1>1, <1>2, <1>3
    <2>2. PICK h \in Nat : h = a + k - 1 /\ a <= h /\ h + m <= b + 1
      <3>1. a + k - 1 \in Nat /\ a <= a + k - 1 /\ a + k - 1 + m <= b + 1
        BY <1>3, <2>1
      <3>. QED
        BY <3>1
    <2>3. ~MatchAt(s, p, h)
      BY <1>1, <2>2
    <2>4. PICK j \in 1 .. m : s[h + j - 1] # p[j]
      BY <1>1, <2>3 DEF MatchAt
    <2>5. k + j - 1 \in 1 .. b + 1 - a /\ a + (k + j - 1) - 1 = h + j - 1
      BY <1>3, <2>1, <2>2
    <2>6. x[k + j - 1] = s[h + j - 1]
      BY <1>2, <2>5
    <2>. QED
      BY <1>1, <2>4, <2>6 DEF MatchAt
  <1>4. Str!Find(x, p, 1) = 0
    BY <1>3, FindNone
  <1>. QED
    BY <1>2, <1>4

\* The piece of an iteration.
LEMMA NextPiece ==
    ASSUME NEW C, NEW s \in Seq(C), NEW p \in Seq(C), NEW i \in 1 .. Len(s)
    PROVE  /\ Str!Find(s, p, i) = 0 =>
                 SubSeq(s, i, Len(s)) \in Seq(C) /\ Str!Find(SubSeq(s, i, Len(s)), p, 1) = 0
           /\ Str!Find(s, p, i) # 0 =>
                 /\ SubSeq(s, i, Str!Find(s, p, i) - 1) \in Seq(C)
                 /\ p # <<>> => Str!Find(SubSeq(s, i, Str!Find(s, p, i) - 1), p, 1) = 0
                 /\ SubSeq(s, i, Str!Find(s, p, i) - 1) \o p = SubSeq(s, i, Str!Find(s, p, i) + Len(p) - 1)
  <1>1. PICK n \in Nat, m \in Nat : n = Len(s) /\ m = Len(p)
    BY LenProperties
  <1>2. i \in Nat /\ 1 <= i /\ i <= n /\ i <= n + 1
    BY <1>1
  <1>3. PICK pos \in Nat : pos = Str!Find(s, p, i)
    BY <1>2, FindFacts
  <1>4. CASE pos = 0
    <2>1. SubSeq(s, i, n) \in Seq(C)
      BY <1>1, <1>2, Cut
    <2>2. \A k \in Nat : i <= k /\ k + m <= n + 1 => ~MatchAt(s, p, k)
      BY <1>1, <1>2, <1>3, <1>4, FindFacts
    <2>3. Str!Find(SubSeq(s, i, n), p, 1) = 0
      BY <1>1, <1>2, <2>2, NoMatchInside
    <2>. QED
      BY <1>1, <1>3, <1>4, <2>1, <2>3
  <1>5. CASE pos # 0
    <2>1. i <= pos /\ pos + m <= n + 1 /\ MatchAt(s, p, pos)
      BY <1>1, <1>2, <1>3, <1>5, FindFacts
    <2>2. \A k \in Nat : i <= k /\ k < pos => ~MatchAt(s, p, k)
      BY <1>1, <1>2, <1>3, <1>5, FindFacts
    <2>3. PICK b \in Nat : b = pos - 1 /\ i <= b + 1 /\ b <= n
      <3>1. pos - 1 \in Nat /\ i <= (pos - 1) + 1 /\ pos - 1 <= n
        BY <1>2, <2>1
      <3>. QED
        BY <3>1
    <2>4. SubSeq(s, i, b) \in Seq(C)
      BY <1>1, <1>2, <2>3, Cut
    <2>5. ASSUME p # <<>> PROVE Str!Find(SubSeq(s, i, b), p, 1) = 0
      <3>1. m > 0
        BY <1>1, <2>5, EmptySeq
      <3>2. \A k \in Nat : i <= k /\ k + m <= b + 1 => ~MatchAt(s, p, k)
        <4>1. \A k \in Nat : k + m <= b + 1 => k < pos
          BY <2>3, <3>1
        <4>. QED
          BY <2>2, <4>1
      <3>. QED
        BY <1>1, <1>2, <2>3, <3>2, NoMatchInside
    <2>6. SubSeq(s, i, b) \o p = SubSeq(s, i, pos + m - 1)
      <3>1. PICK e \in Nat : e = pos + m - 1 /\ b <= e /\ e <= n
        <4>1. pos + m - 1 \in Nat /\ b <= pos + m - 1 /\ pos + m - 1 <= n
          BY <1>2, <2>1, <2>3
        <4>. QED
          BY <4>1
      <3>2. SubSeq(s, pos, e) = p
        BY <1>1, <1>2, <2>1, <3>1, MatchIsSubSeq
      <3>3. i \in 1 .. n + 1 /\ b \in i - 1 .. n /\ e \in b .. n /\ b + 1 = pos
        BY <1>2, <2>3, <3>1
      <3>4. SubSeq(s, i, b) \o SubSeq(s, pos, e) = SubSeq(s, i, e)
        BY <1>1, <3>3, ConcatAdjacentSubSeq
      <3>. QED
        BY <3>1, <3>2, <3>4
    <2>. QED
      BY <1>1, <1>3, <1>5, <2>3, <2>4, <2>5, <2>6
  <1>. QED
    BY <1>4, <1>5

\* The pieces q are the text u, less the pattern at its end.
PiecesBefore(q, p, u) == q # <<>> /\ Str!Join(q, p) \o p = u

\* One piece x more.
OnePieceMore(C, q, p, u, x) ==
    p \in Seq(C) /\ q \in Seq(Seq(C)) /\ x \in Seq(C) /\ PiecesBefore(q, p, u)

\* With the piece x, put together, they are the text u and x.
PutTogether(q, p, u, x) ==
    Str!Join(Append(q, x), p) = u \o x /\ Str!Join(Append(q, x), p) \o p = u \o (x \o p)

\* The pieces put together grow by the pattern and the next piece.
LEMMA JoinNext ==
    ASSUME NEW C, NEW q, NEW p, NEW u, NEW x, OnePieceMore(C, q, p, u, x)
    PROVE  PutTogether(q, p, u, x)
  <1>1. p \in Seq(C) /\ q \in Seq(Seq(C)) /\ x \in Seq(C) /\ q # <<>> /\ Str!Join(q, p) \o p = u
    BY DEF OnePieceMore, PiecesBefore
  <1>2. PICK y \in Seq(C) : y = Str!Join(q, p) /\ Str!Join(Append(q, x), p) = y \o p \o x
    BY <1>1, JoinFacts
  <1>3. (y \o p \o x) \o p = (y \o p) \o (x \o p)
    <2>1. p \in Seq(C) /\ x \in Seq(C)
      BY <1>1
    <2>2. y \o p \in Seq(C)
      BY <2>1, ConcatProperties
    <2>. QED
      BY <2>1, <2>2, ConcatAssociative
  <1>. QED
    BY <1>1, <1>2, <1>3 DEF PutTogether

-----------------------------------------------------------------------------
(* Strings: the arguments.                                                 *)

\* The characters of a text or a query.
Chars == Str!Letters \cup Str!Symbols \cup Str!Escapes

\* A text of bounded length is a sequence.
LEMMA TextFacts ==
    ASSUME NEW C, NEW n \in Nat, NEW x \in Str!Texts(C, n)
    PROVE  x \in Seq(C) /\ Len(x) \in 0 .. n
  <1>1. PICK m \in 0 .. n : x \in [1 .. m -> C]
    BY DEF Str!Texts
  <1>2. m \in Nat
    BY <1>1
  <1>3. x \in Seq(C) /\ Len(x) = m
    BY <1>1, <1>2
  <1>. QED
    BY <1>1, <1>3

\* The arguments of the function called.
LEMMA JobFacts ==
    ASSUME job \in Str!Jobs
    PROVE  /\ job.f \in {"split", "replace", "query", "str2hex", "hex2str"}
           /\ job.f \in {"split", "replace"} =>
                 /\ job.str \in Seq(Str!Letters) /\ Len(job.str) \in 0 .. MaxText
                 /\ job.pattern \in Seq(Str!Letters) /\ Len(job.pattern) \in Nat
           /\ job.f = "replace" => job.new \in Seq(Str!Letters) /\ Len(job.new) \in Nat
           /\ job.f = "query" => job.str \in Seq(Chars) /\ job.str # <<>>
           /\ job.f \in {"str2hex", "hex2str"} => job.len \in 0 .. MaxText /\ job.size \in 0 .. MaxText
  <1>. USE StringsAssumed DEF Str!StringsAssumption
  <1>1. CASE job \in [f : {"split"}, str : Str!Texts(Str!Letters, MaxText),
                      pattern : Str!Texts(Str!Letters, MaxPattern)]
    <2>1. /\ job.f = "split" /\ job.str \in Str!Texts(Str!Letters, MaxText)
          /\ job.pattern \in Str!Texts(Str!Letters, MaxPattern)
      BY <1>1
    <2>2. job.str \in Seq(Str!Letters) /\ Len(job.str) \in 0 .. MaxText
      BY <2>1, TextFacts
    <2>3. job.pattern \in Seq(Str!Letters) /\ Len(job.pattern) \in 0 .. MaxPattern
      BY <2>1, TextFacts
    <2>. QED
      BY <2>1, <2>2, <2>3
  <1>2. CASE job \in [f : {"replace"}, str : Str!Texts(Str!Letters, MaxText),
                      pattern : Str!Texts(Str!Letters, MaxPattern),
                      new : Str!Texts(Str!Letters, MaxPattern)]
    <2>1. /\ job.f = "replace" /\ job.str \in Str!Texts(Str!Letters, MaxText)
          /\ job.pattern \in Str!Texts(Str!Letters, MaxPattern) /\ job.new \in Str!Texts(Str!Letters, MaxPattern)
      BY <1>2
    <2>2. job.str \in Seq(Str!Letters) /\ Len(job.str) \in 0 .. MaxText
      BY <2>1, TextFacts
    <2>3. job.pattern \in Seq(Str!Letters) /\ Len(job.pattern) \in 0 .. MaxPattern
      BY <2>1, TextFacts
    <2>4. job.new \in Seq(Str!Letters) /\ Len(job.new) \in 0 .. MaxPattern
      BY <2>1, TextFacts
    <2>. QED
      BY <2>1, <2>2, <2>3, <2>4
  <1>3. CASE job \in [f : {"query"},
                      str : (Str!Texts(Str!Symbols, MaxQuery) \cup Str!Texts(Str!Symbols \cup Str!Escapes, MaxText - 1)) \ {<<>>}]
    <2>1. job.f = "query" /\ job.str # <<>>
      BY <1>3
    <2>2. job.str \in Str!Texts(Str!Symbols, MaxQuery) \cup Str!Texts(Str!Symbols \cup Str!Escapes, MaxText - 1)
      BY <1>3
    <2>3. job.str \in Seq(Chars)
      <3>1. ASSUME job.str \in Str!Texts(Str!Symbols, MaxQuery) PROVE job.str \in Seq(Chars)
        <4>1. job.str \in Seq(Str!Symbols)
          BY <3>1, TextFacts
        <4>2. Str!Symbols \subseteq Chars
          BY DEF Chars
        <4>. QED
          BY <4>1, <4>2, SeqMonotonic
      <3>2. ASSUME job.str \in Str!Texts(Str!Symbols \cup Str!Escapes, MaxText - 1) PROVE job.str \in Seq(Chars)
        <4>1. job.str \in Seq(Str!Symbols \cup Str!Escapes)
          <5>1. PICK k \in 0 .. MaxText - 1 : job.str \in [1 .. k -> Str!Symbols \cup Str!Escapes]
            BY <3>2 DEF Str!Texts
          <5>2. k \in Nat
            BY <5>1
          <5>. QED
            BY <5>1, <5>2
        <4>2. Str!Symbols \cup Str!Escapes \subseteq Chars
          BY DEF Chars
        <4>. QED
          BY <4>1, <4>2, SeqMonotonic
      <3>. QED
        BY <2>2, <3>1, <3>2
    <2>. QED
      BY <2>1, <2>3
  <1>4. CASE job \in [f : {"str2hex", "hex2str"}, len : 0 .. MaxText, size : 0 .. MaxText]
    <2>1. job.f \in {"str2hex", "hex2str"} /\ job.len \in 0 .. MaxText /\ job.size \in 0 .. MaxText
      BY <1>4
    <2>. QED
      BY <2>1
  <1>. QED
    BY <1>1, <1>2, <1>3, <1>4 DEF Str!Jobs

-----------------------------------------------------------------------------
(* Strings: string_split.                                                  *)

\* Each iteration of string_split for a pattern that is not empty takes a character.
SplitEnds ==
    job.f = "split" =>
        /\ at <= Len(job.str) + 1
        /\ job.pattern # <<>> => status # "far" /\ (status = "run" => loops < at)

\* No piece has the pattern in it; the pieces are the text up to the position, less the
\* pattern before it, and what is still to come the pieces from there on.
SplitPieces ==
    job.f = "split" /\ job.pattern # <<>> =>
        /\ \A i \in DOMAIN pieces : Str!Find(pieces[i], job.pattern, 1) = 0
        /\ status = "run" =>
              /\ pieces \o Str!PiecesFrom(job.str, job.pattern)[at] = Str!PiecesOf(job.str, job.pattern)
              /\ \/ pieces = <<>> /\ at = 1
                 \/ PiecesBefore(pieces, job.pattern, SubSeq(job.str, 1, at - 1))
        /\ status = "done" /\ job.str # <<>> =>
              /\ \/ Str!Join(pieces, job.pattern) = job.str
                 \/ Str!Join(pieces, job.pattern) \o job.pattern = job.str
              /\ pieces = Str!PiecesOf(job.str, job.pattern)

\* With an empty pattern it does not get away from the first character.
SplitStays ==
    job.f = "split" /\ job.pattern = <<>> => at = 1 /\ (status = "done" => job.str = <<>>)

\* What holds of string_split at every step.
SplitInv == SplitEnds /\ SplitPieces /\ SplitStays

LEMMA SplitInvLosesOnlyTheEnd == SplitInv => Str!SplitLosesOnlyTheEnd
  BY DEF SplitInv, SplitPieces, SplitStays, Str!SplitLosesOnlyTheEnd

\* Before the first iteration of string_split.
LEMMA SplitInit == Str!Init => SplitInv
  <1>. SUFFICES ASSUME Str!Init, job.f = "split" PROVE SplitInv
    BY DEF SplitInv, SplitEnds, SplitPieces, SplitStays
  <1>1. job \in Str!Jobs /\ status = "run" /\ loops = 0 /\ at = 1 /\ pieces = <<>>
    BY DEF Str!Init
  <1>2. job.str \in Seq(Str!Letters) /\ job.pattern \in Seq(Str!Letters) /\ Len(job.str) \in Nat
    BY <1>1, JobFacts, LenProperties
  <1>3. SplitEnds
    BY <1>1, <1>2 DEF SplitEnds
  <1>4. ASSUME job.pattern # <<>>
        PROVE  pieces \o Str!PiecesFrom(job.str, job.pattern)[at] = Str!PiecesOf(job.str, job.pattern)
    <2>1. PICK V, s, p : V = Seq(Str!Letters) /\ s = job.str /\ p = job.pattern
      OBVIOUS
    <2>2. Str!PiecesFrom(s, p)[1] \in Seq(V)
      <3>1. s \in Seq(Str!Letters) /\ p \in Seq(Str!Letters) /\ p # <<>> /\ Len(s) \in Nat
        BY <1>2, <1>4, <2>1
      <3>2. Str!PiecesFrom(s, p) \in [1 .. Len(s) + 1 -> Seq(Seq(Str!Letters))]
        BY <3>1, PiecesFromFacts
      <3>3. 1 \in 1 .. Len(s) + 1
        BY <3>1
      <3>. QED
        BY <2>1, <3>2, <3>3
    <2>3. <<>> \o Str!PiecesFrom(job.str, job.pattern)[1] = Str!PiecesFrom(job.str, job.pattern)[1]
      BY <2>1, <2>2, ConcatEmptySeq
    <2>. QED
      BY <1>1, <2>3 DEF Str!PiecesOf
  <1>5. SplitPieces
    BY <1>1, <1>4 DEF SplitPieces
  <1>6. SplitStays
    BY <1>1 DEF SplitStays
  <1>. QED
    BY <1>3, <1>5, <1>6 DEF SplitInv

\* One iteration.
LEMMA SplitStep ==
    ASSUME Str!TypeOK, SplitInv, Str!Split
    PROVE  /\ SplitInv' /\ pieces' \in Seq(Seq(Chars))
           /\ at' \in 1 .. MaxText + 1 /\ status' \in {"run", "done"}
  <1>0. job.f = "split" /\ status = "run" /\ loops < MaxLoops /\ loops' = loops + 1 /\ at <= Len(job.str)
    BY DEF Str!Split, Str!GoesOn
  <1>1. UNCHANGED job
    BY DEF Str!Split
  <1>2. PICK s, p : s = job.str /\ p = job.pattern
    OBVIOUS
  <1>3. s \in Seq(Str!Letters) /\ p \in Seq(Str!Letters)
    BY <1>0, <1>2, JobFacts DEF Str!TypeOK
  <1>4. s \in Seq(Chars) /\ p \in Seq(Chars)
    <2>1. Str!Letters \subseteq Chars
      BY DEF Chars
    <2>. QED
      BY <1>3, <2>1, SeqMonotonic
  <1>5. PICK n \in Nat, m \in Nat : n = Len(s) /\ m = Len(p) /\ n <= MaxText
    <2>1. Len(s) \in Nat /\ Len(p) \in Nat /\ Len(s) <= MaxText
      BY <1>0, <1>2, JobFacts, StringsAssumed DEF Str!TypeOK, Str!StringsAssumption
    <2>. QED
      BY <2>1
  <1>6. at \in Nat /\ at > 0 /\ at <= n /\ loops \in Nat /\ at \in 1 .. Len(s) /\ at \in 1 .. Len(s) + 1
    BY <1>0, <1>2, <1>5 DEF Str!TypeOK
  <1>7. pieces \in Seq(Seq(Chars))
    BY DEF Str!TypeOK, Chars
  <1>8. PICK pos \in Nat : pos = Str!Find(s, p, at)
    BY <1>4, <1>6, FindFacts
  <1>9. PICK e \in Nat, x \in Seq(Chars) :
           /\ x = SubSeq(s, at, IF pos = 0 THEN n ELSE pos - 1)
           /\ p # <<>> => Str!Find(x, p, 1) = 0
           /\ pos = 0 => e = n /\ SubSeq(s, at, e) = x
           /\ pos # 0 => /\ pos <= n + 1 /\ e = pos + m - 1 /\ at <= pos /\ SubSeq(s, at, e) = x \o p
           /\ e <= n /\ at - 1 <= e
    <2>1. CASE pos = 0
      <3>1. SubSeq(s, at, n) \in Seq(Chars) /\ Str!Find(SubSeq(s, at, n), p, 1) = 0
        BY <1>4, <1>5, <1>6, <1>8, <2>1, NextPiece
      <3>2. n <= n /\ at - 1 <= n
        BY <1>6
      <3>. QED
        BY <2>1, <3>1, <3>2
    <2>2. CASE pos # 0
      <3>1. /\ SubSeq(s, at, pos - 1) \in Seq(Chars)
            /\ p # <<>> => Str!Find(SubSeq(s, at, pos - 1), p, 1) = 0
            /\ SubSeq(s, at, pos - 1) \o p = SubSeq(s, at, pos + m - 1)
        BY <1>4, <1>5, <1>6, <1>8, <2>2, NextPiece
      <3>2. at <= pos /\ pos + m <= n + 1
        BY <1>4, <1>5, <1>6, <1>8, <2>2, FindFacts
      <3>3. pos + m - 1 \in Nat /\ pos + m - 1 <= n /\ at - 1 <= pos + m - 1 /\ pos <= n + 1
        BY <1>6, <3>2
      <3>. QED
        BY <2>2, <3>1, <3>2, <3>3
    <2>. QED
      BY <2>1, <2>2
  <1>10. /\ pieces' = Append(pieces, x)
         /\ pos = 0 => status' = "done" /\ at' = at
         /\ pos # 0 => status' = "run" /\ at' = e + 1
    <2>1. CASE pos = 0
      BY <1>2, <1>5, <1>8, <1>9, <2>1 DEF Str!Split
    <2>2. CASE pos # 0
      <3>1. pieces' = Append(pieces, SubSeq(s, at, pos - 1)) /\ status' = status /\ at' = pos + m
        BY <1>2, <1>5, <1>8, <2>2 DEF Str!Split, Str!Resume
      <3>2. pos + m = e + 1
        BY <1>9, <2>2
      <3>. QED
        BY <1>0, <1>9, <2>2, <3>1, <3>2
    <2>. QED
      BY <2>1, <2>2
  <1>11. /\ pieces' \in Seq(Seq(Chars)) /\ pieces' # <<>> /\ Len(pieces') = Len(pieces) + 1
         /\ pieces' = pieces \o <<x>>
         /\ \A i \in 1 .. Len(pieces) : pieces'[i] = pieces[i]
         /\ pieces'[Len(pieces) + 1] = x
    <2>1. PICK V : V = Seq(Chars)
      OBVIOUS
    <2>2. pieces \in Seq(V) /\ x \in V
      BY <1>7, <2>1
    <2>3. /\ Append(pieces, x) \in Seq(V) /\ Append(pieces, x) # <<>>
          /\ Len(Append(pieces, x)) = Len(pieces) + 1
          /\ \A i \in 1 .. Len(pieces) : Append(pieces, x)[i] = pieces[i]
          /\ Append(pieces, x)[Len(pieces) + 1] = x
      BY <2>2, AppendProperties
    <2>4. Append(pieces, x) = pieces \o <<x>>
      BY <2>2, AppendIsConcat
    <2>. QED
      BY <1>10, <2>1, <2>3, <2>4
  <1>12. at' \in 1 .. MaxText + 1 /\ at' <= n + 1
    <2>1. MaxText \in Nat
      BY StringsAssumed DEF Str!StringsAssumption
    <2>. QED
      BY <1>5, <1>6, <1>9, <1>10, <2>1
  <1>13. SplitEnds'
    <2>1. p # <<>> => m > 0
      BY <1>4, <1>5, EmptySeq
    <2>2. p # <<>> /\ pos # 0 => loops' < at'
      <3>1. p # <<>> => loops < at
        BY <1>0, <1>2 DEF SplitInv, SplitEnds
      <3>2. pos # 0 => at' = pos + m /\ at <= pos
        BY <1>9, <1>10
      <3>. QED
        BY <1>0, <1>6, <2>1, <3>1, <3>2
    <2>3. status' # "far" /\ (status' = "run" => pos # 0)
      BY <1>10
    <2>. QED
      BY <1>1, <1>2, <1>5, <1>12, <2>2, <2>3 DEF SplitEnds
  <1>14. SplitPieces'
    <2>. SUFFICES ASSUME p # <<>> PROVE SplitPieces'
      BY <1>1, <1>2 DEF SplitPieces
    <2>1. \A i \in DOMAIN pieces' : Str!Find(pieces'[i], p, 1) = 0
      <3>1. PICK l \in Nat : l = Len(pieces) /\ DOMAIN pieces = 1 .. l
        BY <1>7, LenProperties
      <3>2. DOMAIN pieces' = 1 .. l + 1
        BY <1>11, <3>1, LenProperties
      <3>3. \A i \in 1 .. l : Str!Find(pieces[i], p, 1) = 0
        BY <1>0, <1>2, <3>1 DEF SplitInv, SplitPieces
      <3>4. \A i \in 1 .. l + 1 : i \in 1 .. l \/ i = l + 1
        OBVIOUS
      <3>. QED
        BY <1>9, <1>11, <3>1, <3>2, <3>3, <3>4
    <2>2. /\ pieces \o Str!PiecesFrom(s, p)[at] = Str!PiecesOf(s, p)
          /\ (pieces = <<>> /\ at = 1) \/ PiecesBefore(pieces, p, SubSeq(s, 1, at - 1))
      BY <1>0, <1>2 DEF SplitInv, SplitPieces
    <2>3. /\ SubSeq(s, at, e) = x => Str!Join(pieces', p) = SubSeq(s, 1, e)
          /\ SubSeq(s, at, e) = x \o p => Str!Join(pieces', p) \o p = SubSeq(s, 1, e)
      <3>1. at \in 1 .. Len(s) + 1 /\ e <= Len(s) /\ at - 1 <= e
        BY <1>5, <1>6, <1>9
      <3>2. CASE pieces = <<>> /\ at = 1
        <4>1. Append(pieces, x) = <<x>>
          BY <3>2
        <4>2. Str!Join(<<x>>, p) = x
          BY <1>4, JoinOne
        <4>. QED
          BY <1>10, <3>2, <4>1, <4>2
      <3>3. CASE PiecesBefore(pieces, p, SubSeq(s, 1, at - 1))
        <4>1. PICK u : u = SubSeq(s, 1, at - 1)
          OBVIOUS
        <4>2. Str!Join(Append(pieces, x), p) = u \o x /\ Str!Join(Append(pieces, x), p) \o p = u \o (x \o p)
          <5>1. OnePieceMore(Chars, pieces, p, u, x)
            BY <1>4, <1>7, <3>3, <4>1 DEF OnePieceMore
          <5>2. PutTogether(pieces, p, u, x)
            BY <5>1, JoinNext
          <5>. QED
            BY <5>2 DEF PutTogether
        <4>3. u \o SubSeq(s, at, e) = SubSeq(s, 1, e)
          <5>1. 1 \in 1 .. n + 1 /\ at - 1 \in 1 - 1 .. n /\ e \in at - 1 .. n /\ (at - 1) + 1 = at
            BY <1>5, <1>6, <1>9
          <5>. QED
            BY <1>4, <1>5, <4>1, <5>1, ConcatAdjacentSubSeq
        <4>. QED
          BY <1>10, <4>2, <4>3
      <3>. QED
        BY <2>2, <3>2, <3>3
    <2>6. /\ Str!PiecesFrom(s, p) \in [1 .. n + 1 -> Seq(Seq(Chars))]
          /\ Str!PiecesFrom(s, p)[at] =
                IF at > n THEN <<>>
                ELSE IF pos = 0 THEN <<SubSeq(s, at, n)>>
                     ELSE <<SubSeq(s, at, pos - 1)>> \o Str!PiecesFrom(s, p)[pos + m]
      <3>1. /\ Str!PiecesFrom(s, p) \in [1 .. Len(s) + 1 -> Seq(Seq(Chars))]
            /\ \A i \in 1 .. Len(s) + 1 : Str!PiecesFrom(s, p)[i] =
                  IF i > Len(s) THEN <<>>
                  ELSE IF Str!Find(s, p, i) = 0 THEN <<SubSeq(s, i, Len(s))>>
                       ELSE <<SubSeq(s, i, Str!Find(s, p, i) - 1)>> \o Str!PiecesFrom(s, p)[Str!Find(s, p, i) + Len(p)]
        BY <1>4, PiecesFromFacts
      <3>2. at \in 1 .. Len(s) + 1
        BY <1>6
      <3>. QED
        BY <1>5, <1>8, <3>1, <3>2
    <2>4. CASE pos = 0
      <3>1. Str!Join(pieces', p) = s
        BY <1>4, <1>5, <1>9, <2>3, <2>4, SubSeqFull
      <3>2. Str!PiecesFrom(s, p)[at] = <<x>>
        BY <1>6, <1>9, <2>4, <2>6
      <3>3. pieces' = Str!PiecesOf(s, p)
        BY <1>11, <2>2, <3>2
      <3>. QED
        BY <1>1, <1>2, <1>10, <2>1, <2>4, <3>1, <3>3 DEF SplitPieces
    <2>5. CASE pos # 0
      <3>1. Str!Join(pieces', p) \o p = SubSeq(s, 1, at' - 1)
        <4>1. at' - 1 = e
          BY <1>10, <2>5
        <4>. QED
          BY <1>9, <2>3, <2>5, <4>1
      <3>2. at' \in 1 .. Len(s) + 1 /\ at' = pos + m
        BY <1>5, <1>9, <1>10, <1>12, <2>5
      <3>3. Str!PiecesFrom(s, p)[at] = <<x>> \o Str!PiecesFrom(s, p)[at']
        <4>1. x = SubSeq(s, at, pos - 1) /\ ~(at > n)
          BY <1>6, <1>9, <2>5
        <4>. QED
          BY <2>5, <2>6, <3>2, <4>1
      <3>4. pieces' \o Str!PiecesFrom(s, p)[at'] = Str!PiecesOf(s, p)
        <4>1. PICK V : V = Seq(Chars)
          OBVIOUS
        <4>2. PICK y \in Seq(V) : y = Str!PiecesFrom(s, p)[at']
          BY <1>5, <2>6, <3>2, <4>1
        <4>3. <<x>> \in Seq(V) /\ pieces \in Seq(V)
          BY <1>7, <4>1
        <4>4. (pieces \o <<x>>) \o y = pieces \o (<<x>> \o y)
          BY <4>3, ConcatAssociative
        <4>. QED
          BY <1>11, <2>2, <3>3, <4>2, <4>4
      <3>. QED
        BY <1>1, <1>2, <1>10, <1>11, <2>1, <2>5, <3>1, <3>4 DEF SplitPieces, PiecesBefore
    <2>. QED
      BY <2>4, <2>5
  \* An empty pattern is found where it is looked for.
  <1>15. SplitStays'
    <2>. SUFFICES ASSUME p = <<>> PROVE SplitStays'
      BY <1>1, <1>2 DEF SplitStays
    <2>1. m = 0 /\ at = 1
      BY <1>0, <1>2, <1>5 DEF SplitInv, SplitStays
    <2>2. MatchAt(s, p, at)
      BY <1>5, <2>1 DEF MatchAt
    <2>3. Str!Find(s, p, at) = at
      <3>1. at + Len(p) <= Len(s) + 1
        BY <1>5, <1>6, <2>1
      <3>2. 1 <= at
        BY <1>6
      <3>3. /\ pos = 0 => \A k \in Nat : at <= k /\ k + Len(p) <= Len(s) + 1 => ~MatchAt(s, p, k)
            /\ pos # 0 => at <= pos /\ \A k \in Nat : at <= k /\ k < pos => ~MatchAt(s, p, k)
        BY <1>4, <1>6, <1>8, <3>2, FindFacts
      <3>4. pos # 0 /\ at <= pos /\ ~(at < pos)
        BY <1>6, <2>2, <3>1, <3>3
      <3>. QED
        BY <1>6, <1>8, <3>4
    <2>4. pos = 1
      BY <1>8, <2>1, <2>3
    <2>5. status' = "run" /\ at' = 1
      BY <1>9, <1>10, <2>1, <2>4
    <2>. QED
      BY <2>5 DEF SplitStays
  <1>. QED
    BY <1>10, <1>11, <1>12, <1>13, <1>14, <1>15 DEF SplitInv

\* The text ends with a match, or is empty.
LEMMA SplitEndStep == ASSUME Str!TypeOK, SplitInv, Str!SplitEnd PROVE SplitInv'
  <1>0. /\ job.f = "split" /\ status = "run" /\ at > Len(job.str) /\ status' = "done"
        /\ UNCHANGED <<job, at, pieces>>
    BY DEF Str!SplitEnd
  <1>1. PICK s, p : s = job.str /\ p = job.pattern
    OBVIOUS
  <1>2. s \in Seq(Str!Letters) /\ p \in Seq(Str!Letters)
    BY <1>0, <1>1, JobFacts DEF Str!TypeOK
  <1>3. PICK n \in Nat : n = Len(s)
    BY <1>2, LenProperties
  <1>4. at = n + 1
    <2>1. at \in Nat /\ at <= n + 1 /\ at > n
      BY <1>0, <1>1, <1>3, StringsAssumed DEF SplitInv, SplitEnds, Str!TypeOK, Str!StringsAssumption
    <2>. QED
      BY <2>1
  <1>5. s # <<>> => n > 0
    BY <1>2, <1>3, EmptySeq
  <1>6. ASSUME p # <<>>, s # <<>> PROVE Str!Join(pieces, p) \o p = s /\ pieces = Str!PiecesOf(s, p)
    <2>1. /\ pieces \o Str!PiecesFrom(s, p)[at] = Str!PiecesOf(s, p)
          /\ (pieces = <<>> /\ at = 1) \/ PiecesBefore(pieces, p, SubSeq(s, 1, at - 1))
      BY <1>0, <1>1, <1>6 DEF SplitInv, SplitPieces
    <2>2. at # 1 /\ at - 1 = n
      BY <1>4, <1>5, <1>6
    <2>3. Str!Join(pieces, p) \o p = s
      BY <1>2, <1>3, <2>1, <2>2, SubSeqFull DEF PiecesBefore
    <2>4. Str!PiecesFrom(s, p)[at] = <<>>
      <3>1. at \in 1 .. n + 1 /\ at > n
        BY <1>4
      <3>. QED
        BY <1>2, <1>3, <1>6, <3>1, PiecesFromFacts
    <2>5. pieces \o <<>> = pieces
      <3>1. PICK V : V = Seq(Chars)
        OBVIOUS
      <3>2. pieces \in Seq(V)
        BY <3>1 DEF Str!TypeOK, Chars
      <3>. QED
        BY <3>2, ConcatEmptySeq
    <2>. QED
      BY <2>1, <2>3, <2>4, <2>5
  <1>7. SplitPieces'
    BY <1>0, <1>1, <1>6 DEF SplitInv, SplitPieces
  <1>8. SplitStays'
    <2>1. ASSUME p = <<>> PROVE at = 1 /\ s = <<>>
      <3>1. at = 1
        BY <1>0, <1>1, <2>1 DEF SplitInv, SplitStays
      <3>. QED
        BY <1>4, <1>5, <3>1
    <2>. QED
      BY <1>0, <1>1, <2>1 DEF SplitStays
  <1>. QED
    BY <1>0, <1>7, <1>8 DEF SplitInv, SplitEnds

-----------------------------------------------------------------------------
(* Strings: replace_all replaces each match once.                          *)

\* t ends like s: s from k on is t after d.
SameRest(C, s, k, t, d) ==
    /\ s \in Seq(C) /\ t \in Seq(C) /\ k \in Nat /\ d \in Nat
    /\ 1 <= k /\ k <= Len(s) + 1 /\ d <= Len(t)
    /\ SubSeq(t, d + 1, Len(t)) = SubSeq(s, k, Len(s))

\* The r characters of t after d are those of s from k on.
Shifted(s, k, t, d, r) == \A j \in 1 .. r : t[d + j] = s[k + j - 1]

\* The characters of a common end, one by one.
LEMMA SameSuffix ==
    ASSUME NEW C, NEW s, NEW t, NEW k, NEW d, SameRest(C, s, k, t, d)
    PROVE  Len(t) - d = Len(s) + 1 - k /\ Shifted(s, k, t, d, Len(t) - d)
  <1>0. /\ s \in Seq(C) /\ t \in Seq(C) /\ k \in Nat /\ d \in Nat
        /\ 1 <= k /\ k <= Len(s) + 1 /\ d <= Len(t)
        /\ SubSeq(t, d + 1, Len(t)) = SubSeq(s, k, Len(s))
    BY DEF SameRest
  <1>1. PICK n \in Nat, l \in Nat : n = Len(s) /\ l = Len(t)
    BY <1>0, LenProperties
  <1>2. /\ Len(SubSeq(s, k, n)) = n + 1 - k
        /\ \A j \in 1 .. n + 1 - k : SubSeq(s, k, n)[j] = s[k + j - 1]
    BY <1>0, <1>1, Cut
  <1>3. /\ Len(SubSeq(t, d + 1, l)) = l + 1 - (d + 1)
        /\ \A j \in 1 .. l + 1 - (d + 1) : SubSeq(t, d + 1, l)[j] = t[(d + 1) + j - 1]
    <2>1. d + 1 \in Nat /\ 1 <= d + 1 /\ d + 1 <= l + 1 /\ l <= Len(t)
      BY <1>0, <1>1
    <2>. QED
      BY <1>0, <1>1, <2>1, Cut
  <1>4. l + 1 - (d + 1) = l - d /\ \A j \in 1 .. l - d : (d + 1) + j - 1 = d + j
    BY <1>0, <1>1
  <1>5. SubSeq(t, d + 1, l) = SubSeq(s, k, n)
    BY <1>0, <1>1
  <1>6. l - d = n + 1 - k
    BY <1>2, <1>3, <1>4, <1>5
  <1>7. \A j \in 1 .. l - d : t[d + j] = s[k + j - 1]
    BY <1>2, <1>3, <1>4, <1>5, <1>6
  <1>. QED
    BY <1>1, <1>6, <1>7 DEF Shifted

\* A match in the common end is one in both texts.
LEMMA SameMatches ==
    ASSUME NEW s, NEW t, NEW p, NEW k \in Nat, NEW d \in Nat, NEW j \in Nat, NEW m \in Nat, NEW r \in Nat,
           m = Len(p), 1 <= j, j + m <= r + 1, Shifted(s, k, t, d, r)
    PROVE  MatchAt(t, p, d + j) <=> MatchAt(s, p, k + j - 1)
  <1>1. ASSUME NEW i \in 1 .. m PROVE t[d + j + i - 1] = s[k + j - 1 + i - 1]
    <2>1. PICK h \in 1 .. r : h = j + i - 1
      <3>1. j + i - 1 \in 1 .. r
        OBVIOUS
      <3>. QED
        BY <3>1
    <2>2. d + h = d + j + i - 1 /\ k + h - 1 = k + j - 1 + i - 1
      BY <2>1
    <2>3. t[d + h] = s[k + h - 1]
      BY DEF Shifted
    <2>. QED
      BY <2>2, <2>3
  <1>. QED
    BY <1>1 DEF MatchAt

\* Three texts with their lengths, and v, which they are put together.
ThreeTexts(C, x, w, y, a, b, c) ==
    /\ x \in Seq(C) /\ w \in Seq(C) /\ y \in Seq(C)
    /\ a \in Nat /\ b \in Nat /\ c \in Nat /\ a = Len(x) /\ b = Len(w) /\ c = Len(y)

IsSpliced(C, x, w, y, v, a, b, c) ==
    /\ v \in Seq(C) /\ v = x \o w \o y /\ Len(v) = a + b + c
    /\ \A i \in 1 .. a : v[i] = x[i]
    /\ \A i \in 1 .. b : v[a + i] = w[i]
    /\ \A i \in 1 .. c : v[a + b + i] = y[i]

\* What x, w and y put together are, character by character.
LEMMA Spliced ==
    ASSUME NEW C, NEW x, NEW w, NEW y, NEW a, NEW b, NEW c, ThreeTexts(C, x, w, y, a, b, c)
    PROVE  \E v : IsSpliced(C, x, w, y, v, a, b, c)
  <1>0. /\ x \in Seq(C) /\ w \in Seq(C) /\ y \in Seq(C)
        /\ a \in Nat /\ b \in Nat /\ c \in Nat /\ a = Len(x) /\ b = Len(w) /\ c = Len(y)
    BY DEF ThreeTexts
  <1>1. PICK z \in Seq(C) : z = x \o w /\ Len(z) = a + b
    BY <1>0, ConcatProperties
  <1>2. \A i \in 1 .. a + b : z[i] = IF i <= a THEN x[i] ELSE w[i - a]
    BY <1>0, <1>1, ConcatProperties
  <1>3. PICK v \in Seq(C) : v = z \o y /\ Len(v) = a + b + c
    <2>1. z \o y \in Seq(C) /\ Len(z \o y) = Len(z) + Len(y)
      BY <1>0, <1>1, ConcatProperties
    <2>. QED
      BY <1>0, <1>1, <2>1
  <1>4. \A i \in 1 .. a + b + c : v[i] = IF i <= a + b THEN z[i] ELSE y[i - (a + b)]
    <2>1. \A i \in 1 .. Len(z) + Len(y) : (z \o y)[i] = IF i <= Len(z) THEN z[i] ELSE y[i - Len(z)]
      BY <1>0, <1>1, ConcatProperties
    <2>. QED
      BY <1>0, <1>1, <1>3, <2>1
  <1>5. ASSUME NEW i \in 1 .. a PROVE v[i] = x[i]
    <2>1. i \in 1 .. a + b + c /\ i \in 1 .. a + b /\ i <= a /\ i <= a + b
      BY <1>0
    <2>. QED
      BY <1>0, <1>2, <1>4, <2>1
  <1>6. ASSUME NEW i \in 1 .. b PROVE v[a + i] = w[i]
    <2>1. a + i \in 1 .. a + b + c /\ a + i \in 1 .. a + b /\ ~(a + i <= a) /\ a + i <= a + b /\ (a + i) - a = i
      BY <1>0
    <2>. QED
      BY <1>0, <1>2, <1>4, <2>1
  <1>7. ASSUME NEW i \in 1 .. c PROVE v[a + b + i] = y[i]
    <2>1. a + b + i \in 1 .. a + b + c /\ ~(a + b + i <= a + b) /\ (a + b + i) - (a + b) = i
      BY <1>0
    <2>. QED
      BY <1>0, <1>4, <2>1
  <1>. QED
    <2>1. IsSpliced(C, x, w, y, v, a, b, c)
      BY <1>1, <1>3, <1>5, <1>6, <1>7 DEF IsSpliced
    <2>. QED
      BY <2>1

\* Of the text t the first d characters are done, and the rest is s from k on: there is no
\* match in what is done, and it is what is replaced before k.
Replacing(C, s, p, w, t, k, d) ==
    /\ p \in Seq(C) /\ w \in Seq(C) /\ p # <<>> /\ w # <<>>
    /\ \A i \in 1 .. Len(p), j \in 1 .. Len(w) : p[i] # w[j]
    /\ SameRest(C, s, k, t, d)
    /\ SubSeq(t, 1, d) \o Str!OnePass(s, p, w)[k] = Str!OnePass(s, p, w)[1]
    /\ \A h \in Nat : 1 <= h /\ h <= d /\ h + Len(p) <= Len(t) + 1 => ~MatchAt(t, p, h)

\* Without a match it is the text with each match replaced once.
LEMMA ReplacedOnce ==
    ASSUME NEW C, NEW s, NEW p, NEW w, NEW t, NEW k, NEW d, Replacing(C, s, p, w, t, k, d),
           Str!Find(t, p, 1) = 0
    PROVE  t = Str!OnePass(s, p, w)[1]
  <1>1. /\ s \in Seq(C) /\ p \in Seq(C) /\ w \in Seq(C) /\ t \in Seq(C) /\ p # <<>>
        /\ k \in Nat /\ d \in Nat /\ 1 <= k /\ k <= Len(s) + 1 /\ d <= Len(t)
        /\ SubSeq(t, d + 1, Len(t)) = SubSeq(s, k, Len(s))
        /\ SubSeq(t, 1, d) \o Str!OnePass(s, p, w)[k] = Str!OnePass(s, p, w)[1]
    BY DEF Replacing, SameRest
  <1>2. PICK n \in Nat, l \in Nat, m \in Nat : n = Len(s) /\ l = Len(t) /\ m = Len(p)
    BY <1>1, LenProperties
  <1>3. l - d = n + 1 - k /\ Shifted(s, k, t, d, l - d)
    <2>1. Len(t) - d = Len(s) + 1 - k /\ Shifted(s, k, t, d, Len(t) - d)
      BY SameSuffix DEF Replacing
    <2>. QED
      BY <1>2, <2>1
  <1>4. PICK r \in Nat : r = l - d
    <2>1. l - d \in Nat
      BY <1>1, <1>2
    <2>. QED
      BY <2>1
  <1>5. ASSUME NEW h \in Nat, k <= h, h + m <= n + 1 PROVE ~MatchAt(s, p, h)
    <2>1. PICK j \in Nat : j = h + 1 - k /\ 1 <= j /\ j + m <= r + 1 /\ k + j - 1 = h /\ d + j + m <= l + 1
      <3>1. h + 1 - k \in Nat /\ 1 <= h + 1 - k /\ h + 1 - k + m <= r + 1 /\ k + (h + 1 - k) - 1 = h
        BY <1>1, <1>3, <1>4, <1>5
      <3>2. d + (h + 1 - k) + m <= l + 1
        BY <1>1, <1>3, <1>4, <1>5
      <3>. QED
        BY <3>1, <3>2
    <2>2. MatchAt(t, p, d + j) <=> MatchAt(s, p, k + j - 1)
      BY <1>1, <1>2, <1>3, <1>4, <2>1, SameMatches
    <2>3. ~MatchAt(t, p, d + j)
      <3>1. d + j \in Nat /\ 1 <= d + j /\ d + j + Len(p) <= Len(t) + 1
        BY <1>1, <1>2, <2>1
      <3>2. \A x \in Nat : 1 <= x /\ x + Len(p) <= Len(t) + 1 => ~MatchAt(t, p, x)
        BY <1>1, FindFacts
      <3>. QED
        BY <3>1, <3>2
    <2>. QED
      BY <2>1, <2>2, <2>3
  <1>6. Str!Find(s, p, k) = 0
    BY <1>1, <1>2, <1>5, FindNone
  <1>7. Str!OnePass(s, p, w)[k] = SubSeq(s, k, n)
    <2>1. \A i \in 1 .. Len(s) + 1 : Str!OnePass(s, p, w)[i] =
             IF Str!Find(s, p, i) = 0 THEN SubSeq(s, i, Len(s))
             ELSE SubSeq(s, i, Str!Find(s, p, i) - 1) \o w \o Str!OnePass(s, p, w)[Str!Find(s, p, i) + Len(p)]
      BY <1>1, OnePassFacts
    <2>2. k \in 1 .. n + 1
      BY <1>1, <1>2
    <2>. QED
      BY <1>2, <1>6, <2>1, <2>2
  <1>8. SubSeq(t, 1, d) \o SubSeq(t, d + 1, l) = SubSeq(t, 1, l)
    <2>1. 1 \in 1 .. l + 1 /\ d \in 1 - 1 .. l /\ l \in d .. l
      BY <1>1, <1>2
    <2>. QED
      BY <1>1, <1>2, <2>1, ConcatAdjacentSubSeq
  <1>9. SubSeq(t, 1, l) = t
    BY <1>1, <1>2, SubSeqFull
  <1>. QED
    BY <1>1, <1>2, <1>7, <1>8, <1>9

FourTexts(C, a, b, c, d) == a \in Seq(C) /\ b \in Seq(C) /\ c \in Seq(C) /\ d \in Seq(C)

SameFour(a, b, c, d) == (a \o b \o c) \o d = a \o (b \o c \o d)

\* Four texts one after the other.
LEMMA ConcatFour ==
    ASSUME NEW C, NEW a, NEW b, NEW c, NEW d, FourTexts(C, a, b, c, d)
    PROVE  SameFour(a, b, c, d)
  <1>0. a \in Seq(C) /\ b \in Seq(C) /\ c \in Seq(C) /\ d \in Seq(C)
    BY DEF FourTexts
  <1>1. PICK e \in Seq(C) : e = b \o c
    BY <1>0, ConcatProperties
  <1>2. (a \o b) \o c = a \o e
    BY <1>0, <1>1, ConcatAssociative
  <1>3. (a \o e) \o d = a \o (e \o d)
    BY <1>0, ConcatAssociative
  <1>. QED
    BY <1>1, <1>2, <1>3 DEF SameFour

\* There is a match, and f is the first.
FirstMatch(t, p, f) == f # 0 /\ f = Str!Find(t, p, 1)

\* The first match is the first one of the rest; once it is replaced, what is put in
\* belongs to what is done.
LEMMA ReplacedMore ==
    ASSUME NEW C, NEW s, NEW p, NEW w, NEW t, NEW k \in Nat, NEW d \in Nat, Replacing(C, s, p, w, t, k, d),
           NEW f \in Nat, FirstMatch(t, p, f)
    PROVE  \E k2, d2 : Replacing(C, s, p, w, SubSeq(t, 1, f - 1) \o w \o SubSeq(t, f + Len(p), Len(t)), k2, d2)
  <1>1. s \in Seq(C) /\ p \in Seq(C) /\ w \in Seq(C) /\ t \in Seq(C)
    BY DEF Replacing, SameRest
  <1>2. PICK n \in Nat, l \in Nat, m \in Nat, b \in Nat :
           n = Len(s) /\ l = Len(t) /\ m = Len(p) /\ b = Len(w)
    BY <1>1, LenProperties
  <1>3. m > 0 /\ b > 0
    <2>1. p # <<>> /\ w # <<>>
      BY DEF Replacing
    <2>. QED
      BY <1>1, <1>2, <2>1, EmptySeq
  <1>4. 1 <= k /\ k <= n + 1 /\ d <= l
    BY <1>2 DEF Replacing, SameRest
  <1>5. \A h \in Nat : 1 <= h /\ h <= d /\ h + m <= l + 1 => ~MatchAt(t, p, h)
    BY <1>2 DEF Replacing
  <1>6. PICK r \in Nat : r = l - d /\ r = n + 1 - k /\ Shifted(s, k, t, d, r)
    <2>1. Len(t) - d = Len(s) + 1 - k /\ Shifted(s, k, t, d, Len(t) - d)
      BY SameSuffix DEF Replacing
    <2>2. l - d \in Nat
      BY <1>4
    <2>. QED
      BY <1>2, <2>1, <2>2
  <1>7. 1 <= f /\ f + m <= l + 1 /\ MatchAt(t, p, f) /\ \A h \in Nat : 1 <= h /\ h < f => ~MatchAt(t, p, h)
    <2>1. /\ 1 <= f /\ f + Len(p) <= Len(t) + 1 /\ MatchAt(t, p, f)
          /\ \A h \in Nat : 1 <= h /\ h < f => ~MatchAt(t, p, h)
      <3>1. f = Str!Find(t, p, 1) /\ Str!Find(t, p, 1) # 0
        BY DEF FirstMatch
      <3>2. /\ 1 <= Str!Find(t, p, 1) /\ Str!Find(t, p, 1) + Len(p) <= Len(t) + 1 /\ MatchAt(t, p, Str!Find(t, p, 1))
            /\ \A h \in Nat : 1 <= h /\ h < Str!Find(t, p, 1) => ~MatchAt(t, p, h)
        <4>1. 1 \in Nat /\ 1 <= 1
          OBVIOUS
        <4>2. Str!Find(t, p, 1) # 0
          BY <3>1
        <4>. QED
          BY <1>1, <4>1, <4>2, FindFacts
      <3>. QED
        BY <3>1, <3>2
    <2>. QED
      BY <1>2, <2>1
  <1>8. 1 <= f /\ f + m <= l + 1
    BY <1>7
  <1>9. d < f
    BY <1>7, <1>5
  <1>10. PICK g \in Nat : g = f - d /\ 1 <= g /\ g + m <= r + 1 /\ f = d + g
    <2>1. f - d \in Nat /\ 1 <= f - d /\ f - d + m <= r + 1 /\ f = d + (f - d)
      BY <1>6, <1>8, <1>9
    <2>. QED
      BY <2>1
  <1>11. r = l - d /\ r = n + 1 - k
    BY <1>6
  <1>12. PICK pos \in Nat : pos = k + g - 1 /\ k <= pos /\ pos + m <= n + 1
    <2>1. k + g - 1 \in Nat /\ k <= k + g - 1 /\ k + g - 1 + m <= n + 1
      BY <1>4, <1>11, <1>10
    <2>. QED
      BY <2>1
  <1>13. Str!Find(s, p, k) = pos
    <2>1. MatchAt(s, p, pos)
      <3>1. MatchAt(t, p, d + g) <=> MatchAt(s, p, k + g - 1)
        BY <1>2, <1>6, <1>10, SameMatches
      <3>. QED
        BY <1>7, <1>10, <1>12, <3>1
    <2>2. ASSUME NEW h \in Nat, k <= h, h < pos PROVE ~MatchAt(s, p, h)
      <3>1. PICK j \in Nat : j = h + 1 - k /\ 1 <= j /\ j + m <= r + 1 /\ k + j - 1 = h /\ d + j < f
        <4>1. h + 1 - k \in Nat /\ 1 <= h + 1 - k
          BY <2>2
        <4>2. h + 1 - k + m <= r + 1 /\ k + (h + 1 - k) - 1 = h
          BY <1>10, <1>12, <2>2
        <4>3. d + (h + 1 - k) < f
          BY <1>10, <1>12, <2>2
        <4>. QED
          BY <4>1, <4>2, <4>3
      <3>2. ~MatchAt(t, p, d + j)
        BY <1>7, <3>1
      <3>3. MatchAt(t, p, d + j) <=> MatchAt(s, p, k + j - 1)
        BY <1>2, <1>6, <3>1, SameMatches
      <3>. QED
        BY <3>1, <3>2, <3>3
    <2>3. pos + Len(p) <= Len(s) + 1
      BY <1>2, <1>12
    <2>. QED
      BY <1>1, <1>4, <1>12, <2>1, <2>2, <2>3, FindIs
  \* The three parts of the new text.
  <1>14. PICK a \in Nat, c \in Nat : a = f - 1 /\ c = l + 1 - (f + m) /\ d <= a /\ a <= l /\ a + 1 = f
    <2>1. f - 1 \in Nat /\ l + 1 - (f + m) \in Nat /\ d <= f - 1 /\ f - 1 <= l /\ (f - 1) + 1 = f
      BY <1>8, <1>9
    <2>. QED
      BY <2>1
  <1>15. PICK x \in Seq(C) : /\ x = SubSeq(t, 1, a) /\ Len(x) = a
                             /\ \A i \in 1 .. a : x[i] = t[i]
    <2>1. /\ SubSeq(t, 1, a) \in Seq(C) /\ Len(SubSeq(t, 1, a)) = a + 1 - 1
          /\ \A j \in 1 .. a + 1 - 1 : SubSeq(t, 1, a)[j] = t[1 + j - 1]
      <3>1. 1 \in Nat /\ 1 <= 1 /\ 1 <= a + 1 /\ a <= Len(t)
        BY <1>2, <1>14
      <3>. QED
        BY <1>1, <3>1, Cut
    <2>2. a + 1 - 1 = a /\ \A j \in 1 .. a : 1 + j - 1 = j
      OBVIOUS
    <2>. QED
      BY <2>1, <2>2
  <1>16. PICK y \in Seq(C) : /\ y = SubSeq(t, f + m, l) /\ Len(y) = c
                             /\ \A i \in 1 .. c : y[i] = t[f + m + i - 1]
    <2>1. f + m \in Nat /\ 1 <= f + m /\ f + m <= l + 1
      BY <1>8
    <2>2. /\ SubSeq(t, f + m, l) \in Seq(C) /\ Len(SubSeq(t, f + m, l)) = l + 1 - (f + m)
          /\ \A j \in 1 .. l + 1 - (f + m) : SubSeq(t, f + m, l)[j] = t[f + m + j - 1]
      <3>1. l <= Len(t)
        BY <1>2
      <3>. QED
        BY <1>1, <2>1, <3>1, Cut
    <2>. QED
      BY <1>14, <2>2
  <1>17. PICK v \in Seq(C) :
            /\ v = x \o w \o y /\ Len(v) = a + b + c
            /\ \A i \in 1 .. a : v[i] = x[i]
            /\ \A i \in 1 .. b : v[a + i] = w[i]
            /\ \A i \in 1 .. c : v[a + b + i] = y[i]
    <2>1. ThreeTexts(C, x, w, y, a, b, c)
      BY <1>1, <1>2, <1>15, <1>16 DEF ThreeTexts
    <2>2. PICK v0 : IsSpliced(C, x, w, y, v0, a, b, c)
      BY <2>1, Spliced, Zenon
    <2>. QED
      BY <2>2 DEF IsSpliced
  <1>18. v = SubSeq(t, 1, f - 1) \o w \o SubSeq(t, f + Len(p), Len(t))
    BY <1>2, <1>14, <1>15, <1>16, <1>17
  <1>19. PICK d2 \in Nat, k2 \in Nat : d2 = a + b /\ k2 = pos + m /\ 1 <= k2 /\ k2 <= n + 1 /\ d2 <= a + b + c
    <2>1. a + b \in Nat /\ pos + m \in Nat /\ 1 <= pos + m /\ pos + m <= n + 1 /\ a + b <= a + b + c
      BY <1>3, <1>12
    <2>. QED
      BY <2>1
  <1>20. SameRest(C, s, k2, v, d2)
    <2>1. c = n + 1 - k2
      BY <1>11, <1>10, <1>12, <1>14, <1>19
    <2>2. /\ SubSeq(s, k2, n) \in Seq(C) /\ Len(SubSeq(s, k2, n)) = n + 1 - k2
          /\ \A i \in 1 .. n + 1 - k2 : SubSeq(s, k2, n)[i] = s[k2 + i - 1]
      <3>1. n <= Len(s)
        BY <1>2
      <3>. QED
        BY <1>1, <1>19, <3>1, Cut
    <2>3. PICK e \in Nat, h \in Nat : e = d2 + 1 /\ h = a + b + c /\ 1 <= e /\ e <= h + 1 /\ h + 1 - e = c
      <3>1. d2 + 1 \in Nat /\ a + b + c \in Nat /\ 1 <= d2 + 1 /\ d2 + 1 <= (a + b + c) + 1
            /\ (a + b + c) + 1 - (d2 + 1) = c
        BY <1>19
      <3>. QED
        BY <3>1
    <2>4. /\ SubSeq(v, e, h) \in Seq(C) /\ Len(SubSeq(v, e, h)) = h + 1 - e
          /\ \A i \in 1 .. h + 1 - e : SubSeq(v, e, h)[i] = v[e + i - 1]
      <3>1. h <= Len(v)
        BY <1>17, <2>3
      <3>. QED
        BY <2>3, <3>1, Cut
    <2>5. ASSUME NEW i \in 1 .. c PROVE v[e + i - 1] = s[k2 + i - 1]
      <3>1. v[a + b + i] = t[f + m + i - 1]
        BY <1>16, <1>17
      <3>2. PICK j \in 1 .. r : j = g + m + i - 1
        <4>1. g + m + i - 1 \in 1 .. r
          BY <1>11, <1>10, <1>14
        <4>. QED
          BY <4>1
      <3>3. t[d + j] = s[k + j - 1]
        BY <1>6 DEF Shifted
      <3>4. d + j = f + m + i - 1 /\ k + j - 1 = k2 + i - 1 /\ e + i - 1 = a + b + i
        BY <1>10, <1>12, <1>19, <2>3, <3>2
      <3>. QED
        BY <3>1, <3>3, <3>4
    <2>6. SubSeq(v, e, h) = SubSeq(s, k2, n)
      <3>1. PICK vv \in Seq(C) : vv = SubSeq(v, e, h) /\ Len(vv) = c /\ \A i \in 1 .. c : vv[i] = v[e + i - 1]
        BY <2>3, <2>4
      <3>2. PICK ss \in Seq(C) : ss = SubSeq(s, k2, n) /\ Len(ss) = c /\ \A i \in 1 .. c : ss[i] = s[k2 + i - 1]
        BY <2>1, <2>2
      <3>3. \A i \in 1 .. c : vv[i] = ss[i]
        BY <2>5, <3>1, <3>2
      <3>4. vv = ss
        BY <3>1, <3>2, <3>3, SeqEqual
      <3>. QED
        BY <3>1, <3>2, <3>4
    <2>. QED
      BY <1>1, <1>2, <1>17, <1>19, <2>3, <2>6 DEF SameRest
  <1>21. SubSeq(v, 1, d2) \o Str!OnePass(s, p, w)[k2] = Str!OnePass(s, p, w)[1]
    <2>1. SubSeq(v, 1, d2) = x \o w
      <3>1. PICK z \in Seq(C) : z = x \o w /\ Len(z) = d2 /\ v = z \o y
        <4>1. x \o w \in Seq(C) /\ Len(x \o w) = Len(x) + Len(w)
          BY <1>1, ConcatProperties
        <4>. QED
          BY <1>2, <1>15, <1>17, <1>19, <4>1
      <3>2. 1 \in 1 .. Len(z) /\ d2 \in 1 .. Len(z)
        BY <1>3, <1>19, <3>1
      <3>3. SubSeq(z \o y, 1, d2) = SubSeq(z, 1, d2)
        BY <3>2, SubSeqOfConcat1
      <3>4. SubSeq(z, 1, d2) = z
        BY <3>1, SubSeqFull
      <3>. QED
        BY <3>1, <3>3, <3>4
    <2>2. PICK u \in Seq(C) : u = SubSeq(t, 1, d)
      <3>1. 1 \in Nat /\ 1 <= 1 /\ 1 <= d + 1 /\ d <= Len(t)
        BY <1>2, <1>4
      <3>2. SubSeq(t, 1, d) \in Seq(C)
        BY <1>1, <3>1, Cut
      <3>. QED
        BY <3>2
    <2>3. PICK q \in Seq(C) : q = SubSeq(s, k, pos - 1) /\ x = u \o q
      <3>1. SubSeq(t, 1, d) \o SubSeq(t, d + 1, a) = SubSeq(t, 1, a)
        <4>1. 1 \in 1 .. l + 1 /\ d \in 1 - 1 .. l /\ a \in d .. l
          BY <1>4, <1>14
        <4>. QED
          BY <1>1, <1>2, <4>1, ConcatAdjacentSubSeq
      <3>2. PICK i0 \in Nat, j0 \in Nat : i0 = d + 1 /\ j0 = pos - 1 /\ 1 <= i0 /\ i0 <= a + 1 /\ k <= j0 + 1
                                         /\ j0 <= n /\ a + 1 - i0 = g - 1 /\ j0 + 1 - k = g - 1
        <4>1. d + 1 \in Nat /\ 1 <= d + 1 /\ d + 1 <= a + 1 /\ a + 1 - (d + 1) = g - 1
          BY <1>10, <1>14
        <4>2. pos - 1 \in Nat /\ k <= (pos - 1) + 1 /\ pos - 1 <= n /\ (pos - 1) + 1 - k = g - 1
          BY <1>4, <1>10, <1>12
        <4>. QED
          BY <4>1, <4>2
      <3>3. /\ SubSeq(t, i0, a) \in Seq(C) /\ Len(SubSeq(t, i0, a)) = a + 1 - i0
            /\ \A i \in 1 .. a + 1 - i0 : SubSeq(t, i0, a)[i] = t[i0 + i - 1]
        <4>1. a <= Len(t)
          BY <1>2, <1>14
        <4>. QED
          BY <1>1, <3>2, <4>1, Cut
      <3>4. /\ SubSeq(s, k, j0) \in Seq(C) /\ Len(SubSeq(s, k, j0)) = j0 + 1 - k
            /\ \A i \in 1 .. j0 + 1 - k : SubSeq(s, k, j0)[i] = s[k + i - 1]
        <4>1. j0 <= Len(s) /\ 1 <= k /\ k <= j0 + 1 /\ k \in Nat /\ j0 \in Nat
          BY <1>2, <1>4, <3>2
        <4>2. s \in Seq(C)
          BY <1>1
        <4>. QED
          BY <4>1, <4>2, Cut, SMTT(40)
      <3>5. ASSUME NEW i \in 1 .. g - 1 PROVE t[i0 + i - 1] = s[k + i - 1]
        <4>1. i \in 1 .. r /\ i0 + i - 1 = d + i
          BY <1>3, <1>10, <3>2
        <4>. QED
          BY <1>6, <4>1 DEF Shifted
      <3>6. PICK tt \in Seq(C) : /\ tt = SubSeq(t, i0, a) /\ Len(tt) = g - 1
                                /\ \A i \in 1 .. g - 1 : tt[i] = t[i0 + i - 1]
        BY <3>2, <3>3
      <3>7. PICK ss \in Seq(C) : /\ ss = SubSeq(s, k, j0) /\ Len(ss) = g - 1
                                /\ \A i \in 1 .. g - 1 : ss[i] = s[k + i - 1]
        BY <3>2, <3>4
      <3>8. \A i \in 1 .. g - 1 : tt[i] = ss[i]
        BY <3>5, <3>6, <3>7
      <3>9. tt = ss
        BY <3>6, <3>7, <3>8, SeqEqual
      <3>. QED
        BY <1>15, <2>2, <3>1, <3>2, <3>6, <3>7, <3>9
    <2>4. PICK z \in Seq(C) : z = Str!OnePass(s, p, w)[k2] /\ Str!OnePass(s, p, w)[k] = q \o w \o z
      <3>1. /\ Str!OnePass(s, p, w) \in [1 .. Len(s) + 1 -> Seq(C)]
            /\ \A i \in 1 .. Len(s) + 1 : Str!OnePass(s, p, w)[i] =
                  IF Str!Find(s, p, i) = 0 THEN SubSeq(s, i, Len(s))
                  ELSE SubSeq(s, i, Str!Find(s, p, i) - 1) \o w \o Str!OnePass(s, p, w)[Str!Find(s, p, i) + Len(p)]
        <4>1. p # <<>>
          BY DEF Replacing
        <4>. QED
          BY <1>1, <4>1, OnePassFacts
      <3>2. k \in 1 .. Len(s) + 1 /\ k2 \in 1 .. Len(s) + 1 /\ pos # 0
        BY <1>2, <1>4, <1>12, <1>19
      <3>. QED
        BY <1>2, <1>13, <1>19, <2>3, <3>1, <3>2
    <2>5. (u \o q \o w) \o z = u \o (q \o w \o z)
      <3>1. FourTexts(C, u, q, w, z)
        BY <1>1 DEF FourTexts
      <3>2. SameFour(u, q, w, z)
        BY <3>1, ConcatFour, Zenon
      <3>. QED
        BY <3>2 DEF SameFour
    <2>6. SubSeq(t, 1, d) \o Str!OnePass(s, p, w)[k] = Str!OnePass(s, p, w)[1]
      BY DEF Replacing
    <2>. QED
      BY <2>1, <2>2, <2>3, <2>4, <2>5, <2>6
  \* A match in what is done would have a letter of the replacement or lie before the first one.
  <1>22. ASSUME NEW h \in Nat, 1 <= h, h <= d2, h + m <= a + b + c + 1, MatchAt(v, p, h) PROVE FALSE
    <2>1. \A i \in 1 .. m : v[h + i - 1] = p[i]
      BY <1>2, <1>22 DEF MatchAt
    <2>2. CASE h + m <= f
      <3>1. ASSUME NEW i \in 1 .. m PROVE t[h + i - 1] = p[i]
        <4>1. h + i - 1 \in 1 .. a
          BY <1>14, <1>22, <2>2
        <4>2. v[h + i - 1] = t[h + i - 1]
          BY <1>15, <1>17, <4>1
        <4>. QED
          BY <2>1, <4>2
      <3>2. MatchAt(t, p, h)
        BY <1>2, <3>1 DEF MatchAt
      <3>3. h < f
        BY <1>3, <2>2
      <3>. QED
        BY <1>7, <1>22, <3>2, <3>3
    <2>3. CASE ~(h + m <= f)
      <3>1. PICK z \in Nat : h <= z /\ f <= z /\ z <= h + m - 1 /\ z <= a + b
        <4>1. CASE h <= f
          <5>1. f <= h + m - 1 /\ f <= a + b
            BY <1>3, <1>8, <1>14, <2>3
          <5>2. f \in Nat /\ h <= f /\ f <= f /\ f <= h + m - 1 /\ f <= a + b
            BY <4>1, <5>1
          <5>. QED
            BY <5>2
        <4>2. CASE ~(h <= f)
          <5>1. h \in Nat /\ h <= h /\ f <= h /\ h <= h + m - 1 /\ h <= a + b
            BY <1>3, <1>19, <1>22, <4>2
          <5>. QED
            BY <5>1
        <4>. QED
          BY <4>1, <4>2
      <3>2. PICK i \in 1 .. m, j \in 1 .. b : i = z + 1 - h /\ j = z - a /\ h + i - 1 = z /\ a + j = z
        <4>1. z + 1 - h \in 1 .. m /\ z - a \in 1 .. b /\ h + (z + 1 - h) - 1 = z /\ a + (z - a) = z
          BY <1>8, <1>14, <3>1
        <4>. QED
          BY <4>1
      <3>3. v[z] = p[i] /\ v[z] = w[j]
        BY <1>17, <2>1, <3>2
      <3>. QED
        <4>1. p[i] # w[j]
          BY <1>2 DEF Replacing
        <4>. QED
          BY <3>3, <4>1
    <2>. QED
      BY <2>2, <2>3
  <1>23. Replacing(C, s, p, w, v, k2, d2)
    <2>1. \A h \in Nat : 1 <= h /\ h <= d2 /\ h + Len(p) <= Len(v) + 1 => ~MatchAt(v, p, h)
      BY <1>2, <1>17, <1>22
    <2>2. /\ p \in Seq(C) /\ w \in Seq(C) /\ p # <<>> /\ w # <<>>
          /\ \A i \in 1 .. Len(p), j \in 1 .. Len(w) : p[i] # w[j]
      BY DEF Replacing
    <2>. QED
      BY <1>20, <1>21, <2>1, <2>2 DEF Replacing
  <1>. QED
    BY <1>18, <1>23

\* replace_all: a replacement without a letter of the pattern.
PassInv ==
    /\ job.f = "replace" /\ job.pattern # <<>> /\ job.new # <<>>
    /\ Str!Range(job.pattern) \cap Str!Range(job.new) = {}
    => /\ status = "run" => \E k, d : Replacing(Str!Letters, job.str, job.pattern, job.new, text, k, d)
       /\ status = "done" => text = Str!OnePass(job.str, job.pattern, job.new)[1]

LEMMA PassInvIsOnePass == PassInv => Str!ReplaceIsOnePass
  BY DEF PassInv, Str!ReplaceIsOnePass

\* Before the first iteration all is still to come.
LEMMA PassInit == Str!Init => PassInv
  <1>. SUFFICES ASSUME Str!Init, job.f = "replace", job.pattern # <<>>, job.new # <<>>,
                       Str!Range(job.pattern) \cap Str!Range(job.new) = {}
                PROVE  \E k, d : Replacing(Str!Letters, job.str, job.pattern, job.new, text, k, d)
    BY DEF Str!Init, PassInv
  <1>1. PICK s \in Seq(Str!Letters), p \in Seq(Str!Letters), w \in Seq(Str!Letters) :
           s = job.str /\ p = job.pattern /\ w = job.new
    BY JobFacts DEF Str!Init
  <1>2. text = s /\ p # <<>> /\ w # <<>>
    BY <1>1 DEF Str!Init
  <1>3. PICK n \in Nat : n = Len(s)
    BY LenProperties
  <1>4. SameRest(Str!Letters, s, 1, s, 0)
    <2>1. 1 \in Nat /\ 0 \in Nat /\ 1 <= 1 /\ 1 <= n + 1 /\ 0 <= n /\ 0 + 1 = 1
      OBVIOUS
    <2>. QED
      BY <1>3, <2>1 DEF SameRest
  <1>5. SubSeq(s, 1, 0) \o Str!OnePass(s, p, w)[1] = Str!OnePass(s, p, w)[1]
    <2>1. SubSeq(s, 1, 0) = <<>>
      BY SubSeqEmpty
    <2>2. Str!OnePass(s, p, w)[1] \in Seq(Str!Letters)
      <3>1. Str!OnePass(s, p, w) \in [1 .. Len(s) + 1 -> Seq(Str!Letters)]
        BY <1>2, OnePassFacts
      <3>2. 1 \in 1 .. n + 1
        OBVIOUS
      <3>. QED
        BY <1>3, <3>1, <3>2
    <2>3. PICK z \in Seq(Str!Letters) : z = Str!OnePass(s, p, w)[1]
      BY <2>2
    <2>4. <<>> \o z = z
      BY ConcatEmptySeq
    <2>. QED
      BY <2>1, <2>3, <2>4
  <1>6. \A i \in 1 .. Len(p), j \in 1 .. Len(w) : p[i] # w[j]
    <2>1. DOMAIN p = 1 .. Len(p) /\ DOMAIN w = 1 .. Len(w)
      BY LenProperties
    <2>2. \A i \in DOMAIN p, j \in DOMAIN w : p[i] # w[j]
      BY <1>1 DEF Str!Range
    <2>. QED
      BY <2>1, <2>2
  <1>7. \A h \in Nat : ~(1 <= h /\ h <= 0)
    OBVIOUS
  <1>8. Replacing(Str!Letters, s, p, w, s, 1, 0)
    BY <1>2, <1>4, <1>5, <1>6, <1>7 DEF Replacing
  <1>. QED
    BY <1>1, <1>2, <1>8

\* An iteration of replace_all replaces one match more, or finds none.
LEMMA PassStep == ASSUME Str!TypeOK, PassInv, Str!Replace PROVE PassInv'
  <1>1. UNCHANGED job /\ status = "run" /\ job.f = "replace"
    BY DEF Str!Replace, Str!GoesOn
  <1>. SUFFICES ASSUME job.pattern # <<>>, job.new # <<>>, Str!Range(job.pattern) \cap Str!Range(job.new) = {}
                PROVE  /\ status' = "run" =>
                             \E k, d : Replacing(Str!Letters, job.str, job.pattern, job.new, text', k, d)
                       /\ status' = "done" => text' = Str!OnePass(job.str, job.pattern, job.new)[1]
    BY <1>1 DEF PassInv
  <1>2. PICK k, d : Replacing(Str!Letters, job.str, job.pattern, job.new, text, k, d)
    BY <1>1 DEF PassInv
  <1>3. CASE Str!Where = 0
    <2>1. status' = "done" /\ text' = text
      BY <1>3 DEF Str!Replace
    <2>2. text = Str!OnePass(job.str, job.pattern, job.new)[1]
      BY <1>2, <1>3, ReplacedOnce DEF Str!Where
    <2>. QED
      BY <2>1, <2>2
  <1>4. CASE Str!Where # 0
    <2>1. /\ status' = "run"
          /\ text' = SubSeq(text, 1, Str!Where - 1) \o job.new
                        \o SubSeq(text, Str!Where + Len(job.pattern), Len(text))
      BY <1>1, <1>4 DEF Str!Replace, Str!Replaced
    <2>2. text \in Seq(Str!Letters) /\ job.pattern \in Seq(Str!Letters)
      BY <1>1, JobFacts DEF Str!TypeOK
    <2>3. PICK f \in Nat : FirstMatch(text, job.pattern, f) /\ f = Str!Where
      <3>1. Str!Where \in Nat
        <4>1. 1 \in Nat /\ 1 <= 1
          OBVIOUS
        <4>. QED
          BY <2>2, <1>4, <4>1, FindFacts DEF Str!Where
      <3>. QED
        BY <1>4, <3>1 DEF FirstMatch, Str!Where
    <2>4. k \in Nat /\ d \in Nat
      BY <1>2 DEF Replacing, SameRest
    <2>5. \E k2, d2 : Replacing(Str!Letters, job.str, job.pattern, job.new,
                          SubSeq(text, 1, f - 1) \o job.new \o SubSeq(text, f + Len(job.pattern), Len(text)), k2, d2)
      BY <1>2, <2>3, <2>4, ReplacedMore
    <2>. QED
      BY <2>1, <2>3, <2>5
  <1>. QED
    BY <1>3, <1>4

-----------------------------------------------------------------------------
(* Strings: replace_all ends.                                              *)

\* The first number in one of the two sets and not in the other one is in U.
Precedes(S, U) == \E i \in U \ S : \A j \in Nat : j < i => (j \in S <=> j \in U)

\* The sets before S in that order.
Earlier(S) == {X \in SUBSET (1 .. MaxText) : Precedes(X, S)}

\* It is an order.
LEMMA PrecedesTransitive ==
    ASSUME NEW S \in SUBSET Nat, NEW U \in SUBSET Nat, NEW W \in SUBSET Nat, Precedes(S, U), Precedes(U, W)
    PROVE  Precedes(S, W)
  <1>1. PICK i \in U \ S : \A j \in Nat : j < i => (j \in S <=> j \in U)
    BY DEF Precedes
  <1>2. PICK k \in W \ U : \A j \in Nat : j < k => (j \in U <=> j \in W)
    BY DEF Precedes
  <1>3. i \in Nat /\ k \in Nat /\ i # k
    OBVIOUS
  <1>4. CASE i < k
    <2>1. i \in W \ S
      BY <1>2, <1>3, <1>4
    <2>2. \A j \in Nat : j < i => (j \in S <=> j \in W)
      <3>1. \A j \in Nat : j < i => j < k
        BY <1>3, <1>4
      <3>. QED
        BY <1>1, <1>2, <3>1
    <2>. QED
      BY <2>1, <2>2 DEF Precedes
  <1>5. CASE k < i
    <2>1. k \in W \ S
      BY <1>1, <1>3, <1>5
    <2>2. \A j \in Nat : j < k => (j \in S <=> j \in W)
      <3>1. \A j \in Nat : j < k => j < i
        BY <1>3, <1>5
      <3>. QED
        BY <1>1, <1>2, <3>1
    <2>. QED
      BY <2>1, <2>2 DEF Precedes
  <1>. QED
    BY <1>3, <1>4, <1>5

\* There are fewer than 2 ^ MaxText sets before one, and more before a later one.
LEMMA EarlierCounts ==
    ASSUME NEW S \in SUBSET (1 .. MaxText)
    PROVE  /\ IsFiniteSet(Earlier(S)) /\ Cardinality(Earlier(S)) \in Nat /\ Cardinality(Earlier(S)) < MaxLoops
           /\ \A U \in SUBSET (1 .. MaxText) : Precedes(S, U) => Cardinality(Earlier(S)) < Cardinality(Earlier(U))
  <1>1. MaxText \in Nat /\ MaxLoops \in Nat /\ 2 ^ MaxText <= MaxLoops
    BY StringsAssumed DEF Str!StringsAssumption
  <1>2. PICK A : A = SUBSET (1 .. MaxText)
    OBVIOUS
  <1>3. IsFiniteSet(A) /\ Cardinality(A) = 2 ^ MaxText
    <2>1. IsFiniteSet(1 .. MaxText) /\ Cardinality(1 .. MaxText) = MaxText
      <3>1. 1 \in Int /\ MaxText \in Int /\ (IF 1 > MaxText THEN 0 ELSE MaxText - 1 + 1) = MaxText
        BY <1>1
      <3>. QED
        BY <3>1, FS_Interval
    <2>. QED
      BY <1>2, <2>1, FS_SUBSET
  <1>4. ASSUME NEW U, U \in SUBSET (1 .. MaxText)
        PROVE  /\ Earlier(U) \in SUBSET A /\ U \in A /\ U \notin Earlier(U)
    <2>1. Earlier(U) \in SUBSET A
      BY <1>2 DEF Earlier
    <2>2. ~Precedes(U, U)
      BY DEF Precedes
    <2>. QED
      BY <1>2, <1>4, <2>1, <2>2 DEF Earlier
  <1>5. ASSUME NEW P, NEW Q, P \in SUBSET Q, IsFiniteSet(Q), NEW x, x \in Q, x \notin P
        PROVE  IsFiniteSet(P) /\ Cardinality(P) \in Nat /\ Cardinality(Q) \in Nat /\ Cardinality(P) < Cardinality(Q)
    <2>1. IsFiniteSet(P) /\ Cardinality(P) <= Cardinality(Q) /\ (Cardinality(Q) = Cardinality(P) => Q = P)
      BY <1>5, FS_Subset
    <2>2. Cardinality(P) \in Nat /\ Cardinality(Q) \in Nat
      BY <1>5, <2>1, FS_CardinalityType
    <2>3. Q # P
      BY <1>5
    <2>. QED
      BY <2>1, <2>2, <2>3
  <1>6. /\ IsFiniteSet(Earlier(S)) /\ Cardinality(Earlier(S)) \in Nat /\ Cardinality(A) \in Nat
        /\ Cardinality(Earlier(S)) < Cardinality(A)
    BY <1>3, <1>4, <1>5
  <1>7. ASSUME NEW U \in SUBSET (1 .. MaxText), Precedes(S, U)
        PROVE  Cardinality(Earlier(S)) < Cardinality(Earlier(U))
    <2>1. Earlier(S) \in SUBSET Earlier(U)
      <3>1. ASSUME NEW X \in Earlier(S) PROVE X \in Earlier(U)
        <4>1. X \in SUBSET (1 .. MaxText) /\ Precedes(X, S)
          BY DEF Earlier
        <4>2. \A T \in SUBSET (1 .. MaxText) : T \in SUBSET Nat
          OBVIOUS
        <4>3. Precedes(X, U)
          BY <1>7, <4>1, <4>2, PrecedesTransitive
        <4>. QED
          BY <4>1, <4>3 DEF Earlier
      <3>. QED
        BY <3>1
    <2>2. S \in Earlier(U) /\ S \notin Earlier(S)
      BY <1>4, <1>7 DEF Earlier
    <2>3. IsFiniteSet(Earlier(U))
      BY <1>3, <1>4, FS_Subset
    <2>. QED
      BY <1>5, <2>1, <2>2, <2>3
  <1>. QED
    BY <1>1, <1>3, <1>6, <1>7

\* v is t with its first match of p, at f, replaced by w.
IsReplaced(C, t, p, w, f, v) ==
    /\ v \in Seq(C) /\ v = SubSeq(t, 1, f - 1) \o w \o SubSeq(t, f + Len(p), Len(t))
    /\ Len(v) = Len(t) + Len(w) - Len(p)
    /\ 1 <= f /\ f + Len(p) <= Len(t) + 1 /\ MatchAt(t, p, f)
    /\ \A i \in 1 .. f - 1 : v[i] = t[i]
    /\ \A i \in 1 .. Len(w) : v[f - 1 + i] = w[i]

\* What one iteration of replace_all makes of the text.
LEMMA OneReplaced ==
    ASSUME NEW C, NEW t \in Seq(C), NEW p \in Seq(C), NEW w \in Seq(C), NEW f \in Nat, FirstMatch(t, p, f)
    PROVE  \E v : IsReplaced(C, t, p, w, f, v)
  <1>1. PICK l \in Nat, m \in Nat, b \in Nat : l = Len(t) /\ m = Len(p) /\ b = Len(w)
    BY LenProperties
  <1>2. 1 <= f /\ f + m <= l + 1 /\ MatchAt(t, p, f)
    <2>1. f = Str!Find(t, p, 1) /\ Str!Find(t, p, 1) # 0
      BY DEF FirstMatch
    <2>2. 1 <= Str!Find(t, p, 1) /\ Str!Find(t, p, 1) + Len(p) <= Len(t) + 1 /\ MatchAt(t, p, Str!Find(t, p, 1))
      <3>1. 1 \in Nat /\ 1 <= 1
        OBVIOUS
      <3>. QED
        BY <2>1, <3>1, FindFacts
    <2>. QED
      BY <1>1, <2>1, <2>2
  <1>3. PICK a \in Nat, c \in Nat : a = f - 1 /\ c = l + 1 - (f + m) /\ a <= l /\ a + b + c = l + b - m
    <2>1. f - 1 \in Nat /\ l + 1 - (f + m) \in Nat /\ f - 1 <= l
      BY <1>2
    <2>2. (f - 1) + b + (l + 1 - (f + m)) = l + b - m
      BY <1>2
    <2>. QED
      BY <2>1, <2>2
  <1>4. PICK x \in Seq(C) : x = SubSeq(t, 1, a) /\ Len(x) = a /\ \A i \in 1 .. a : x[i] = t[i]
    <2>1. /\ SubSeq(t, 1, a) \in Seq(C) /\ Len(SubSeq(t, 1, a)) = a + 1 - 1
          /\ \A j \in 1 .. a + 1 - 1 : SubSeq(t, 1, a)[j] = t[1 + j - 1]
      <3>1. 1 \in Nat /\ 1 <= 1 /\ 1 <= a + 1 /\ a <= Len(t)
        BY <1>1, <1>3
      <3>. QED
        BY <3>1, Cut
    <2>2. a + 1 - 1 = a /\ \A j \in 1 .. a : 1 + j - 1 = j
      OBVIOUS
    <2>. QED
      BY <2>1, <2>2
  <1>5. PICK y \in Seq(C) : y = SubSeq(t, f + m, l) /\ Len(y) = c
    <2>1. f + m \in Nat /\ 1 <= f + m /\ f + m <= l + 1 /\ l <= Len(t)
      BY <1>1, <1>2
    <2>2. SubSeq(t, f + m, l) \in Seq(C) /\ Len(SubSeq(t, f + m, l)) = l + 1 - (f + m)
      BY <2>1, Cut
    <2>. QED
      BY <1>3, <2>2
  <1>6. ThreeTexts(C, x, w, y, a, b, c)
    BY <1>1, <1>4, <1>5 DEF ThreeTexts
  <1>7. PICK v : IsSpliced(C, x, w, y, v, a, b, c)
    BY <1>6, Spliced, Zenon
  <1>8. /\ v \in Seq(C) /\ v = x \o w \o y /\ Len(v) = a + b + c
        /\ \A i \in 1 .. a : v[i] = x[i]
        /\ \A i \in 1 .. b : v[a + i] = w[i]
    BY <1>7 DEF IsSpliced
  <1>9. v = SubSeq(t, 1, f - 1) \o w \o SubSeq(t, f + Len(p), Len(t))
    BY <1>1, <1>3, <1>4, <1>5, <1>8
  <1>10. Len(v) = l + b - m /\ \A i \in 1 .. f - 1 : v[i] = t[i]
    BY <1>3, <1>4, <1>8
  <1>11. \A i \in 1 .. b : v[f - 1 + i] = w[i]
    BY <1>3, <1>8
  <1>12. IsReplaced(C, t, p, w, f, v)
    BY <1>1, <1>2, <1>8, <1>9, <1>10, <1>11 DEF IsReplaced
  <1>. QED
    BY <1>12

\* w differs from p first at i, and is as long.
Differs(p, w, i) ==
    /\ Len(p) = Len(w) /\ i \in 1 .. Len(p) /\ p[i] # w[i]
    /\ \A j \in 1 .. i - 1 : p[j] = w[j]

\* Texts of one length that are not the same differ first somewhere.
LEMMA SomeDifference ==
    ASSUME NEW C, NEW p \in Seq(C), NEW w \in Seq(C), Len(p) = Len(w), p # w
    PROVE  \E i : Differs(p, w, i)
  <1>1. PICK m \in Nat : m = Len(p) /\ m = Len(w)
    BY LenProperties
  <1>. DEFINE D == {i \in 1 .. m : p[i] # w[i]}
  <1>2. D # {}
    <2>1. (\A i \in 1 .. m : p[i] = w[i]) => p = w
      BY <1>1, SeqEqual
    <2>. QED
      BY <2>1
  <1>3. D \in SUBSET Nat
    OBVIOUS
  <1>4. PICK i : i \in D /\ \A k \in D : i <= k
    BY <1>2, <1>3, LeastNatural
  <1>5. \A j \in 1 .. i - 1 : p[j] = w[j]
    <2>1. \A j \in 1 .. i - 1 : j \in 1 .. m /\ ~(i <= j)
      BY <1>4
    <2>. QED
      BY <1>4, <2>1
  <1>. QED
    BY <1>1, <1>4, <1>5 DEF Differs

\* The places of the letter y.
Marks(t, y) == {i \in 1 .. Len(t) : t[i] = y}

\* A replacement of the same length puts the texts into one order.
LEMMA ReplacedIsLater ==
    ASSUME NEW C, NEW t \in Seq(C), NEW p \in Seq(C), NEW w \in Seq(C), NEW f \in Nat, NEW v,
           IsReplaced(C, t, p, w, f, v), NEW i, Differs(p, w, i)
    PROVE  Len(v) = Len(t) /\ Precedes(Marks(t, w[i]), Marks(v, w[i]))
  <1>1. PICK l \in Nat, m \in Nat : l = Len(t) /\ m = Len(p) /\ m = Len(w)
    BY LenProperties DEF Differs
  <1>2. /\ i \in 1 .. m /\ p[i] # w[i] /\ \A j \in 1 .. i - 1 : p[j] = w[j]
    BY <1>1 DEF Differs
  <1>3. Len(v) = l /\ 1 <= f /\ f + m <= l + 1
    <2>1. l + m - m = l
      OBVIOUS
    <2>. QED
      BY <1>1, <2>1 DEF IsReplaced
  <1>4. /\ \A j \in 1 .. m : t[f + j - 1] = p[j]
        /\ \A j \in 1 .. f - 1 : v[j] = t[j]
        /\ \A j \in 1 .. m : v[f - 1 + j] = w[j]
    BY <1>1 DEF IsReplaced, MatchAt
  <1>5. PICK z \in Nat : z = f + i - 1 /\ z = f - 1 + i /\ z \in 1 .. l
    <2>1. f + i - 1 \in Nat /\ f + i - 1 = f - 1 + i /\ f + i - 1 \in 1 .. l
      BY <1>2, <1>3
    <2>. QED
      BY <2>1
  <1>6. t[z] = p[i] /\ v[z] = w[i]
    BY <1>2, <1>4, <1>5
  <1>7. ASSUME NEW j \in Nat, j < z, 1 <= j PROVE v[j] = t[j]
    <2>1. CASE j < f
      <3>1. j \in 1 .. f - 1
        BY <1>7, <2>1
      <3>. QED
        BY <1>4, <3>1
    <2>2. CASE ~(j < f)
      <3>1. PICK h \in 1 .. m : h \in 1 .. i - 1 /\ f + h - 1 = j /\ f - 1 + h = j
        <4>1. j + 1 - f \in 1 .. m /\ j + 1 - f \in 1 .. i - 1 /\ f + (j + 1 - f) - 1 = j /\ f - 1 + (j + 1 - f) = j
          BY <1>2, <1>5, <1>7, <2>2
        <4>. QED
          BY <4>1
      <3>2. t[f + h - 1] = p[h] /\ v[f - 1 + h] = w[h] /\ p[h] = w[h]
        BY <1>2, <1>4, <3>1
      <3>. QED
        BY <3>1, <3>2
    <2>. QED
      BY <2>1, <2>2
  <1>8. z \in Marks(v, w[i]) \ Marks(t, w[i])
    BY <1>1, <1>2, <1>3, <1>5, <1>6 DEF Marks
  <1>9. ASSUME NEW j \in Nat, j < z PROVE j \in Marks(t, w[i]) <=> j \in Marks(v, w[i])
    <2>1. CASE 1 <= j
      <3>1. v[j] = t[j]
        BY <1>7, <1>9, <2>1
      <3>. QED
        BY <1>1, <1>3, <3>1 DEF Marks
    <2>2. CASE ~(1 <= j)
      <3>1. j \notin 1 .. l
        BY <2>2
      <3>. QED
        BY <1>1, <1>3, <3>1 DEF Marks
    <2>. QED
      BY <2>1, <2>2
  <1>. QED
    BY <1>1, <1>3, <1>8, <1>9 DEF Precedes

\* replace_all: a shorter replacement takes a character every time, and one of the same
\* length puts a later text in the place of the text.
ReplaceInv ==
    /\ job.f = "replace" /\ job.pattern # <<>> /\ job.new # job.pattern
    /\ Len(job.new) <= Len(job.pattern)
    => /\ status # "far"
       /\ status = "run" =>
             /\ Len(text) <= MaxText
             /\ Len(job.new) < Len(job.pattern) => loops + Len(text) <= MaxText
             /\ \A i : Differs(job.pattern, job.new, i) =>
                          loops <= Cardinality(Earlier(Marks(text, job.new[i])))

\* The places of a letter in a text that is not too long.
LEMMA MarksWithin ==
    ASSUME NEW t \in Seq(Str!Letters), Len(t) <= MaxText, NEW y
    PROVE  Marks(t, y) \in SUBSET (1 .. MaxText)
  <1>1. PICK n \in Nat : n = Len(t)
    BY LenProperties
  <1>. QED
    BY <1>1, StringsAssumed DEF Marks, Str!StringsAssumption

\* Before the first iteration there are all iterations to come.
LEMMA ReplaceInit == Str!Init => ReplaceInv
  <1>. SUFFICES ASSUME Str!Init, job.f = "replace"
                PROVE  ReplaceInv
    BY DEF ReplaceInv
  <1>1. /\ text = job.str /\ job.str \in Seq(Str!Letters) /\ Len(job.str) \in 0 .. MaxText
        /\ loops = 0 /\ status = "run"
    BY JobFacts DEF Str!Init
  <1>2. PICK n \in Nat : n = Len(text) /\ n <= MaxText
    BY <1>1, StringsAssumed DEF Str!StringsAssumption
  <1>3. 0 + n <= MaxText
    BY <1>2
  <1>4. ASSUME NEW i PROVE 0 <= Cardinality(Earlier(Marks(text, job.new[i])))
    <2>1. Marks(text, job.new[i]) \in SUBSET (1 .. MaxText)
      BY <1>1, <1>2, MarksWithin
    <2>2. PICK c \in Nat : c = Cardinality(Earlier(Marks(text, job.new[i])))
      BY <2>1, EarlierCounts
    <2>. QED
      BY <2>2
  <1>. QED
    BY <1>1, <1>2, <1>3, <1>4 DEF ReplaceInv

\* The text stays one of letters, and the loop stays within its bound.
LEMMA ReplaceStep ==
    ASSUME Str!TypeOK, ReplaceInv, Str!Replace
    PROVE  text' \in Seq(Str!Letters) /\ status' \in {"run", "done"} /\ ReplaceInv'
  <1>1. UNCHANGED job /\ job.f = "replace" /\ status = "run" /\ loops' = loops + 1
    BY DEF Str!Replace, Str!GoesOn
  <1>2. PICK t \in Seq(Str!Letters), p \in Seq(Str!Letters), w \in Seq(Str!Letters) :
           t = text /\ p = job.pattern /\ w = job.new
    BY <1>1, JobFacts DEF Str!TypeOK
  <1>3. CASE Str!Where = 0
    BY <1>1, <1>2, <1>3 DEF Str!Replace, ReplaceInv
  <1>4. CASE Str!Where # 0
    <2>1. PICK f \in Nat : f = Str!Where /\ FirstMatch(t, p, f)
      <3>1. Str!Where \in Nat
        <4>1. 1 \in Nat /\ 1 <= 1
          OBVIOUS
        <4>. QED
          BY <1>2, <4>1, FindFacts DEF Str!Where
      <3>. QED
        BY <1>2, <1>4, <3>1 DEF FirstMatch, Str!Where
    <2>2. PICK v : IsReplaced(Str!Letters, t, p, w, f, v)
      BY <2>1, OneReplaced
    <2>3. text' = v /\ status' = "run"
      <3>1. text' = SubSeq(t, 1, f - 1) \o w \o SubSeq(t, f + Len(p), Len(t)) /\ status' = status
        BY <1>2, <1>4, <2>1 DEF Str!Replace, Str!Replaced
      <3>2. v = SubSeq(t, 1, f - 1) \o w \o SubSeq(t, f + Len(p), Len(t))
        BY <2>2 DEF IsReplaced
      <3>. QED
        BY <1>1, <3>1, <3>2
    <2>4. v \in Seq(Str!Letters) /\ Len(v) = Len(t) + Len(w) - Len(p)
      BY <2>2 DEF IsReplaced
    <2>5. ReplaceInv'
      <3>. SUFFICES ASSUME p # <<>>, w # p, Len(w) <= Len(p)
                    PROVE  /\ Len(v) <= MaxText
                           /\ Len(w) < Len(p) => loops + 1 + Len(v) <= MaxText
                           /\ \A i : Differs(p, w, i) => loops + 1 <= Cardinality(Earlier(Marks(v, w[i])))
        BY <1>1, <1>2, <2>3 DEF ReplaceInv
      <3>1. /\ Len(t) <= MaxText
            /\ Len(w) < Len(p) => loops + Len(t) <= MaxText
            /\ \A i : Differs(p, w, i) => loops <= Cardinality(Earlier(Marks(t, w[i])))
        BY <1>1, <1>2 DEF ReplaceInv
      <3>2. PICK l \in Nat, m \in Nat, b \in Nat : l = Len(t) /\ m = Len(p) /\ b = Len(w)
        BY LenProperties
      <3>3. loops \in Nat /\ MaxText \in Nat
        BY StringsAssumed DEF Str!TypeOK, Str!StringsAssumption
      <3>4. b <= m /\ l <= MaxText /\ (b < m => loops + l <= MaxText)
        BY <3>1, <3>2
      <3>5. l + b - m <= MaxText /\ (b < m => loops + 1 + (l + b - m) <= MaxText)
        BY <3>2, <3>3, <3>4
      <3>6. Len(v) = l + b - m
        BY <2>4, <3>2
      <3>7. ASSUME NEW i, Differs(p, w, i) PROVE loops + 1 <= Cardinality(Earlier(Marks(v, w[i])))
        <4>1. Precedes(Marks(t, w[i]), Marks(v, w[i]))
          BY <2>2, <3>7, ReplacedIsLater
        <4>2. Marks(t, w[i]) \in SUBSET (1 .. MaxText)
          BY <3>1, MarksWithin
        <4>3. Marks(v, w[i]) \in SUBSET (1 .. MaxText)
          <5>1. Len(v) <= MaxText
            BY <3>5, <3>6
          <5>. QED
            BY <2>4, <5>1, MarksWithin
        <4>4. PICK c \in Nat, e \in Nat :
                 c = Cardinality(Earlier(Marks(t, w[i]))) /\ e = Cardinality(Earlier(Marks(v, w[i]))) /\ c < e
          <5>1. Cardinality(Earlier(Marks(t, w[i]))) \in Nat /\ Cardinality(Earlier(Marks(v, w[i]))) \in Nat
            BY <4>2, <4>3, EarlierCounts
          <5>2. Cardinality(Earlier(Marks(t, w[i]))) < Cardinality(Earlier(Marks(v, w[i])))
            BY <4>1, <4>2, <4>3, EarlierCounts
          <5>. QED
            BY <5>1, <5>2
        <4>5. loops <= c
          BY <3>1, <3>7, <4>4
        <4>. QED
          BY <3>3, <4>4, <4>5
      <3>8. Len(v) <= MaxText /\ (Len(w) < Len(p) => loops + 1 + Len(v) <= MaxText)
        BY <3>2, <3>5, <3>6
      <3>. QED
        BY <3>7, <3>8
    <2>. QED
      BY <2>3, <2>4, <2>5
  <1>. QED
    BY <1>3, <1>4

\* Neither comes to the bound.
LEMMA ReplaceIsNotFar ==
    ASSUME Str!TypeOK, ReplaceInv, Str!Far
    PROVE  ReplaceInv'
  <1>1. UNCHANGED <<job, text, loops>> /\ status = "run" /\ loops = MaxLoops
    BY DEF Str!Far
  <1>. SUFFICES ASSUME job.f = "replace", job.pattern # <<>>, job.new # job.pattern,
                       Len(job.new) <= Len(job.pattern)
                PROVE  FALSE
    BY <1>1 DEF ReplaceInv
  <1>2. PICK t \in Seq(Str!Letters), p \in Seq(Str!Letters), w \in Seq(Str!Letters) :
           t = text /\ p = job.pattern /\ w = job.new
    BY <1>1, JobFacts DEF Str!TypeOK
  <1>3. /\ Len(t) <= MaxText
        /\ Len(w) < Len(p) => MaxLoops + Len(t) <= MaxText
        /\ \A i : Differs(p, w, i) => MaxLoops <= Cardinality(Earlier(Marks(t, w[i])))
    BY <1>1, <1>2 DEF ReplaceInv
  <1>4. MaxLoops \in Nat /\ MaxText \in Nat /\ MaxText < MaxLoops
    BY StringsAssumed DEF Str!StringsAssumption
  <1>5. PICK l \in Nat, m \in Nat, b \in Nat : l = Len(t) /\ m = Len(p) /\ b = Len(w)
    BY LenProperties
  <1>6. b = m
    BY <1>2, <1>3, <1>4, <1>5
  <1>7. PICK i : Differs(p, w, i)
    BY <1>2, <1>5, <1>6, SomeDifference
  <1>8. Marks(t, w[i]) \in SUBSET (1 .. MaxText)
    BY <1>3, MarksWithin
  <1>9. PICK c \in Nat : c = Cardinality(Earlier(Marks(t, w[i]))) /\ c < MaxLoops
    BY <1>8, EarlierCounts
  <1>10. MaxLoops <= c
    BY <1>3, <1>7, <1>9
  <1>. QED
    BY <1>4, <1>9, <1>10

-----------------------------------------------------------------------------
(* Strings: parse_query.                                                   *)

\* find for a single character.
LEMMA FindChar ==
    ASSUME NEW C, NEW s \in Seq(C), NEW x \in C, NEW from \in Nat, 1 <= from
    PROVE  /\ Str!Find(s, <<x>>, from) \in Nat
           /\ Str!Find(s, <<x>>, from) = 0 => \A k \in Nat : from <= k /\ k <= Len(s) => s[k] # x
           /\ Str!Find(s, <<x>>, from) # 0 =>
                 /\ from <= Str!Find(s, <<x>>, from) /\ Str!Find(s, <<x>>, from) <= Len(s)
                 /\ s[Str!Find(s, <<x>>, from)] = x
                 /\ \A k \in Nat : from <= k /\ k < Str!Find(s, <<x>>, from) => s[k] # x
  <1>1. PICK n \in Nat : n = Len(s)
    BY LenProperties
  <1>2. PICK p \in Seq(C) : p = <<x>> /\ Len(p) = 1 /\ p[1] = x
    <2>1. <<x>> \in Seq(C)
      OBVIOUS
    <2>2. Len(<<x>>) = 1 /\ <<x>>[1] = x
      OBVIOUS
    <2>. QED
      BY <2>1, <2>2
  <1>3. \A k \in Nat : MatchAt(s, p, k) <=> s[k] = x
    <2>1. ASSUME NEW k \in Nat PROVE MatchAt(s, p, k) <=> s[k] = x
      <3>1. MatchAt(s, p, k) <=> \A j \in 1 .. 1 : s[k + j - 1] = p[j]
        BY <1>2 DEF MatchAt
      <3>2. (\A j \in 1 .. 1 : s[k + j - 1] = p[j]) <=> s[k + 1 - 1] = p[1]
        OBVIOUS
      <3>3. k + 1 - 1 = k
        OBVIOUS
      <3>. QED
        BY <1>2, <3>1, <3>2, <3>3
    <2>. QED
      BY <2>1
  <1>4. PICK f : f = Str!Find(s, p, from)
    OBVIOUS
  <1>5. /\ f \in Nat
        /\ f = 0 => \A k \in Nat : from <= k /\ k + Len(p) <= Len(s) + 1 => ~MatchAt(s, p, k)
        /\ f # 0 => /\ from <= f /\ f + Len(p) <= Len(s) + 1 /\ MatchAt(s, p, f)
                    /\ \A k \in Nat : from <= k /\ k < f => ~MatchAt(s, p, k)
    BY <1>4, FindFacts
  <1>6. f = 0 => \A k \in Nat : from <= k /\ k <= n => s[k] # x
    <2>1. \A k \in Nat : k <= n => k + 1 <= n + 1
      OBVIOUS
    <2>. QED
      BY <1>1, <1>2, <1>3, <1>5, <2>1
  <1>7. f # 0 => from <= f /\ f <= n
    <2>1. f # 0 => f + 1 <= n + 1
      BY <1>1, <1>2, <1>5
    <2>. QED
      BY <1>5, <2>1
  <1>8. f # 0 => s[f] = x /\ \A k \in Nat : from <= k /\ k < f => s[k] # x
    BY <1>3, <1>5
  <1>. QED
    BY <1>1, <1>2, <1>4, <1>5, <1>6, <1>7, <1>8

\* The part that begins at i is the piece of string_split there.
LEMMA PartIs ==
    ASSUME NEW C, NEW s \in Seq(C), "&" \in C, NEW n \in Nat, n = Len(s), NEW i \in 1 .. n
    PROVE  Str!Part(s, i - 1) =
             IF Str!Find(s, <<"&">>, i) = 0 THEN SubSeq(s, i, n) ELSE SubSeq(s, i, Str!Find(s, <<"&">>, i) - 1)
  <1>1. PICK f : f = Str!Find(s, <<"&">>, i)
    OBVIOUS
  <1>2. /\ f \in Nat
        /\ f = 0 => \A k \in Nat : i <= k /\ k <= n => s[k] # "&"
        /\ f # 0 => /\ i <= f /\ f <= n /\ s[f] = "&"
                    /\ \A k \in Nat : i <= k /\ k < f => s[k] # "&"
    BY <1>1, FindChar
  <1>. DEFINE Later == {e \in Str!Cuts(s) : e > i - 1}
              Ends == {d - 1 : d \in Later} \cup {Len(s)}
  <1>3. \A e : e \in Later <=> e \in Nat /\ i <= e /\ e <= n /\ s[e] = "&"
    <2>1. DOMAIN s = 1 .. n
      BY LenProperties
    <2>2. \A e : e \in Str!Cuts(s) <=> e = 0 \/ (e \in 1 .. n /\ s[e] = "&")
      BY <2>1 DEF Str!Cuts
    <2>3. \A e \in Nat : e > i - 1 <=> i <= e
      OBVIOUS
    <2>4. \A e \in 1 .. n : e \in Nat /\ e <= n
      OBVIOUS
    <2>5. \A e \in Nat : i <= e /\ e <= n => e \in 1 .. n
      OBVIOUS
    <2>6. ~(0 > i - 1)
      OBVIOUS
    <2>. HIDE DEF Ends
    <2>. QED
      BY <2>2, <2>3, <2>4, <2>5, <2>6
  <1>4. PICK u \in Nat : u = (IF f = 0 THEN n ELSE f - 1) /\ u \in Ends /\ \A k \in Ends : k \in Nat /\ u <= k
    <2>. HIDE DEF Later
    <2>1. \A e \in Later : e \in Nat /\ i <= e /\ e <= n /\ s[e] = "&"
      BY <1>3
    <2>2. CASE f = 0
      <3>1. Later = {}
        BY <1>2, <2>1, <2>2
      <3>2. Ends = {n}
        BY <3>1
      <3>. QED
        BY <2>2, <3>2
    <2>3. CASE f # 0
      <3>1. f \in Later
        BY <1>2, <1>3, <2>3
      <3>2. f - 1 \in Ends /\ f - 1 \in Nat /\ f - 1 <= n
        BY <1>2, <2>3, <3>1
      <3>3. ASSUME NEW e \in Later PROVE e - 1 \in Nat /\ f - 1 <= e - 1
        <4>1. e \in Nat /\ i <= e /\ ~(e < f)
          BY <1>2, <2>1, <2>3
        <4>. QED
          BY <1>2, <4>1
      <3>. QED
        BY <2>3, <3>2, <3>3
    <2>. QED
      BY <2>2, <2>3
  <1>5. Str!Min(Ends) = u
    <2>. HIDE DEF Ends
    <2>1. Ends \in SUBSET Nat /\ Ends # {}
      BY <1>4
    <2>2. Str!Min(Ends) \in Ends /\ \A k \in Ends : Str!Min(Ends) <= k
      BY <2>1, LeastNatural
    <2>3. PICK e : e = Str!Min(Ends)
      OBVIOUS
    <2>4. e \in Nat /\ u <= e
      BY <1>4, <2>2, <2>3
    <2>5. e <= u
      BY <1>4, <2>2, <2>3
    <2>. QED
      BY <2>3, <2>4, <2>5
  <1>6. Str!Part(s, i - 1) = SubSeq(s, (i - 1) + 1, u)
    BY <1>5 DEF Str!Part
  <1>7. (i - 1) + 1 = i
    OBVIOUS
  <1>. QED
    BY <1>1, <1>4, <1>6, <1>7

\* Two pieces one after the other.
LEMMA TwoPieces == ASSUME NEW x, NEW y PROVE <<x>> \o <<y>> = <<x, y>>
  <1>. DEFINE S == {x, y}
  <1>1. <<x>> \in Seq(S) /\ <<x, y>> \in Seq(S) /\ x \in S /\ y \in S
    OBVIOUS
  <1>2. Len(<<x>>) = 1 /\ <<x>>[1] = x
    OBVIOUS
  <1>3. Len(<<x, y>>) = 2 /\ <<x, y>>[1] = x /\ <<x, y>>[2] = y
    OBVIOUS
  <1>. HIDE DEF S
  <1>4. PICK a \in Seq(S) : a = <<x>> /\ Len(a) = 1 /\ a[1] = x
    BY <1>1, <1>2
  <1>5. PICK c \in Seq(S) : c = <<x, y>> /\ Len(c) = 2 /\ c[1] = x /\ c[2] = y
    BY <1>1, <1>3
  <1>6. /\ Append(a, y) \in Seq(S) /\ Append(a, y) # <<>> /\ Len(Append(a, y)) = Len(a) + 1
        /\ \A i \in 1 .. Len(a) : Append(a, y)[i] = a[i]
        /\ Append(a, y)[Len(a) + 1] = y
    BY <1>1, AppendProperties
  <1>7. PICK d \in Seq(S) : d = Append(a, y) /\ Len(d) = 2 /\ d[1] = x /\ d[2] = y
    <2>1. 1 \in 1 .. 1 /\ 1 + 1 = 2
      OBVIOUS
    <2>. QED
      BY <1>4, <1>6, <2>1
  <1>8. d = c
    <2>1. \A i \in 1 .. 2 : i = 1 \/ i = 2
      OBVIOUS
    <2>2. \A i \in 1 .. Len(d) : d[i] = c[i]
      BY <1>5, <1>7, <2>1
    <2>. QED
      BY <1>5, <1>7, <2>2, SeqEqual
  <1>9. Append(a, y) = a \o <<y>>
    BY <1>1, AppendIsConcat
  <1>. QED
    BY <1>4, <1>5, <1>7, <1>8, <1>9

\* string_split takes a pair apart into its key and its value.
LEMMA PairPieces ==
    ASSUME NEW C, NEW p \in Seq(C), "=" \in C, Str!IsPair(p)
    PROVE  Str!PiecesOf(p, <<"=">>) = <<Str!Key(p), Str!Value(p)>>
  <1>1. PICK n \in Nat : n = Len(p)
    BY LenProperties
  <1>2. PICK i \in Nat : 2 <= i /\ i <= n - 1 /\ \A j \in 1 .. n : p[j] = "=" <=> j = i
    <2>1. DOMAIN p = 1 .. n
      BY <1>1, LenProperties
    <2>2. PICK i \in 2 .. n - 1 : \A j \in 1 .. n : p[j] = "=" <=> j = i
      BY <1>1, <2>1 DEF Str!IsPair
    <2>3. i \in Nat /\ 2 <= i /\ i <= n - 1
      BY <2>2
    <2>. QED
      BY <2>2, <2>3
  <1>3. PICK f \in Nat, g \in Nat : f = Str!Find(p, <<"=">>, 1) /\ g = Str!Find(p, <<"=">>, i + 1)
    <2>1. 1 \in Nat /\ 1 <= 1 /\ i + 1 \in Nat /\ 1 <= i + 1
      BY <1>2
    <2>2. Str!Find(p, <<"=">>, 1) \in Nat
      BY <2>1, FindChar
    <2>3. Str!Find(p, <<"=">>, i + 1) \in Nat
      BY <2>1, FindChar
    <2>. QED
      BY <2>2, <2>3
  <1>4. f = i
    <2>1. /\ f = 0 => \A k \in Nat : 1 <= k /\ k <= n => p[k] # "="
          /\ f # 0 => 1 <= f /\ f <= n /\ p[f] = "="
      <3>1. 1 \in Nat /\ 1 <= 1
        OBVIOUS
      <3>. QED
        BY <1>1, <1>3, <3>1, FindChar
    <2>2. f # 0
      <3>1. 1 <= i /\ i <= n /\ i \in 1 .. n
        BY <1>2
      <3>. QED
        BY <1>2, <2>1, <3>1
    <2>3. f \in 1 .. n /\ p[f] = "="
      BY <2>1, <2>2
    <2>. QED
      BY <1>2, <2>3
  <1>5. g = 0
    <2>1. g # 0 => i + 1 <= g /\ g <= n /\ p[g] = "="
      <3>1. i + 1 \in Nat /\ 1 <= i + 1
        BY <1>2
      <3>. QED
        BY <1>1, <1>3, <3>1, FindChar
    <2>2. g # 0 => g \in 1 .. n /\ g # i
      BY <1>2, <2>1
    <2>. QED
      BY <1>2, <2>1, <2>2
  <1>6. /\ Str!PiecesFrom(p, <<"=">>) \in [1 .. Len(p) + 1 -> Seq(Seq(C))]
        /\ \A k \in 1 .. Len(p) + 1 : Str!PiecesFrom(p, <<"=">>)[k] =
              IF k > Len(p) THEN <<>>
              ELSE IF Str!Find(p, <<"=">>, k) = 0 THEN <<SubSeq(p, k, Len(p))>>
                   ELSE <<SubSeq(p, k, Str!Find(p, <<"=">>, k) - 1)>>
                          \o Str!PiecesFrom(p, <<"=">>)[Str!Find(p, <<"=">>, k) + Len(<<"=">>)]
    <2>1. <<"=">> \in Seq(C) /\ <<"=">> # <<>>
      OBVIOUS
    <2>. QED
      BY <2>1, PiecesFromFacts
  <1>7. Len(<<"=">>) = 1
    OBVIOUS
  <1>8. Str!PiecesFrom(p, <<"=">>)[i + 1] = <<SubSeq(p, i + 1, n)>>
    <2>1. i + 1 \in 1 .. n + 1 /\ ~(i + 1 > n)
      BY <1>2
    <2>. QED
      BY <1>1, <1>3, <1>5, <1>6, <2>1
  <1>9. Str!PiecesFrom(p, <<"=">>)[1] = <<SubSeq(p, 1, i - 1)>> \o Str!PiecesFrom(p, <<"=">>)[i + 1]
    <2>1. 1 \in 1 .. n + 1 /\ ~(1 > n) /\ i # 0
      BY <1>2
    <2>. QED
      BY <1>1, <1>3, <1>4, <1>6, <1>7, <2>1
  <1>10. PICK x, y : x = SubSeq(p, 1, i - 1) /\ y = SubSeq(p, i + 1, n)
    OBVIOUS
  <1>11. Str!Key(p) = x /\ Str!Value(p) = y
    BY <1>1, <1>3, <1>4, <1>10 DEF Str!Key, Str!Value
  <1>12. Str!PiecesOf(p, <<"=">>) = <<x>> \o <<y>>
    BY <1>8, <1>9, <1>10 DEF Str!PiecesOf
  <1>13. <<x>> \o <<y>> = <<x, y>>
    BY TwoPieces
  <1>. QED
    BY <1>11, <1>12, <1>13

\* An empty part has no pieces: it is skipped.
LEMMA NoPieces ==
    ASSUME NEW C, "=" \in C
    PROVE  Str!PiecesOf(<<>>, <<"=">>) = <<>>
  <1>1. <<"=">> \in Seq(C) /\ <<"=">> # <<>> /\ <<>> \in Seq(C) /\ Len(<<>>) = 0
    OBVIOUS
  <1>2. 1 \in 1 .. 0 + 1 /\ 1 > 0
    OBVIOUS
  <1>3. \A i \in 1 .. Len(<<>>) + 1 : i > Len(<<>>) => Str!PiecesFrom(<<>>, <<"=">>)[i] = <<>>
    BY <1>1, PiecesFromFacts
  <1>. QED
    BY <1>1, <1>2, <1>3 DEF Str!PiecesOf

\* The value of one more part takes the place of an earlier one of its key.
LEMMA OneMoreValue ==
    ASSUME NEW s, NEW D \in SUBSET Nat, NEW c \in Nat, \A d \in D : d < c
    PROVE  Str!Assign(Str!LastValues(s, D), Str!Key(Str!Part(s, c)), Str!Value(Str!Part(s, c))) =
             Str!LastValues(s, D \cup {c})
  <1>. DEFINE K(d) == Str!Key(Str!Part(s, d))
              V(d) == Str!Value(Str!Part(s, d))
              Of(E, k) == {d \in E : K(d) = k}
              E == D \cup {c}
  <1>1. Str!LastValues(s, D) = [k \in {K(d) : d \in D} |-> V(Str!Max(Of(D, k)))]
    BY DEF Str!LastValues
  <1>2. Str!LastValues(s, E) = [k \in {K(d) : d \in E} |-> V(Str!Max(Of(E, k)))]
    BY DEF Str!LastValues
  <1>3. {K(d) : d \in E} = {K(d) : d \in D} \cup {K(c)}
    <2>. HIDE DEF K
    <2>. QED
      OBVIOUS
  <1>4. Str!Max(Of(E, K(c))) = c
    <2>1. c \in Of(E, K(c)) /\ Of(E, K(c)) \in SUBSET Nat /\ \A d \in Of(E, K(c)) : d <= c
      <3>1. \A d \in E : d \in Nat /\ d <= c
        OBVIOUS
      <3>. HIDE DEF K
      <3>. QED
        BY <3>1
    <2>. HIDE DEF Of
    <2>2. PICK S : S = Of(E, K(c))
      OBVIOUS
    <2>3. S \in SUBSET (0 .. c) /\ S # {}
      BY <2>1, <2>2
    <2>4. Str!Max(S) \in S /\ \A d \in S : d <= Str!Max(S)
      BY <2>3, GreatestNatural
    <2>5. PICK e : e = Str!Max(S)
      OBVIOUS
    <2>6. e \in Nat /\ e <= c /\ c <= e
      BY <2>1, <2>2, <2>4, <2>5
    <2>7. e = c
      BY <2>6
    <2>. QED
      BY <2>2, <2>5, <2>7
  <1>5. ASSUME NEW k, k # K(c) PROVE Of(E, k) = Of(D, k)
    <2>. HIDE DEF K
    <2>. QED
      BY <1>5
  <1>6. Str!Assign(Str!LastValues(s, D), K(c), V(c)) =
          [k \in {K(d) : d \in D} \cup {K(c)} |-> IF k = K(c) THEN V(c) ELSE Str!LastValues(s, D)[k]]
    <2>1. DOMAIN Str!LastValues(s, D) = {K(d) : d \in D}
      BY <1>1
    <2>. QED
      BY <2>1 DEF Str!Assign
  <1>7. ASSUME NEW k, k \in {K(d) : d \in D} \cup {K(c)}
        PROVE  (IF k = K(c) THEN V(c) ELSE Str!LastValues(s, D)[k]) = V(Str!Max(Of(E, k)))
    <2>1. CASE k = K(c)
      BY <1>4, <2>1
    <2>2. CASE k # K(c)
      <3>1. k \in {K(d) : d \in D}
        BY <1>7, <2>2
      <3>2. Str!LastValues(s, D)[k] = V(Str!Max(Of(D, k)))
        BY <1>1, <3>1
      <3>. QED
        BY <1>5, <2>2, <3>2
    <2>. QED
      BY <2>1, <2>2
  <1>. HIDE DEF K, V, Of, E
  <1>8. [k \in {K(d) : d \in E} |-> V(Str!Max(Of(E, k)))] =
          [k \in {K(d) : d \in D} \cup {K(c)} |-> IF k = K(c) THEN V(c) ELSE Str!LastValues(s, D)[k]]
    BY <1>3, <1>7
  <1>9. Str!Assign(Str!LastValues(s, D), K(c), V(c)) = Str!LastValues(s, E)
    BY <1>2, <1>6, <1>8
  <1>. QED
    BY <1>9 DEF K, V, E

\* The first piece and the others.
LEMMA FrontPiece ==
    ASSUME NEW S, NEW x \in S, NEW r \in Seq(S)
    PROVE  <<x>> \o r # <<>> /\ Head(<<x>> \o r) = x /\ Tail(<<x>> \o r) = r
  <1>1. PICK a \in Seq(S) : a = <<x>> /\ Len(a) = 1 /\ a[1] = x
    <2>1. <<x>> \in Seq(S)
      OBVIOUS
    <2>2. Len(<<x>>) = 1 /\ <<x>>[1] = x
      OBVIOUS
    <2>. QED
      BY <2>1, <2>2
  <1>2. PICK n \in Nat : n = Len(r)
    BY LenProperties
  <1>3. PICK q \in Seq(S) : q = a \o r /\ Len(q) = 1 + n /\ q[1] = x /\ \A i \in 1 .. n : q[i + 1] = r[i]
    <2>1. /\ a \o r \in Seq(S) /\ Len(a \o r) = Len(a) + Len(r)
          /\ \A i \in 1 .. Len(a) + Len(r) : (a \o r)[i] = IF i <= Len(a) THEN a[i] ELSE r[i - Len(a)]
      BY ConcatProperties
    <2>2. \A i \in 1 .. 1 + n : (a \o r)[i] = IF i <= 1 THEN a[i] ELSE r[i - 1]
      BY <1>1, <1>2, <2>1
    <2>3. 1 \in 1 .. 1 + n /\ \A i \in 1 .. n : i + 1 \in 1 .. 1 + n /\ ~(i + 1 <= 1) /\ (i + 1) - 1 = i
      OBVIOUS
    <2>4. (a \o r)[1] = x
      BY <1>1, <2>2, <2>3
    <2>5. ASSUME NEW i \in 1 .. n PROVE (a \o r)[i + 1] = r[i]
      <3>1. PICK k : k = i + 1 /\ k \in 1 .. 1 + n /\ ~(k <= 1) /\ k - 1 = i
        BY <2>3
      <3>2. (a \o r)[k] = r[k - 1]
        BY <2>2, <3>1
      <3>. QED
        BY <3>1, <3>2
    <2>. QED
      BY <1>1, <1>2, <2>1, <2>4, <2>5
  <1>4. q # <<>>
    <2>1. Len(q) # 0
      BY <1>3
    <2>. QED
      BY <2>1, EmptySeq
  <1>5. Tail(q) \in Seq(S) /\ Len(Tail(q)) = Len(q) - 1 /\ \A i \in 1 .. Len(Tail(q)) : Tail(q)[i] = q[i + 1]
    BY <1>4, HeadTailProperties
  <1>6. PICK t \in Seq(S) : t = Tail(q) /\ Len(t) = n /\ \A i \in 1 .. n : t[i] = q[i + 1]
    <2>1. (1 + n) - 1 = n
      OBVIOUS
    <2>2. Len(Tail(q)) = n
      BY <1>3, <1>5, <2>1
    <2>3. Tail(q) \in Seq(S) /\ Len(Tail(q)) = n /\ \A i \in 1 .. n : Tail(q)[i] = q[i + 1]
      BY <1>5, <2>2, Zenon
    <2>. QED
      BY <2>3, Zenon
  <1>7. t = r
    <2>1. \A i \in 1 .. n : t[i] = r[i]
      BY <1>3, <1>6
    <2>. QED
      BY <1>2, <1>6, <2>1, SeqEqual
  <1>8. Head(q) = x
    BY <1>3
  <1>. QED
    BY <1>1, <1>3, <1>4, <1>6, <1>7, <1>8

\* The parts before the i-th character.
PartsBefore(s, i) == {c \in Str!Parts(s) : c < i - 1}

\* What there is from the i-th character on: the piece there, and those from the j-th on.
NextPart(s, i, j) ==
    /\ j \in 1 .. Len(s) + 1 /\ (j <= Len(s) => j - 1 \in Str!Cuts(s))
    /\ Head(Str!PiecesFrom(s, <<"&">>)[i]) = Str!Part(s, i - 1)
    /\ Tail(Str!PiecesFrom(s, <<"&">>)[i]) = Str!PiecesFrom(s, <<"&">>)[j]
    /\ PartsBefore(s, j) = PartsBefore(s, i) \cup ({i - 1} \cap Str!Parts(s))

\* The loop over the pieces goes from part to part.
LEMMA SomeNextPart ==
    ASSUME NEW C, NEW s \in Seq(C), "&" \in C, NEW i \in 1 .. Len(s), i - 1 \in Str!Cuts(s)
    PROVE  Str!PiecesFrom(s, <<"&">>)[i] # <<>> /\ \E j : NextPart(s, i, j)
  <1>1. PICK n \in Nat : n = Len(s) /\ i \in 1 .. n
    BY LenProperties
  <1>2. PICK p \in Seq(C) : p = <<"&">> /\ p # <<>> /\ Len(p) = 1
    <2>1. <<"&">> \in Seq(C) /\ <<"&">> # <<>> /\ Len(<<"&">>) = 1
      OBVIOUS
    <2>. QED
      BY <2>1
  <1>3. PICK f : f = Str!Find(s, p, i)
    OBVIOUS
  <1>4. /\ f \in Nat
        /\ f = 0 => \A k \in Nat : i <= k /\ k <= n => s[k] # "&"
        /\ f # 0 => /\ i <= f /\ f <= n /\ s[f] = "&"
                    /\ \A k \in Nat : i <= k /\ k < f => s[k] # "&"
    BY <1>1, <1>2, <1>3, FindChar
  <1>5. PICK F : F = Str!PiecesFrom(s, p)
    OBVIOUS
  <1>6. PICK S : S = Seq(C)
    OBVIOUS
  <1>7. /\ F \in [1 .. n + 1 -> Seq(S)]
        /\ F[i] = IF f = 0 THEN <<SubSeq(s, i, n)>> ELSE <<SubSeq(s, i, f - 1)>> \o F[f + 1]
        /\ F[n + 1] = <<>>
    <2>1. /\ Str!PiecesFrom(s, p) \in [1 .. Len(s) + 1 -> Seq(Seq(C))]
          /\ \A k \in 1 .. Len(s) + 1 : Str!PiecesFrom(s, p)[k] =
                IF k > Len(s) THEN <<>>
                ELSE IF Str!Find(s, p, k) = 0 THEN <<SubSeq(s, k, Len(s))>>
                     ELSE <<SubSeq(s, k, Str!Find(s, p, k) - 1)>> \o Str!PiecesFrom(s, p)[Str!Find(s, p, k) + Len(p)]
      BY <1>2, PiecesFromFacts
    <2>2. i \in 1 .. n + 1 /\ ~(i > n) /\ n + 1 \in 1 .. n + 1 /\ n + 1 > n
      BY <1>1
    <2>. QED
      BY <1>1, <1>2, <1>3, <1>5, <1>6, <2>1, <2>2
  <1>8. PICK x : x = Str!Part(s, i - 1)
    OBVIOUS
  <1>9. x = IF f = 0 THEN SubSeq(s, i, n) ELSE SubSeq(s, i, f - 1)
    BY <1>1, <1>2, <1>3, <1>8, PartIs
  <1>10. x \in S
    <2>1. CASE f = 0
      <3>1. i \in Nat /\ 1 <= i /\ i <= n + 1 /\ n <= Len(s)
        BY <1>1
      <3>. QED
        BY <1>6, <1>9, <2>1, <3>1, Cut
    <2>2. CASE f # 0
      <3>1. i \in Nat /\ f - 1 \in Nat /\ 1 <= i /\ i <= (f - 1) + 1 /\ f - 1 <= Len(s)
        BY <1>1, <1>4, <2>2
      <3>. QED
        BY <1>6, <1>9, <2>2, <3>1, Cut
    <2>. QED
      BY <2>1, <2>2
  <1>11. PICK j \in 1 .. n + 1 : j = IF f = 0 THEN n + 1 ELSE f + 1
    <2>1. (IF f = 0 THEN n + 1 ELSE f + 1) \in 1 .. n + 1
      BY <1>4
    <2>. QED
      BY <2>1
  <1>12. PICK r \in Seq(S) : r = F[j] /\ F[i] = <<x>> \o r
    <2>1. F[j] \in Seq(S)
      BY <1>7
    <2>2. F[i] = <<x>> \o F[j]
      <3>1. CASE f = 0
        <4>1. F[i] = <<x>> /\ F[j] = <<>>
          BY <1>7, <1>9, <1>11, <3>1
        <4>2. <<x>> \in Seq(S)
          BY <1>10
        <4>3. PICK a \in Seq(S) : a = <<x>>
          BY <4>2
        <4>4. a \o <<>> = a
          BY ConcatEmptySeq
        <4>. QED
          BY <4>1, <4>3, <4>4
      <3>2. CASE f # 0
        BY <1>7, <1>9, <1>11, <3>2
      <3>. QED
        BY <3>1, <3>2
    <2>. QED
      BY <2>1, <2>2
  <1>13. F[i] # <<>> /\ Head(F[i]) = x /\ Tail(F[i]) = r
    BY <1>10, <1>12, FrontPiece
  <1>14. \A c : c \in Str!Cuts(s) <=> c = 0 \/ (c \in 1 .. n /\ s[c] = "&")
    <2>1. DOMAIN s = 1 .. n
      BY <1>1, LenProperties
    <2>. QED
      BY <2>1 DEF Str!Cuts
  <1>15. j <= n => j - 1 \in Str!Cuts(s)
    <2>. SUFFICES ASSUME j <= n PROVE j - 1 \in Str!Cuts(s)
      OBVIOUS
    <2>1. f # 0 /\ j - 1 = f /\ f \in 1 .. n
      BY <1>4, <1>11
    <2>. QED
      BY <1>4, <1>14, <2>1
  <1>16. ASSUME NEW c \in Str!Cuts(s) PROVE c < j - 1 <=> c < i - 1 \/ c = i - 1
    <2>1. c \in Nat /\ c <= n
      BY <1>14
    <2>2. c >= i => s[c] = "&"
      BY <1>1, <1>14
    <2>3. CASE f = 0
      <3>1. ~(c >= i)
        BY <1>4, <2>1, <2>2, <2>3
      <3>. QED
        BY <1>1, <1>11, <2>1, <2>3, <3>1
    <2>4. CASE f # 0
      <3>1. ~(c >= i /\ c < f)
        BY <1>4, <2>1, <2>2, <2>4
      <3>2. j - 1 = f /\ i <= f
        BY <1>4, <1>11, <2>4
      <3>. QED
        BY <1>1, <2>1, <3>1, <3>2
    <2>. QED
      BY <2>3, <2>4
  <1>17. PartsBefore(s, j) = PartsBefore(s, i) \cup ({i - 1} \cap Str!Parts(s))
    <2>1. \A c \in Str!Parts(s) : c < j - 1 <=> c < i - 1 \/ c = i - 1
      BY <1>16 DEF Str!Parts
    <2>. QED
      BY <2>1 DEF PartsBefore
  <1>18. NextPart(s, i, j)
    BY <1>1, <1>2, <1>5, <1>8, <1>11, <1>12, <1>13, <1>15, <1>17 DEF NextPart
  <1>. QED
    BY <1>2, <1>5, <1>13, <1>18

\* At the end there are no more parts.
LEMMA AllPartsBefore ==
    ASSUME NEW C, NEW s \in Seq(C)
    PROVE  PartsBefore(s, Len(s) + 1) = Str!Parts(s)
  <1>1. PICK n \in Nat : n = Len(s)
    BY LenProperties
  <1>2. \A c : c \in Str!Cuts(s) <=> c = 0 \/ (c \in 1 .. n /\ s[c] = "&")
    <2>1. DOMAIN s = 1 .. n
      BY <1>1, LenProperties
    <2>. QED
      BY <2>1 DEF Str!Cuts
  <1>3. Str!Part(s, n) = <<>>
    <2>. DEFINE Ends == {d - 1 : d \in {e \in Str!Cuts(s) : e > n}} \cup {Len(s)}
    <2>1. {e \in Str!Cuts(s) : e > n} = {}
      <3>1. \A e \in Str!Cuts(s) : ~(e > n)
        BY <1>2
      <3>. QED
        BY <3>1
    <2>2. Ends = {n}
      BY <1>1, <2>1
    <2>3. Str!Min(Ends) = n
      <3>1. {n} \in SUBSET Nat /\ {n} # {}
        OBVIOUS
      <3>. QED
        BY <2>2, <3>1, LeastNatural
    <2>4. Str!Part(s, n) = SubSeq(s, n + 1, n)
      BY <2>3 DEF Str!Part
    <2>5. n + 1 > n
      OBVIOUS
    <2>. QED
      BY <2>4, <2>5, SubSeqEmpty
  <1>4. \A c \in Str!Parts(s) : c < (n + 1) - 1
    <2>1. \A c \in Str!Cuts(s) : c \in Nat /\ c <= n
      BY <1>2
    <2>2. \A c \in Str!Parts(s) : c \in Str!Cuts(s) /\ c # n
      BY <1>3 DEF Str!Parts
    <2>3. \A c \in Nat : c <= n /\ c # n => c < (n + 1) - 1
      OBVIOUS
    <2>. QED
      BY <2>1, <2>2, <2>3
  <1>. QED
    BY <1>1, <1>4 DEF PartsBefore

\* The pieces still to come are those from the i-th character on.
Arriving(s, i, rest, map) ==
    /\ i \in 1 .. Len(s) + 1 /\ (i <= Len(s) => i - 1 \in Str!Cuts(s))
    /\ rest = Str!PiecesFrom(s, <<"&">>)[i]
    /\ map = Str!LastValues(s, PartsBefore(s, i))

\* Behind the last character there is no piece.
LEMMA LastPiece ==
    ASSUME NEW C, NEW s \in Seq(C), "&" \in C
    PROVE  Str!PiecesFrom(s, <<"&">>)[Len(s) + 1] = <<>>
  <1>1. PICK n \in Nat : n = Len(s)
    BY LenProperties
  <1>2. <<"&">> \in Seq(C) /\ <<"&">> # <<>>
    OBVIOUS
  <1>3. \A i \in 1 .. Len(s) + 1 : i > Len(s) => Str!PiecesFrom(s, <<"&">>)[i] = <<>>
    BY <1>2, PiecesFromFacts
  <1>4. n + 1 \in 1 .. n + 1 /\ n + 1 > n
    OBVIOUS
  <1>. QED
    BY <1>1, <1>3, <1>4

\* When no piece is left, all parts have been put.
LEMMA AllArrived ==
    ASSUME NEW C, NEW s \in Seq(C), "&" \in C, NEW i, NEW map, Arriving(s, i, <<>>, map)
    PROVE  map = Str!LastValues(s, Str!Parts(s))
  <1>1. PICK n \in Nat : n = Len(s)
    BY LenProperties
  <1>2. i = n + 1
    <2>1. i \in 1 .. n + 1 /\ (i <= n => i - 1 \in Str!Cuts(s)) /\ Str!PiecesFrom(s, <<"&">>)[i] = <<>>
      BY <1>1 DEF Arriving
    <2>2. CASE i <= n
      <3>1. i \in 1 .. Len(s)
        BY <1>1, <2>1, <2>2
      <3>. QED
        BY <2>1, <2>2, <3>1, SomeNextPart
    <2>. QED
      BY <2>1, <2>2
  <1>3. map = Str!LastValues(s, PartsBefore(s, Len(s) + 1))
    BY <1>1, <1>2 DEF Arriving
  <1>. QED
    BY <1>3, AllPartsBefore

\* One iteration of parse_query puts the parameter of one part more.
LEMMA OnePartMore ==
    ASSUME NEW C, NEW s \in Seq(C), "&" \in C, "=" \in C, \A c \in Str!Parts(s) : Str!IsPair(Str!Part(s, c)),
           NEW i, NEW rest, NEW map, Arriving(s, i, rest, map), rest # <<>>
    PROVE  \E j : Arriving(s, j, Tail(rest), Str!Put(map, Str!PiecesOf(Head(rest), <<"=">>)))
  <1>1. PICK n \in Nat : n = Len(s)
    BY LenProperties
  <1>2. /\ i \in 1 .. n + 1 /\ (i <= n => i - 1 \in Str!Cuts(s)) /\ rest = Str!PiecesFrom(s, <<"&">>)[i]
        /\ map = Str!LastValues(s, PartsBefore(s, i))
    BY <1>1 DEF Arriving
  <1>3. i \in 1 .. n
    <2>1. Str!PiecesFrom(s, <<"&">>)[n + 1] = <<>>
      BY <1>1, LastPiece
    <2>2. i # n + 1
      BY <1>2, <2>1
    <2>. QED
      BY <1>2, <2>2
  <1>4. i - 1 \in Str!Cuts(s)
    BY <1>2, <1>3
  <1>5. PICK j : NextPart(s, i, j)
    BY <1>1, <1>3, <1>4, SomeNextPart
  <1>6. PICK c \in Nat : c = i - 1
    <2>1. i - 1 \in Nat
      BY <1>3
    <2>. QED
      BY <2>1
  <1>7. /\ j \in 1 .. Len(s) + 1 /\ (j <= Len(s) => j - 1 \in Str!Cuts(s))
        /\ Head(rest) = Str!Part(s, c) /\ Tail(rest) = Str!PiecesFrom(s, <<"&">>)[j]
        /\ PartsBefore(s, j) = PartsBefore(s, i) \cup ({c} \cap Str!Parts(s))
    BY <1>2, <1>5, <1>6 DEF NextPart
  <1>8. Str!Put(map, Str!PiecesOf(Str!Part(s, c), <<"=">>)) = Str!LastValues(s, PartsBefore(s, j))
    <2>1. CASE Str!Part(s, c) = <<>>
      <3>1. PartsBefore(s, j) = PartsBefore(s, i)
        BY <1>7, <2>1 DEF Str!Parts
      <3>2. Str!PiecesOf(Str!Part(s, c), <<"=">>) = <<>>
        BY <2>1, NoPieces
      <3>3. Len(<<>>) # 2
        OBVIOUS
      <3>. QED
        BY <1>2, <3>1, <3>2, <3>3 DEF Str!Put
    <2>2. CASE Str!Part(s, c) # <<>>
      <3>1. c \in Str!Parts(s)
        BY <1>4, <1>6, <2>2 DEF Str!Parts
      <3>2. PartsBefore(s, j) = PartsBefore(s, i) \cup {c}
        BY <1>7, <3>1
      <3>3. Str!Part(s, c) \in Seq(C)
        <4>1. PICK f : f = Str!Find(s, <<"&">>, i)
          OBVIOUS
        <4>2. Str!Part(s, c) = IF f = 0 THEN SubSeq(s, i, n) ELSE SubSeq(s, i, f - 1)
          BY <1>1, <1>3, <1>6, <4>1, PartIs
        <4>3. f \in Nat /\ (f # 0 => i <= f /\ f <= n)
          <5>1. i \in Nat /\ 1 <= i
            BY <1>3
          <5>. QED
            BY <1>1, <4>1, <5>1, FindChar
        <4>4. CASE f = 0
          <5>1. i \in Nat /\ 1 <= i /\ i <= n + 1 /\ n <= Len(s)
            BY <1>1, <1>3
          <5>. QED
            BY <4>2, <4>4, <5>1, Cut
        <4>5. CASE f # 0
          <5>1. i \in Nat /\ f - 1 \in Nat /\ 1 <= i /\ i <= (f - 1) + 1 /\ f - 1 <= Len(s)
            BY <1>1, <1>3, <4>3, <4>5
          <5>. QED
            BY <4>2, <4>5, <5>1, Cut
        <4>. QED
          BY <4>4, <4>5
      <3>4. Str!PiecesOf(Str!Part(s, c), <<"=">>) = <<Str!Key(Str!Part(s, c)), Str!Value(Str!Part(s, c))>>
        BY <3>1, <3>3, PairPieces
      <3>5. Str!Put(map, <<Str!Key(Str!Part(s, c)), Str!Value(Str!Part(s, c))>>) =
              Str!Assign(map, Str!Key(Str!Part(s, c)), Str!Value(Str!Part(s, c)))
        <4>1. PICK k, v : k = Str!Key(Str!Part(s, c)) /\ v = Str!Value(Str!Part(s, c))
          OBVIOUS
        <4>2. Len(<<k, v>>) = 2 /\ <<k, v>>[1] = k /\ <<k, v>>[2] = v
          OBVIOUS
        <4>3. Str!Put(map, <<k, v>>) = Str!Assign(map, k, v)
          BY <4>2 DEF Str!Put
        <4>. QED
          BY <4>1, <4>3
      <3>6. PartsBefore(s, i) \in SUBSET Nat /\ \A d \in PartsBefore(s, i) : d < c
        <4>1. Str!Cuts(s) \in SUBSET Nat
          <5>1. DOMAIN s = 1 .. n
            BY <1>1, LenProperties
          <5>. QED
            BY <5>1 DEF Str!Cuts
        <4>. QED
          BY <1>6, <4>1 DEF PartsBefore, Str!Parts
      <3>7. Str!Assign(Str!LastValues(s, PartsBefore(s, i)), Str!Key(Str!Part(s, c)), Str!Value(Str!Part(s, c))) =
              Str!LastValues(s, PartsBefore(s, i) \cup {c})
        BY <3>6, OneMoreValue
      <3>. QED
        BY <1>2, <3>2, <3>4, <3>5, <3>7
    <2>. QED
      BY <2>1, <2>2
  <1>9. Arriving(s, j, Tail(rest), Str!Put(map, Str!PiecesOf(Head(rest), <<"=">>)))
    BY <1>7, <1>8 DEF Arriving
  <1>. QED
    BY <1>9

\* A query that ParametersArrive is about.
IsPlain == /\ job.f = "query" /\ \A i \in DOMAIN job.str : job.str[i] \notin Str!Escapes
           /\ \A c \in Str!Parts(job.str) : Str!IsPair(Str!Part(job.str, c))

\* query is a record that is filled only once it could be decoded; from then on it has what
\* the parts before the pieces still to come say.
QueryInv ==
    /\ query = [ok |-> query.ok, ret |-> query.ret]
    /\ ~query.ok => query = Str!NoQuery
    /\ job.f = "query" /\ query.ok /\ status = "done" => pieces = <<>>
    /\ IsPlain => /\ query.ok => \E i : Arriving(job.str, i, pieces, query.ret)
                  /\ status = "done" => query.ok

\* The characters of a query.
LEMMA QueryChars ==
    job \in Str!Jobs /\ job.f = "query" => job.str \in Seq(Chars) /\ "&" \in Chars /\ "=" \in Chars
  BY JobFacts DEF Chars, Str!Symbols

LEMMA QueryInvArrives == Str!TypeOK /\ QueryInv => Str!ParametersArrive
  <1>. SUFFICES ASSUME Str!TypeOK, QueryInv, IsPlain, status = "done"
                PROVE  query.ok /\ query.ret = Str!LastValues(job.str, Str!Parts(job.str))
    BY DEF Str!ParametersArrive, IsPlain
  <1>1. job.f = "query" /\ job \in Str!Jobs
    BY DEF IsPlain, Str!TypeOK
  <1>2. query.ok
    BY DEF QueryInv
  <1>3. pieces = <<>>
    BY <1>1, <1>2 DEF QueryInv
  <1>4. PICK i : Arriving(job.str, i, <<>>, query.ret)
    BY <1>2, <1>3 DEF QueryInv
  <1>5. job.str \in Seq(Chars) /\ "&" \in Chars
    BY <1>1, QueryChars
  <1>. QED
    BY <1>2, <1>4, <1>5, AllArrived

\* Nothing is decoded yet.
LEMMA QueryInit == Str!Init => QueryInv
  <1>. SUFFICES ASSUME Str!Init PROVE QueryInv
    OBVIOUS
  <1>1. query = Str!NoQuery /\ status = "run"
    BY DEF Str!Init
  <1>2. ~query.ok /\ query = [ok |-> query.ok, ret |-> query.ret]
    BY <1>1 DEF Str!NoQuery
  <1>. QED
    BY <1>1, <1>2 DEF QueryInv

\* A step that leaves the query alone, and ends a run only of another function.
LEMMA QueryRests ==
    ASSUME QueryInv, UNCHANGED <<job, query>>, job.f # "query" \/ UNCHANGED <<status, pieces>>
    PROVE  QueryInv'
  BY DEF QueryInv, IsPlain

-----------------------------------------------------------------------------
(* Strings: the invariant.                                                 *)

\* A function without a loop has no iterations; the loop of parse_query is over its pieces.
NoLoop == job.f \notin {"split", "replace"} => loops = 0 /\ status # "far"

\* The inductive invariant of Strings.
StringsInv ==
    /\ Str!TypeOK /\ SplitInv /\ ReplaceInv /\ PassInv /\ QueryInv /\ NoLoop /\ Str!HexStaysInBuffer

\* A step of one function leaves what is said of the others as it is.
LEMMA OthersRest ==
    ASSUME UNCHANGED job
    PROVE  /\ job.f # "split" => SplitInv'
           /\ job.f # "replace" => ReplaceInv' /\ PassInv'
           /\ job.f \in {"split", "replace"} => NoLoop'
           /\ job.f \notin {"hex2str", "str2hex"} => Str!HexStaysInBuffer'
  <1>1. job'.f = job.f
    OBVIOUS
  <1>2. job.f # "split" => SplitInv'
    BY <1>1 DEF SplitInv, SplitEnds, SplitPieces, SplitStays
  <1>3. job.f # "replace" => ReplaceInv' /\ PassInv'
    BY <1>1 DEF ReplaceInv, PassInv
  <1>4. job.f \in {"split", "replace"} => NoLoop'
    BY <1>1 DEF NoLoop
  <1>5. job.f \notin {"hex2str", "str2hex"} => Str!HexStaysInBuffer'
    BY <1>1 DEF Str!HexStaysInBuffer
  <1>. QED
    BY <1>2, <1>3, <1>4, <1>5

\* The invariant in the initial states.
LEMMA StringsInit == Str!Init => StringsInv
  <1>. SUFFICES ASSUME Str!Init PROVE StringsInv
    OBVIOUS
  <1>1. Str!TypeOK
    <2>1. text \in Seq(Str!Letters)
      BY JobFacts DEF Str!Init
    <2>2. loops \in 0 .. MaxLoops /\ at \in 1 .. MaxText + 1
      BY StringsAssumed DEF Str!Init, Str!StringsAssumption
    <2>3. pieces \in Seq(Seq(Str!Letters \cup Str!Symbols \cup Str!Escapes))
      BY DEF Str!Init
    <2>. QED
      BY <2>1, <2>2, <2>3 DEF Str!Init, Str!TypeOK, Str!NoQuery
  <1>2. NoLoop /\ Str!HexStaysInBuffer
    BY DEF Str!Init, NoLoop, Str!HexStaysInBuffer
  <1>. QED
    BY <1>1, <1>2, SplitInit, ReplaceInit, PassInit, QueryInit DEF StringsInv

\* The steps keep it, one by one.
LEMMA SplitInvariance == ASSUME StringsInv, Str!Split PROVE StringsInv'
  <1>1. Str!TypeOK /\ SplitInv /\ QueryInv
    BY DEF StringsInv
  <1>2. /\ job.f = "split" /\ UNCHANGED <<job, text, query, touched>>
        /\ loops < MaxLoops /\ loops' = loops + 1
    BY DEF Str!Split, Str!GoesOn
  <1>3. /\ SplitInv' /\ pieces' \in Seq(Seq(Chars))
        /\ at' \in 1 .. MaxText + 1 /\ status' \in {"run", "done"}
    BY <1>1, SplitStep
  <1>4. Str!TypeOK'
    <2>1. loops' \in 0 .. MaxLoops
      BY <1>1, <1>2, StringsAssumed DEF Str!TypeOK, Str!StringsAssumption
    <2>. QED
      BY <1>1, <1>2, <1>3, <2>1 DEF Str!TypeOK, Chars
  <1>5. QueryInv'
    BY <1>1, <1>2, QueryRests
  <1>. QED
    BY <1>2, <1>3, <1>4, <1>5, OthersRest DEF StringsInv

LEMMA SplitEndInvariance == ASSUME StringsInv, Str!SplitEnd PROVE StringsInv'
  <1>1. Str!TypeOK /\ SplitInv /\ QueryInv
    BY DEF StringsInv
  <1>2. job.f = "split" /\ status' = "done" /\ UNCHANGED <<job, loops, at, text, pieces, query, touched>>
    BY DEF Str!SplitEnd
  <1>3. SplitInv'
    BY <1>1, SplitEndStep
  <1>4. Str!TypeOK'
    BY <1>1, <1>2 DEF Str!TypeOK
  <1>5. QueryInv'
    BY <1>1, <1>2, QueryRests
  <1>. QED
    BY <1>2, <1>3, <1>4, <1>5, OthersRest DEF StringsInv

LEMMA ReplaceInvariance == ASSUME StringsInv, Str!Replace PROVE StringsInv'
  <1>1. Str!TypeOK /\ ReplaceInv /\ PassInv /\ QueryInv
    BY DEF StringsInv
  <1>2. /\ job.f = "replace" /\ UNCHANGED <<job, at, pieces, query, touched>>
        /\ loops < MaxLoops /\ loops' = loops + 1
    BY DEF Str!Replace, Str!GoesOn
  <1>3. text' \in Seq(Str!Letters) /\ status' \in {"run", "done"} /\ ReplaceInv'
    BY <1>1, ReplaceStep
  <1>4. PassInv'
    BY <1>1, PassStep
  <1>5. Str!TypeOK'
    <2>1. loops' \in 0 .. MaxLoops
      BY <1>1, <1>2, StringsAssumed DEF Str!TypeOK, Str!StringsAssumption
    <2>. QED
      BY <1>1, <1>2, <1>3, <2>1 DEF Str!TypeOK
  <1>6. QueryInv'
    BY <1>1, <1>2, QueryRests
  <1>. QED
    BY <1>2, <1>3, <1>4, <1>5, <1>6, OthersRest DEF StringsInv

\* No loop that takes a character every time is so long, and none that goes through texts
\* of one length in their order.
LEMMA FarInvariance == ASSUME StringsInv, Str!Far PROVE StringsInv'
  <1>1. Str!TypeOK /\ SplitInv /\ ReplaceInv /\ PassInv /\ QueryInv /\ NoLoop /\ Str!HexStaysInBuffer
    BY DEF StringsInv
  <1>2. /\ status = "run" /\ loops = MaxLoops /\ status' = "far"
        /\ UNCHANGED <<job, loops, at, text, pieces, query, touched>>
    BY DEF Str!Far
  <1>3. job.f \in {"split", "replace"}
    <2>1. MaxLoops # 0
      BY StringsAssumed DEF Str!StringsAssumption
    <2>. QED
      BY <1>1, <1>2, <2>1 DEF NoLoop
  <1>4. Str!TypeOK'
    BY <1>1, <1>2 DEF Str!TypeOK
  <1>5. SplitInv'
    <2>1. ASSUME job.f = "split" PROVE job.pattern = <<>>
      <3>1. at \in 1 .. MaxText + 1
        BY <1>1 DEF Str!TypeOK
      <3>2. ~(loops < at)
        BY <1>2, <3>1, StringsAssumed DEF Str!StringsAssumption
      <3>. QED
        BY <1>1, <1>2, <2>1, <3>2 DEF SplitInv, SplitEnds
    <2>2. SplitStays'
      BY <1>1, <1>2 DEF SplitInv, SplitStays
    <2>3. SplitEnds' /\ SplitPieces'
      BY <1>1, <1>2, <2>1 DEF SplitInv, SplitEnds, SplitPieces
    <2>. QED
      BY <2>2, <2>3 DEF SplitInv
  <1>6. ReplaceInv'
    BY <1>1, ReplaceIsNotFar
  <1>7. PassInv'
    BY <1>2 DEF PassInv
  <1>8. QueryInv'
    BY <1>1, <1>2, <1>3, QueryRests
  <1>9. NoLoop' /\ Str!HexStaysInBuffer'
    BY <1>2, <1>3, OthersRest
  <1>. QED
    BY <1>4, <1>5, <1>6, <1>7, <1>8, <1>9 DEF StringsInv

\* A step of parse_query disturbs its pieces and its query only.
LEMMA QueryOnly ==
    ASSUME StringsInv, job.f = "query", UNCHANGED <<job, loops, at, text, touched>>,
           status' \in {"run", "done"}, pieces' \in Seq(Seq(Chars)), QueryInv', query'.ok \in BOOLEAN
    PROVE  StringsInv'
  <1>1. Str!TypeOK /\ NoLoop
    BY DEF StringsInv
  <1>2. Str!TypeOK'
    BY <1>1 DEF Str!TypeOK, Chars
  <1>3. NoLoop'
    BY <1>1 DEF NoLoop
  <1>. QED
    BY <1>2, <1>3, OthersRest DEF StringsInv

\* The decoded query is put into pieces; a plain one is the query itself.
LEMMA DecodeInvariance == ASSUME StringsInv, Str!Decode PROVE StringsInv'
  <1>1. Str!TypeOK /\ QueryInv
    BY DEF StringsInv
  <1>2. /\ job.f = "query" /\ status = "run" /\ ~query.ok /\ query = Str!NoQuery
        /\ UNCHANGED <<job, loops, at, text, touched>>
    BY <1>1 DEF Str!Decode, QueryInv
  <1>3. PICK s \in Seq(Chars) : s = job.str /\ "&" \in Chars /\ "=" \in Chars
    BY <1>1, <1>2, QueryChars DEF Str!TypeOK
  <1>4. CASE \E i \in DOMAIN job.str : job.str[i] = "%"
    <2>1. status' = "done" /\ UNCHANGED <<pieces, query>>
      BY <1>4 DEF Str!Decode
    <2>2. ~IsPlain'
      BY <1>2, <1>4 DEF IsPlain, Str!Escapes
    <2>3. QueryInv'
      BY <1>1, <1>2, <2>1, <2>2 DEF QueryInv
    <2>4. pieces \in Seq(Seq(Chars)) /\ query.ok \in BOOLEAN
      BY <1>1 DEF Str!TypeOK, Chars
    <2>. QED
      BY <1>2, <2>1, <2>3, <2>4, QueryOnly
  <1>5. CASE ~\E i \in DOMAIN job.str : job.str[i] = "%"
    <2>1. query' = [query EXCEPT !.ok = TRUE] /\ pieces' = Str!PiecesOf(Str!Decoded, <<"&">>) /\ UNCHANGED status
      BY <1>5 DEF Str!Decode
    <2>2. query' = [ok |-> TRUE, ret |-> Str!NoQuery.ret]
      BY <1>2, <2>1 DEF Str!NoQuery
    <2>3. Str!Decoded \in Seq(Chars)
      <3>1. PICK n \in Nat : n = Len(s) /\ DOMAIN s = 1 .. n
        BY LenProperties
      <3>2. \A i \in 1 .. n : s[i] \in Chars
        BY <3>1, ElementOfSeq
      <3>3. ASSUME NEW i \in 1 .. n
            PROVE  (CASE s[i] = "%26" -> "&" [] s[i] = "%3D" -> "=" [] OTHER -> s[i]) \in Chars
        BY <1>3, <3>2
      <3>4. Str!Decoded = [i \in 1 .. n |-> CASE s[i] = "%26" -> "&" [] s[i] = "%3D" -> "=" [] OTHER -> s[i]]
        BY <1>3, <3>1 DEF Str!Decoded
      <3>5. Str!Decoded \in [1 .. n -> Chars]
        BY <3>3, <3>4
      <3>. QED
        BY <3>5
    <2>4. pieces' \in Seq(Seq(Chars))
      <3>1. <<"&">> \in Seq(Chars) /\ <<"&">> # <<>>
        BY <1>3
      <3>2. Str!PiecesFrom(Str!Decoded, <<"&">>) \in [1 .. Len(Str!Decoded) + 1 -> Seq(Seq(Chars))]
        BY <2>3, <3>1, PiecesFromFacts
      <3>3. PICK n \in Nat : n = Len(Str!Decoded)
        BY <2>3, LenProperties
      <3>4. 1 \in 1 .. n + 1
        OBVIOUS
      <3>. QED
        BY <2>1, <3>2, <3>3, <3>4 DEF Str!PiecesOf
    <2>5. ASSUME IsPlain PROVE Arriving(job.str, 1, pieces', query'.ret)
      <3>1. Str!Decoded = s
        <4>1. PICK n \in Nat : n = Len(s) /\ DOMAIN s = 1 .. n
          BY LenProperties
        <4>2. \A i \in 1 .. n : s[i] # "%26" /\ s[i] # "%3D"
          BY <1>3, <2>5, <4>1 DEF IsPlain, Str!Escapes
        <4>3. Str!Decoded = [i \in 1 .. n |-> CASE s[i] = "%26" -> "&" [] s[i] = "%3D" -> "=" [] OTHER -> s[i]]
          BY <1>3, <4>1 DEF Str!Decoded
        <4>4. Len(Str!Decoded) = n /\ \A i \in 1 .. n : Str!Decoded[i] = s[i]
          BY <4>2, <4>3
        <4>. QED
          BY <2>3, <4>1, <4>4, SeqEqual
      <3>2. PICK n \in Nat : n = Len(s)
        BY LenProperties
      <3>3. 1 \in 1 .. n + 1 /\ 1 - 1 = 0 /\ 0 \in Str!Cuts(s)
        BY DEF Str!Cuts
      <3>4. PartsBefore(s, 1) = {}
        <4>1. \A c \in Str!Cuts(s) : c \in Nat
          <5>1. DOMAIN s = 1 .. n
            BY <3>2, LenProperties
          <5>. QED
            BY <5>1 DEF Str!Cuts
        <4>2. \A c \in Nat : ~(c < 1 - 1)
          OBVIOUS
        <4>. QED
          BY <4>1, <4>2 DEF PartsBefore, Str!Parts
      <3>5. Str!LastValues(s, {}) = Str!NoQuery.ret
        BY DEF Str!LastValues, Str!NoQuery
      <3>6. pieces' = Str!PiecesFrom(s, <<"&">>)[1]
        BY <2>1, <3>1 DEF Str!PiecesOf
      <3>7. query'.ret = Str!LastValues(s, PartsBefore(s, 1))
        BY <2>2, <3>4, <3>5
      <3>8. 1 \in 1 .. Len(s) + 1 /\ 1 - 1 \in Str!Cuts(s)
        BY <3>2, <3>3
      <3>. QED
        BY <1>3, <3>6, <3>7, <3>8 DEF Arriving
    <2>6. QueryInv'
      <3>1. query'.ok /\ query' = [ok |-> query'.ok, ret |-> query'.ret]
        BY <2>2
      <3>2. IsPlain' => IsPlain
        BY <1>2 DEF IsPlain
      <3>3. status' = "run" /\ job' = job
        BY <1>2, <2>1
      <3>. QED
        BY <2>5, <3>1, <3>2, <3>3 DEF QueryInv
    <2>7. query'.ok \in BOOLEAN /\ status' \in {"run", "done"}
      BY <1>2, <2>1, <2>2
    <2>. QED
      BY <1>2, <2>4, <2>6, <2>7, QueryOnly
  <1>. QED
    BY <1>4, <1>5

\* A parameter more.
LEMMA PutParameterInvariance == ASSUME StringsInv, Str!PutParameter PROVE StringsInv'
  <1>1. Str!TypeOK /\ QueryInv
    BY DEF StringsInv
  <1>2. /\ job.f = "query" /\ status = "run" /\ query.ok /\ pieces # <<>>
        /\ query' = [query EXCEPT !.ret = Str!Put(@, Str!PiecesOf(Head(pieces), <<"=">>))]
        /\ pieces' = Tail(pieces) /\ UNCHANGED <<job, status, loops, at, text, touched>>
    BY DEF Str!PutParameter
  <1>3. query'= [ok |-> query.ok, ret |-> Str!Put(query.ret, Str!PiecesOf(Head(pieces), <<"=">>))]
    <2>1. query = [ok |-> query.ok, ret |-> query.ret]
      BY <1>1 DEF QueryInv
    <2>2. PICK o, r, u : o = query.ok /\ r = query.ret /\ u = Str!Put(query.ret, Str!PiecesOf(Head(pieces), <<"=">>))
      OBVIOUS
    <2>3. query' = [query EXCEPT !.ret = u]
      BY <1>2, <2>2
    <2>. QED
      BY <2>1, <2>2, <2>3
  <1>4. query'.ok = query.ok /\ query'.ret = Str!Put(query.ret, Str!PiecesOf(Head(pieces), <<"=">>))
    BY <1>3
  <1>5. pieces' \in Seq(Seq(Chars))
    <2>1. PICK V : V = Seq(Chars)
      OBVIOUS
    <2>2. pieces \in Seq(V)
      BY <1>1, <2>1 DEF Str!TypeOK, Chars
    <2>3. Tail(pieces) \in Seq(V)
      BY <1>2, <2>2, HeadTailProperties
    <2>. QED
      BY <1>2, <2>1, <2>3
  <1>6. ASSUME IsPlain PROVE \E i : Arriving(job.str, i, pieces', query'.ret)
    <2>1. job.str \in Seq(Chars) /\ "&" \in Chars /\ "=" \in Chars
      BY <1>1, <1>2, QueryChars DEF Str!TypeOK
    <2>2. \A c \in Str!Parts(job.str) : Str!IsPair(Str!Part(job.str, c))
      BY <1>6 DEF IsPlain
    <2>3. PICK i : Arriving(job.str, i, pieces, query.ret)
      BY <1>1, <1>2, <1>6 DEF QueryInv
    <2>4. \E j : Arriving(job.str, j, Tail(pieces), Str!Put(query.ret, Str!PiecesOf(Head(pieces), <<"=">>)))
      BY <1>2, <2>1, <2>2, <2>3, OnePartMore
    <2>. QED
      BY <1>2, <1>4, <2>4
  <1>7. QueryInv'
    <2>1. query' = [ok |-> query'.ok, ret |-> query'.ret]
      BY <1>3, <1>4
    <2>2. query'.ok /\ status' = "run" /\ job' = job
      BY <1>2, <1>4
    <2>3. IsPlain' => IsPlain
      BY <1>2 DEF IsPlain
    <2>. QED
      BY <1>6, <2>1, <2>2, <2>3 DEF QueryInv
  <1>8. query'.ok \in BOOLEAN /\ status' \in {"run", "done"}
    BY <1>1, <1>2, <1>4 DEF Str!TypeOK
  <1>. QED
    BY <1>2, <1>5, <1>7, <1>8, QueryOnly

\* Without pieces it is done.
LEMMA ParseEndInvariance == ASSUME StringsInv, Str!ParseEnd PROVE StringsInv'
  <1>1. Str!TypeOK /\ QueryInv
    BY DEF StringsInv
  <1>2. /\ job.f = "query" /\ status = "run" /\ query.ok /\ pieces = <<>> /\ status' = "done"
        /\ UNCHANGED <<job, loops, at, text, pieces, query, touched>>
    BY DEF Str!ParseEnd
  <1>3. QueryInv'
    BY <1>1, <1>2 DEF QueryInv, IsPlain
  <1>4. pieces' \in Seq(Seq(Chars)) /\ query'.ok \in BOOLEAN /\ status' \in {"run", "done"}
    BY <1>1, <1>2 DEF Str!TypeOK, Chars
  <1>. QED
    BY <1>2, <1>3, <1>4, QueryOnly

\* What hex2str and str2hex write.
LEMMA HexInvariance == ASSUME StringsInv, Str!Hex2Str \/ Str!Str2Hex PROVE StringsInv'
  <1>0. Str!TypeOK /\ QueryInv /\ NoLoop /\ job.f \in {"hex2str", "str2hex"} /\ status' = "done"
        /\ UNCHANGED <<job, loops, at, text, pieces, query>>
    BY DEF StringsInv, Str!Hex2Str, Str!Str2Hex
  <1>1. PICK len \in Nat, room \in Nat : len = job.len /\ room = job.size /\ len <= MaxText /\ room <= MaxText
    BY <1>0, JobFacts, StringsAssumed DEF Str!TypeOK, Str!StringsAssumption
  <1>2. MaxText \in Nat
    BY StringsAssumed DEF Str!StringsAssumption
  <1>3. touched' \subseteq 0 .. 2 * MaxText /\ Str!HexStaysInBuffer'
    <2>1. CASE Str!Hex2Str
      <3>1. PICK h : h = Str!HexLength
        OBVIOUS
      <3>2. h \in Nat /\ h <= len /\ (room # 0 => 2 * h <= room - 1)
        <4>1. h = IF len * 2 >= room THEN IF room \div 2 = 0 THEN 0 ELSE room \div 2 - 1 ELSE len
          BY <1>1, <3>1 DEF Str!HexLength
        <4>. QED
          BY <1>1, <4>1
      <3>3. touched' = 0 .. 2 * h /\ job.f = "hex2str"
        BY <2>1, <3>1 DEF Str!Hex2Str
      <3>4. touched' \subseteq 0 .. 2 * MaxText
        BY <1>1, <1>2, <3>2, <3>3
      <3>5. room # 0 => touched' \subseteq 0 .. room - 1
        BY <1>1, <3>2, <3>3
      <3>. QED
        BY <1>0, <1>1, <3>3, <3>4, <3>5 DEF Str!HexStaysInBuffer
    <2>2. CASE Str!Str2Hex
      <3>1. PICK h : h = Str!StrLength
        OBVIOUS
      <3>2. h \in Nat /\ h <= len /\ (h > 2 * room => len = 2 * room + 1)
        <4>1. h = IF len \div 2 > room THEN room * 2 ELSE len
          BY <1>1, <3>1 DEF Str!StrLength
        <4>. QED
          BY <1>1, <4>1
      <3>3. touched' = {i \div 2 : i \in {j \in 0 .. MaxText : j < h /\ j % 2 = 0}} /\ job.f = "str2hex"
        BY <2>2, <3>1 DEF Str!Str2Hex
      <3>4. \A x \in touched' : \E i \in 0 .. MaxText : i < h /\ x = i \div 2
        BY <3>3
      <3>5. touched' \subseteq 0 .. 2 * MaxText
        BY <1>2, <3>4
      <3>6. h <= 2 * room => touched' \subseteq 0 .. room - 1
        BY <1>1, <1>2, <3>2, <3>4
      <3>. QED
        BY <1>0, <1>1, <3>2, <3>3, <3>5, <3>6 DEF Str!HexStaysInBuffer
    <2>. QED
      BY <2>1, <2>2
  <1>4. Str!TypeOK'
    BY <1>0, <1>3 DEF Str!TypeOK
  <1>5. QueryInv' /\ NoLoop'
    BY <1>0, QueryRests DEF NoLoop
  <1>. QED
    BY <1>0, <1>3, <1>4, <1>5, OthersRest DEF StringsInv

\* Every step keeps the invariant.
LEMMA StringsStep == ASSUME StringsInv, [Str!Next]_(Str!vars) PROVE StringsInv'
  <1>1. CASE UNCHANGED Str!vars
    <2>1. UNCHANGED <<job, status, loops, at, text, pieces, query, touched>>
      BY <1>1 DEF Str!vars
    <2>2. Str!TypeOK' /\ QueryInv' /\ NoLoop' /\ Str!HexStaysInBuffer'
      BY <2>1, QueryRests DEF StringsInv, Str!TypeOK, NoLoop, Str!HexStaysInBuffer
    <2>3. SplitInv'
      BY <2>1 DEF StringsInv, SplitInv, SplitEnds, SplitPieces, SplitStays
    <2>4. ReplaceInv' /\ PassInv'
      BY <2>1 DEF StringsInv, ReplaceInv, PassInv
    <2>. QED
      BY <2>2, <2>3, <2>4 DEF StringsInv
  <1>. QED
    BY <1>1, SplitInvariance, SplitEndInvariance, ReplaceInvariance, FarInvariance, DecodeInvariance,
       PutParameterInvariance, ParseEndInvariance, HexInvariance DEF Str!Next

\* The loops end, as string_split's text has an end and so has the order of the texts.
LEMMA StringsInvLoopEnds == StringsInv => Str!LoopEnds
  <1>. SUFFICES ASSUME StringsInv, status = "far", job.pattern # <<>>
                PROVE  job.f = "replace" /\ (job.new = job.pattern \/ Len(job.new) > Len(job.pattern))
    BY DEF Str!LoopEnds
  <1>1. Str!TypeOK /\ SplitInv /\ ReplaceInv /\ NoLoop
    BY DEF StringsInv
  <1>2. job.f = "replace"
    BY <1>1 DEF SplitInv, SplitEnds, NoLoop
  <1>3. PICK m \in Nat, b \in Nat : m = Len(job.pattern) /\ b = Len(job.new)
    BY <1>1, <1>2, JobFacts DEF Str!TypeOK
  <1>4. ~(job.new # job.pattern /\ b <= m)
    BY <1>1, <1>2, <1>3 DEF ReplaceInv
  <1>. QED
    BY <1>2, <1>3, <1>4

\* What the invariant says when a function has returned.
LEMMA StringsInvResults ==
    StringsInv => /\ Str!SplitLosesOnlyTheEnd /\ Str!LoopEnds /\ Str!ReplaceIsOnePass
                  /\ Str!ParametersArrive /\ Str!HexStaysInBuffer
  BY SplitInvLosesOnlyTheEnd, StringsInvLoopEnds, PassInvIsOnePass, QueryInvArrives DEF StringsInv

-----------------------------------------------------------------------------
(* The parts side by side.                                                 *)

\* One part takes the steps, and each step is one of its own.
LEMMA PartsTake ==
    ASSUME [PartsNext]_all
    PROVE  /\ part' = part
           /\ [Next]_vars /\ [Crash!Next]_(Crash!all) /\ [Native!Next]_(Native!vars) /\ [Str!Next]_(Str!vars)
           /\ [Tree!Next]_(Tree!vars) /\ (part # "tree" => UNCHANGED Tree!vars)
  <1>1. /\ UNCHANGED treeVars => UNCHANGED Tree!vars
        /\ UNCHANGED crashVars => UNCHANGED Crash!all
        /\ UNCHANGED nativeVars => UNCHANGED Native!vars
        /\ UNCHANGED stringVars => UNCHANGED Str!vars
    <2>1. UNCHANGED treeVars => UNCHANGED Tree!vars
      BY DEF treeVars, Tree!vars
    <2>2. UNCHANGED crashVars => UNCHANGED Crash!all
      BY DEF crashVars, Crash!all
    <2>3. UNCHANGED nativeVars => UNCHANGED Native!vars
      BY DEF nativeVars, Native!vars, Native!vector, Native!names
    <2>4. UNCHANGED stringVars => UNCHANGED Str!vars
      BY DEF stringVars, Str!vars
    <2>. QED
      BY <2>1, <2>2, <2>3, <2>4
  <1>2. CASE InGroup /\ Next
    BY <1>1, <1>2, Zenon DEF InGroup
  <1>3. CASE InTree /\ Tree!Next
    BY <1>1, <1>3, Zenon DEF InTree
  <1>4. CASE InCrash /\ Crash!Next
    BY <1>1, <1>4, Zenon DEF InCrash
  <1>5. CASE InNative /\ Native!Next
    BY <1>1, <1>5, Zenon DEF InNative
  <1>6. CASE InStrings /\ Str!Next
    BY <1>1, <1>6, Zenon DEF InStrings
  <1>7. CASE UNCHANGED all
    BY <1>1, <1>7, Zenon DEF all
  <1>. QED
    BY <1>2, <1>3, <1>4, <1>5, <1>6, <1>7 DEF PartsNext

\* The inductive invariant: that of FileTree where it takes the steps, as it begins as it
\* should only there.
PartsInv ==
    /\ GroupInv /\ CrashInv /\ NativeInv /\ StringsInv
    /\ part = "tree" => TreeInv /\ SpareInv

LEMMA PartsInvariance == PartsSpec => []PartsInv
  <1>1. PartsInit => PartsInv
    <2>1. PartsInit => GroupInv
      BY GroupInit DEF PartsInit
    <2>2. PartsInit => CrashInv
      BY CrashAssumed, CrashInit DEF PartsInit
    <2>3. PartsInit => NativeInv
      BY NativeAssumed, NativeInit DEF PartsInit
    <2>4. PartsInit => StringsInv
      BY StringsInit DEF PartsInit
    <2>5. PartsInit /\ part = "tree" => TreeInv /\ SpareInv
      <3>1. Tree!Init => visits = <<>> /\ DOMAIN visits = {}
        BY DEF Tree!Init
      <3>. QED
        BY <3>1, TreeInit DEF PartsInit, SpareInv, Visited
    <2>. QED
      BY <2>1, <2>2, <2>3, <2>4, <2>5 DEF PartsInv
  <1>2. PartsInv /\ [PartsNext]_all => PartsInv'
    <2>. SUFFICES ASSUME PartsInv, [PartsNext]_all PROVE PartsInv'
      OBVIOUS
    <2>1. /\ part' = part
          /\ [Next]_vars /\ [Crash!Next]_(Crash!all) /\ [Native!Next]_(Native!vars) /\ [Str!Next]_(Str!vars)
          /\ [Tree!Next]_(Tree!vars)
      BY PartsTake
    <2>2. GroupInv'
      BY <2>1, GroupStep DEF PartsInv
    <2>3. CrashInv'
      BY <2>1, CrashAssumed, CrashStep DEF PartsInv
    <2>4. NativeInv'
      BY <2>1, NativeAssumed, NativeStep DEF PartsInv
    <2>5. StringsInv'
      BY <2>1, StringsStep DEF PartsInv
    <2>6. part = "tree" => TreeInv' /\ SpareInv'
      BY <2>1, TreeStep, SpareStep DEF PartsInv
    <2>. QED
      BY <2>1, <2>2, <2>3, <2>4, <2>5, <2>6 DEF PartsInv
  <1>. QED
    BY <1>1, <1>2, PTL DEF PartsSpec

\* Every variable of every part keeps its type; the counter of WaitGroup is never negative
\* (wait_group.h 17-24), and no match of string_split ends beyond the text (utils.cpp 135-154).
THEOREM PartsKeepTypes == PartsSpec => []PartsTypeOK
  <1>1. PartsInv => PartsTypeOK
    BY DEF PartsInv, PartsTypeOK, GroupInv, TreeInv, CrashInv, NativeInv, StringsInv
  <1>. QED
    BY <1>1, PartsInvariance, PTL

\* wait() returns after what it was called for (wait_group.h 26-31).
THEOREM WaitIsSound == PartsSpec => []WaitMeansDone
  <1>1. PartsInv => WaitMeansDone
    BY DEF PartsInv, GroupInv
  <1>. QED
    BY <1>1, PartsInvariance, PTL

\* The window between the test and the sleep is the only way to lose a wake-up
\* (wait_group.h 21-31).
THEOREM OnlyOneWindow == PartsSpec => []SleepIsExplained
  <1>1. PartsInv => SleepIsExplained
    BY DEF PartsInv, GroupInv, WindowInv, SleepIsExplained
  <1>. QED
    BY <1>1, PartsInvariance, PTL

\* For every tree of the four places, call and white list, whatever mkdir_recursive or
\* traverse_path does beside it and whichever call of the system fails: a removal takes
\* away nothing outside the tree, unless the path is itself a link, and nothing in the
\* white list, and fails for a reason; a traversal none of whose calls fails visits all
\* that stays and is not spared, once (linux_helper.cpp 251-435).
THEOREM TreeStaysKept == PartsSpec => []TreeIsKept
  <1>1. PartsInv => TreeIsKept
    BY TraversalEnds DEF PartsInv, TreeInv, TreeIsKept
  <1>. QED
    BY <1>1, PartsInvariance, PTL

\* What remove_files, remove_dir and mkdir_recursive answer is so at that moment, but for
\* a directory that is to be kept and that readdir did not read to its end
\* (linux_helper.cpp 251-356).
THEOREM TreeAnswers == PartsSpec => TreeAnswersAreTrue
  <1>1. PartsInv /\ [PartsNext]_all =>
            [rpc # "true" /\ rpc' = "true" =>
                IF call.deleteRoot THEN kind'["root"] = "none"
                ELSE \/ "remover" \in denied
                     \/ \A l \in {"dir", "leaf"} \ call.white : before[l] # "none" => l \notin stays']_(Tree!vars)
    <2>. SUFFICES ASSUME PartsInv, [PartsNext]_all, rpc # "true", rpc' = "true"
                  PROVE  IF call.deleteRoot THEN kind'["root"] = "none"
                         ELSE \/ "remover" \in denied
                              \/ \A l \in {"dir", "leaf"} \ call.white : before[l] # "none" => l \notin stays'
      OBVIOUS
    <2>1. part = "tree" /\ [Tree!Next]_(Tree!vars)
      BY PartsTake DEF Tree!vars
    <2>. QED
      BY <2>1, RemovalIsTrue DEF PartsInv
  <1>2. PartsInv /\ [PartsNext]_all =>
            [peer = "mkdir" /\ ppc # "true" /\ ppc' = "true" =>
                kind'["sub"] = "dir" \/ before["sub"] = "file"]_(Tree!vars)
    <2>. SUFFICES ASSUME PartsInv, [PartsNext]_all, peer = "mkdir", ppc # "true", ppc' = "true"
                  PROVE  kind'["sub"] = "dir" \/ before["sub"] = "file"
      OBVIOUS
    <2>1. part = "tree" /\ [Tree!Next]_(Tree!vars)
      BY PartsTake DEF Tree!vars
    <2>. QED
      BY <2>1, MakingIsTrue DEF PartsInv
  <1>. QED
    BY <1>1, <1>2, PartsInvariance, PTL
       DEF PartsSpec, TreeAnswersAreTrue, Tree!TrueMeansGone, Tree!MadeMeansThere

\* However many threads fault in whatever signals, and however often initWithSignals is
\* called: a report names a handled signal, unless several writes added up or there was no
\* eventfd to read; a report without a signal needs a failed step, and so does a write to
\* what is no longer an eventfd (signal_init.c, signal_exception.c).
THEOREM CrashReportsAreGenuine == PartsSpec => []CrashReportIsGenuine
  <1>1. PartsInv => CrashReportIsGenuine
    BY DEF PartsInv, CrashInv, CrashReportIsGenuine
  <1>. QED
    BY <1>1, PartsInvariance, PTL

\* However many adapters come and go under however many loggers, and however often the tag
\* is set: a line goes once to each adapter that is on, disable_adb_log silences no file,
\* and a crash needs a change of the vector or of the tag meanwhile, a tag with a conversion
\* in it, or a file that could not be opened (log.h, log.cpp).
THEOREM NativeLinesAllArrive == PartsSpec => []NativeLinesArrive
  <1>1. PartsInv => NativeLinesArrive
    BY NativeArrives DEF PartsInv, NativeInv, NativeLinesArrive
  <1>. QED
    BY <1>1, PartsInvariance, PTL

\* For every text, pattern, replacement and query over the alphabet, of whatever length: the
\* pieces of string_split are the text without the pattern, less one pattern at its end;
\* replace_all with no letter of the pattern in the replacement replaces each match once;
\* both end for the arguments that LoopEnds leaves; every parameter of a plain query
\* arrives; and the hex functions stay in their buffers but for the two exceptions
\* (utils.cpp 87-180, http_server.cpp 13-34).
THEOREM StringsAreAsMeant == PartsSpec => []StringsResults
  <1>1. PartsInv => StringsResults
    BY StringsInvResults DEF PartsInv, StringsResults
  <1>. QED
    BY <1>1, PartsInvariance, PTL

=============================================================================
