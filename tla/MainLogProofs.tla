---------------------------- MODULE MainLogProofs ----------------------------
(***************************************************************************)
(* Theorems about MainLog, for any threads, loads, hooks, lines and faults *)
(* that fit its bounds.                                                    *)
(***************************************************************************)
EXTENDS MainLog, SequenceTheorems, TLAPS

-----------------------------------------------------------------------------
(* The inductive invariant, in parts.                                      *)

\* The callbacks of a call that are left, and its lines, fit what was counted.
CountOf(t) ==
    /\ seen[t] <= logFileStream
    /\ pc[t] = "idle" => left[t] = 0
    /\ pc[t] # "idle" => left[t] >= 1
    /\ pc[t] = "field" => writes[t] + left[t] <= MaxWrites
    /\ pc[t] \in {"enter", "text", "end", "exit"} =>
          writes[t] >= 1 /\ writes[t] + left[t] <= MaxWrites + 1 /\ lock[t] \in Stream

\* Who is between the entry and the exit of a monitor has it, and nobody else.
MonitorOf(t) ==
    \A s \in Stream : monitor[s] = t <=> pc[t] \in {"text", "end", "exit"} /\ lock[t] = s

Last(s) == file[s][Len(file[s])]
Torn == mixed \cup cut

\* A text that ends a file is torn off, or its end is about to be written.
LastOf(s) ==
    file[s] # <<>> /\ Last(s).part = "text" =>
        \/ Last(s).write \in Torn
        \/ \E t \in Thread : pc[t] = "end" /\ lock[t] = s /\ ThisWrite(t) = Last(s).write

\* The text of a line that stays with one stream is still the last in its file, or what
\* follows is of a line that does not.
TextOf(t) ==
    pc[t] = "end" /\ ThisWrite(t) \notin mixed =>
        file[lock[t]] # <<>> /\ Last(lock[t]).write \in Torn \cup {ThisWrite(t)}

\* Text and end are both there, in this order.
Done(t, k) ==
    \E a \in Parts(t, k, "text"), b \in Parts(t, k, "end") :
        /\ Parts(t, k, "text") = {a} /\ Parts(t, k, "end") = {b}
        /\ a[1] < b[1] \/ (a[1] = b[1] /\ a[2] < b[2])

Absent(t, k) == Parts(t, k, "text") = {} /\ Parts(t, k, "end") = {}
HalfDone(t, k) ==
    /\ \E a \in Parts(t, k, "text") : Parts(t, k, "text") = {a} /\ a[1] <= seen[t]
    /\ Parts(t, k, "end") = {}

\* What is in the files of line k of t.
PartsOf(t) ==
    \A k \in 1 .. MaxWrites :
        /\ k > writes[t] \/ (k = writes[t] /\ pc[t] \in {"enter", "text"}) => Absent(t, k)
        /\ k = writes[t] /\ pc[t] = "end" => HalfDone(t, k)
        /\ k < writes[t] \/ (k = writes[t] /\ pc[t] \in {"idle", "field", "exit"}) =>
              <<t, k>> \in cut \/ Done(t, k)

IInv ==
    /\ TypeOK
    /\ \A t \in Thread : CountOf(t) /\ MonitorOf(t) /\ TextOf(t) /\ PartsOf(t)
    /\ \A s \in Stream : LastOf(s)
    /\ LinesStayWhole

-----------------------------------------------------------------------------
(* Types, counts and monitors.                                             *)

LEMMA TypeStep ==
    ASSUME LogAssumption, IInv, [Next]_vars
    PROVE  TypeOK'
  <1>0. /\ TypeOK /\ MaxLoads \in Nat /\ MaxWrites \in Nat /\ MaxFaults \in Nat
        /\ MaxHooks \in [Method -> Nat] /\ \A t \in Thread : CountOf(t)
    BY DEF IInv, LogAssumption
  <1>. USE DEF TypeOK, Goto, loading, history
  <1>1. ASSUME NEW m \in Method, AddHook(m)
        PROVE  hooks' \in [Method -> Nat] /\ \A n \in Method : hooks'[n] <= MaxHooks[n]
    <2>1. hooks' = [hooks EXCEPT ![m] = hooks[m] + 1] /\ hooks[m] < MaxHooks[m] /\ hooks[m] \in Nat
          /\ MaxHooks[m] \in Nat
      BY <1>0, <1>1 DEF AddHook
    <2>2. hooks[m] + 1 \in Nat /\ hooks[m] + 1 <= MaxHooks[m]
      BY <2>1
    <2>. QED
      BY <1>0, <2>1, <2>2
  <1>2. "cipher" \in Method /\ "launch" \in Method /\ "define" \in Method /\ "uc" \in Method
        /\ "tt" \in Method /\ Logged \subseteq Method
    BY DEF Method, Logged
  <1>3. CASE OpenLog
    <2>1. logFileStream' \in 0 .. MaxLoads /\ 1 \in 0 .. MaxLoads
      BY <1>0, <1>3 DEF OpenLog
    <2>. QED
      BY <1>0, <1>3, <2>1 DEF OpenLog
  <1>4. CASE HookCipher
    BY <1>0, <1>1, <1>2, <1>4 DEF HookCipher
  <1>5. CASE HookLaunch
    BY <1>0, <1>1, <1>2, <1>5 DEF HookLaunch
  <1>6. CASE HookDefine
    BY <1>0, <1>1, <1>2, <1>6 DEF HookDefine
  <1>7. CASE UcHook
    BY <1>0, <1>1, <1>2, <1>7 DEF UcHook
  <1>8. CASE OnEncryptLoaded
    BY <1>0, <1>1, <1>2, <1>8 DEF OnEncryptLoaded
  <1>9. CASE Kill
    BY <1>0, <1>9, EmptySeq DEF Kill
  <1>10. ASSUME NEW t \in Thread, NEW m \in Logged, Call(t, m)
         PROVE  TypeOK'
    <2>1. hooks[m] \in 0 .. MaxWrites
      BY <1>0, <1>2, <1>10 DEF Call
    <2>. QED
      BY <1>0, <1>10, <2>1 DEF Call
  <1>11. ASSUME NEW t \in Thread, WriteLog(t)
         PROVE  TypeOK'
    <2>0. /\ seen[t] \in 0 .. MaxLoads /\ lock[t] \in 0 .. MaxLoads /\ writes[t] \in 0 .. MaxWrites
          /\ left[t] \in 0 .. MaxWrites /\ logFileStream \in 0 .. MaxLoads /\ CountOf(t)
      BY <1>0
    <2>1. \A s \in Stream : Sees(t, s) => seen' \in [Thread -> 0 .. MaxLoads]
      BY <1>0 DEF Sees, Stream
    <2>2. ASSUME pc[t] \in {"text", "end"}
          PROVE  ThisWrite(t) \in Write
      BY <1>0, <2>0, <2>2 DEF CountOf, ThisWrite, Write
    <2>3. ASSUME NEW s \in Stream, Mixes(t, s), pc[t] \in {"text", "end"}
          PROVE  mixed' \subseteq Write
      BY <1>0, <2>2, <2>3 DEF Mixes
    <2>4. ASSUME NEW s \in Stream, NEW p \in {"text", "end"}, Append1(t, s, p), pc[t] \in {"text", "end"}
          PROVE  file' \in [Stream -> Seq(Item)]
      <3>1. [write |-> ThisWrite(t), part |-> p] \in Item
        BY <2>2, <2>4 DEF Item
      <3>2. PICK x \in Item : x = [write |-> ThisWrite(t), part |-> p]
        BY <3>1
      <3>3. file[s] \in Seq(Item) /\ file' = [file EXCEPT ![s] = Append(@, x)]
        BY <1>0, <2>4, <3>2 DEF Append1
      <3>4. Append(file[s], x) \in Seq(Item)
        BY <3>3, AppendProperties
      <3>. QED
        BY <1>0, <3>3, <3>4
    <2>5. CASE ReadField(t)
      <3>1. writes[t] + 1 \in 0 .. MaxWrites
        BY <1>0, <2>0, <2>5 DEF ReadField, CountOf
      <3>2. PICK s \in Stream : Sees(t, s) /\ lock' = [lock EXCEPT ![t] = s]
        BY <2>5 DEF ReadField
      <3>3. s \in 0 .. MaxLoads
        BY <1>0 DEF Stream
      <3>. QED
        BY <1>0, <2>1, <2>5, <3>1, <3>2, <3>3 DEF ReadField
    <2>6. CASE Enter(t)
      BY <1>0, <2>0, <2>6 DEF Enter
    <2>7. CASE WriteText(t)
      BY <1>0, <2>1, <2>3, <2>4, <2>7 DEF WriteText
    <2>8. CASE WriteEnd(t)
      BY <1>0, <2>1, <2>3, <2>4, <2>8 DEF WriteEnd
    <2>9. CASE WriteFails(t)
      <3>1. faults' \in 0 .. MaxFaults /\ cut' \subseteq Write
        BY <1>0, <2>2, <2>9 DEF WriteFails
      <3>. QED
        BY <1>0, <2>1, <2>3, <2>9, <3>1 DEF WriteFails
    <2>10. CASE Exit(t)
      <3>1. left[t] - 1 \in 0 .. MaxWrites
        BY <1>0, <2>0, <2>10 DEF Exit, CountOf
      <3>. QED
        BY <1>0, <2>0, <2>10, <3>1 DEF Exit
    <2>. QED
      BY <1>11, <2>5, <2>6, <2>7, <2>8, <2>9, <2>10 DEF WriteLog
  <1>12. CASE UNCHANGED vars
    BY <1>0, <1>12 DEF vars
  <1>. QED
    BY <1>3, <1>4, <1>5, <1>6, <1>7, <1>8, <1>9, <1>10, <1>11, <1>12
       DEF Next, HandleLoadPackage
LEMMA CountStep ==
    ASSUME LogAssumption, IInv, [Next]_vars, NEW t \in Thread
    PROVE  CountOf(t)'
  <1>0. /\ CountOf(t) /\ MaxLoads \in Nat /\ MaxWrites \in Nat
        /\ logFileStream \in Nat /\ seen[t] \in Nat /\ left[t] \in Nat /\ writes[t] \in Nat
    BY DEF IInv, LogAssumption, TypeOK
  <1>1. /\ seen \in [Thread -> 0 .. MaxLoads] /\ left \in [Thread -> 0 .. MaxWrites]
        /\ pc \in [Thread -> {"idle", "field", "enter", "text", "end", "exit"}]
        /\ lock \in [Thread -> 0 .. MaxLoads] /\ writes \in [Thread -> 0 .. MaxWrites]
        /\ hooks \in [Method -> Nat]
    BY DEF IInv, TypeOK
  <1>2. ASSUME UNCHANGED <<pc, left, lock, writes>>, seen'[t] <= logFileStream'
        PROVE  CountOf(t)'
    BY <1>0, <1>2 DEF CountOf
  <1>3. CASE OpenLog
    <2>1. seen'[t] = IF logFileStream = 0 THEN 1 ELSE seen[t]
      BY <1>3 DEF OpenLog
    <2>2. logFileStream' = logFileStream + 1
      BY <1>3 DEF OpenLog
    <2>3. seen'[t] <= logFileStream'
      BY <1>0, <2>1, <2>2 DEF CountOf
    <2>. QED
      BY <1>2, <1>3, <2>3 DEF OpenLog
  <1>4. CASE HookCipher \/ HookLaunch \/ HookDefine \/ UcHook \/ OnEncryptLoaded \/ UNCHANGED vars
    <2>1. UNCHANGED <<logFileStream, pc, left, seen, lock, writes>>
      BY <1>4 DEF HookCipher, HookLaunch, HookDefine, UcHook, OnEncryptLoaded, vars, history
    <2>. QED
      BY <1>0, <1>2, <2>1 DEF CountOf
  <1>5. CASE Kill
    BY <1>5 DEF Kill, CountOf
  <1>6. ASSUME NEW u \in Thread, NEW m \in Logged, Call(u, m)
        PROVE  CountOf(t)'
    <2>1. hooks[m] \in Nat
      BY <1>1 DEF Method
    <2>2. CASE t = u
      <3>1. pc'[t] = "field" /\ left'[t] = hooks[m] /\ writes'[t] = writes[t] /\ seen'[t] = seen[t]
            /\ logFileStream' = logFileStream
        BY <1>1, <1>6, <2>2 DEF Call, Goto, loading
      <3>2. hooks[m] > 0 /\ writes[t] + hooks[m] <= MaxWrites
        BY <1>6, <2>2 DEF Call
      <3>. QED
        BY <1>0, <2>1, <3>1, <3>2 DEF CountOf
    <2>3. CASE t # u
      <3>1. pc'[t] = pc[t] /\ left'[t] = left[t] /\ UNCHANGED <<seen, lock, writes, logFileStream>>
        BY <1>1, <1>6, <2>3 DEF Call, Goto, loading
      <3>. QED
        BY <1>0, <3>1 DEF CountOf
    <2>. QED
      BY <2>2, <2>3
  <1>7. ASSUME NEW u \in Thread, WriteLog(u), u # t
        PROVE  CountOf(t)'
    <2>1. /\ pc'[t] = pc[t] /\ left'[t] = left[t] /\ seen'[t] = seen[t] /\ lock'[t] = lock[t]
          /\ writes'[t] = writes[t] /\ logFileStream' = logFileStream
      BY <1>1, <1>7 DEF WriteLog, ReadField, Enter, WriteText, WriteEnd, WriteFails, Exit, Sees,
         Goto, loading
    <2>. QED
      BY <1>0, <2>1 DEF CountOf
  <1>8. ASSUME WriteLog(t)
        PROVE  CountOf(t)'
    <2>0. logFileStream' = logFileStream
      BY <1>8 DEF WriteLog, ReadField, Enter, WriteText, WriteEnd, WriteFails, Exit, loading
    <2>1. ASSUME NEW s \in Stream, Sees(t, s)
          PROVE  seen'[t] = s /\ s <= logFileStream
      BY <1>0, <1>1, <2>1 DEF Sees, Stream
    <2>2. CASE ReadField(t)
      <3>1. PICK s \in Stream : Sees(t, s) /\ lock' = [lock EXCEPT ![t] = s]
        BY <2>2 DEF ReadField
      <3>2. /\ pc[t] = "field" /\ pc'[t] = "enter" /\ lock'[t] = s
            /\ writes'[t] = writes[t] + 1 /\ left'[t] = left[t]
        BY <1>1, <2>2, <3>1 DEF ReadField, Goto
      <3>. QED
        BY <1>0, <2>0, <2>1, <3>1, <3>2 DEF CountOf
    <2>3. CASE Enter(t)
      <3>1. pc[t] = "enter" /\ pc'[t] = "text" /\ UNCHANGED <<left, seen, lock, writes>>
        BY <1>1, <2>3 DEF Enter, Goto
      <3>. QED
        BY <1>0, <2>0, <3>1 DEF CountOf
    <2>4. CASE WriteText(t) \/ WriteEnd(t) \/ WriteFails(t)
      <3>1. PICK s \in Stream : Sees(t, s)
        BY <2>4 DEF WriteText, WriteEnd, WriteFails
      <3>2. /\ pc[t] \in {"text", "end"} /\ pc'[t] \in {"end", "exit"}
            /\ UNCHANGED <<left, lock, writes>>
        BY <1>1, <2>4 DEF WriteText, WriteEnd, WriteFails, Goto
      <3>. QED
        BY <1>0, <2>0, <2>1, <3>1, <3>2 DEF CountOf
    <2>5. CASE Exit(t)
      <3>1. /\ pc[t] = "exit" /\ pc'[t] = (IF left[t] = 1 THEN "idle" ELSE "field")
            /\ left'[t] = left[t] - 1 /\ UNCHANGED <<seen, lock, writes>>
        BY <1>1, <2>5 DEF Exit, Goto
      <3>. QED
        BY <1>0, <2>0, <3>1 DEF CountOf
    <2>. QED
      BY <1>8, <2>2, <2>3, <2>4, <2>5 DEF WriteLog
  <1>. QED
    BY <1>3, <1>4, <1>5, <1>6, <1>7, <1>8 DEF Next, HandleLoadPackage

LEMMA MonitorStep ==
    ASSUME LogAssumption, IInv, [Next]_vars, NEW t \in Thread
    PROVE  MonitorOf(t)'
  <1>0. /\ MonitorOf(t) /\ None # t
        /\ \A u \in Thread : CountOf(u) /\ MonitorOf(u)
        /\ monitor \in [Stream -> Thread \cup {None}]
        /\ pc \in [Thread -> {"idle", "field", "enter", "text", "end", "exit"}]
        /\ lock \in [Thread -> 0 .. MaxLoads]
    BY DEF IInv, LogAssumption, TypeOK
  <1>1. ASSUME monitor' = monitor, lock'[t] = lock[t],
               pc'[t] \in {"text", "end", "exit"} <=> pc[t] \in {"text", "end", "exit"}
        PROVE  MonitorOf(t)'
    BY <1>0, <1>1 DEF MonitorOf
  <1>2. CASE HandleLoadPackage \/ UcHook \/ OnEncryptLoaded \/ UNCHANGED vars
    <2>1. UNCHANGED <<monitor, pc, lock>>
      BY <1>2 DEF HandleLoadPackage, OpenLog, HookCipher, HookLaunch, HookDefine, UcHook,
         OnEncryptLoaded, vars, history
    <2>. QED
      BY <1>1, <2>1
  <1>3. CASE Kill
    BY <1>0, <1>3 DEF Kill, MonitorOf
  <1>4. ASSUME NEW u \in Thread, NEW m \in Logged, Call(u, m)
        PROVE  MonitorOf(t)'
    BY <1>0, <1>1, <1>4 DEF Call, Goto
  <1>5. ASSUME NEW u \in Thread, ReadField(u)
        PROVE  MonitorOf(t)'
    <2>1. PICK s \in Stream : lock' = [lock EXCEPT ![u] = s]
      BY <1>5 DEF ReadField
    <2>2. monitor' = monitor /\ pc[u] = "field" /\ pc' = [pc EXCEPT ![u] = "enter"]
      BY <1>5 DEF ReadField, Goto
    <2>3. CASE t = u
      <3>1. pc'[t] = "enter" /\ pc[t] = "field"
        BY <1>0, <2>2, <2>3
      <3>. QED
        BY <1>0, <2>2, <3>1 DEF MonitorOf
    <2>4. CASE t # u
      BY <1>0, <1>1, <2>1, <2>2, <2>4
    <2>. QED
      BY <2>3, <2>4
  <1>6. ASSUME NEW u \in Thread, Enter(u)
        PROVE  MonitorOf(t)'
    <2>1. /\ pc[u] = "enter" /\ pc' = [pc EXCEPT ![u] = "text"] /\ lock' = lock
          /\ monitor[lock[u]] = None /\ monitor' = [monitor EXCEPT ![lock[u]] = u]
          /\ lock[u] \in Stream
      BY <1>0, <1>6 DEF Enter, Goto, CountOf
    <2>2. CASE t = u
      <3>1. pc'[t] = "text" /\ pc[t] = "enter" /\ monitor'[lock[t]] = t
        BY <1>0, <2>1, <2>2
      <3>2. \A s \in Stream : s # lock[t] => monitor'[s] = monitor[s] /\ monitor[s] # t
        BY <1>0, <2>1, <2>2, <3>1 DEF MonitorOf
      <3>. QED
        BY <2>1, <3>1, <3>2 DEF MonitorOf
    <2>3. CASE t # u
      <3>1. pc'[t] = pc[t]
        BY <1>0, <2>1, <2>3
      <3>2. \A s \in Stream : monitor'[s] = t <=> monitor[s] = t
        BY <1>0, <2>1, <2>3
      <3>. QED
        BY <1>0, <2>1, <3>1, <3>2 DEF MonitorOf
    <2>. QED
      BY <2>2, <2>3
  <1>7. ASSUME NEW u \in Thread, WriteText(u) \/ WriteEnd(u) \/ WriteFails(u)
        PROVE  MonitorOf(t)'
    <2>1. /\ monitor' = monitor /\ lock' = lock /\ pc[u] \in {"text", "end"}
          /\ pc' = [pc EXCEPT ![u] = "end"] \/ pc' = [pc EXCEPT ![u] = "exit"]
      BY <1>7 DEF WriteText, WriteEnd, WriteFails, Goto
    <2>2. pc'[t] \in {"text", "end", "exit"} <=> pc[t] \in {"text", "end", "exit"}
      BY <1>0, <2>1
    <2>. QED
      BY <1>1, <2>1, <2>2
  <1>8. ASSUME NEW u \in Thread, Exit(u)
        PROVE  MonitorOf(t)'
    <2>1. /\ pc[u] = "exit" /\ lock' = lock /\ lock[u] \in Stream
          /\ monitor' = [monitor EXCEPT ![lock[u]] = None]
          /\ pc' = [pc EXCEPT ![u] = IF left[u] = 1 THEN "idle" ELSE "field"]
      BY <1>0, <1>8 DEF Exit, Goto, CountOf
    <2>2. monitor[lock[u]] = u
      BY <1>0, <2>1 DEF MonitorOf
    <2>3. CASE t = u
      <3>1. pc'[t] \in {"idle", "field"} /\ pc[t] = "exit"
        BY <1>0, <2>1, <2>3
      <3>2. \A s \in Stream : monitor'[s] # t
        <4>1. ASSUME NEW s \in Stream
              PROVE  monitor'[s] # t
          <5>1. CASE s = lock[t]
            BY <1>0, <2>1, <2>3, <5>1
          <5>2. CASE s # lock[t]
            BY <1>0, <2>1, <2>3, <5>2 DEF MonitorOf
          <5>. QED
            BY <5>1, <5>2
        <4>. QED
          BY <4>1
      <3>. QED
        BY <3>1, <3>2 DEF MonitorOf
    <2>4. CASE t # u
      <3>1. pc'[t] = pc[t]
        BY <1>0, <2>1, <2>4
      <3>2. \A s \in Stream : monitor'[s] = t <=> monitor[s] = t
        BY <1>0, <2>1, <2>2, <2>4
      <3>. QED
        BY <1>0, <2>1, <3>1, <3>2 DEF MonitorOf
    <2>. QED
      BY <2>3, <2>4
  <1>. QED
    BY <1>2, <1>3, <1>4, <1>5, <1>6, <1>7, <1>8 DEF Next, WriteLog

-----------------------------------------------------------------------------
(* What one write adds to the files.                                       *)

LEMMA AppendAdds ==
    ASSUME TypeOK, NEW u \in Thread, ThisWrite(u) \in Write, NEW s \in Stream,
           NEW p \in {"text", "end"}, Append1(u, s, p)
    PROVE  /\ \A e \in Stream \ {s} : file'[e] = file[e]
           /\ Len(file[s]) \in Nat /\ Len(file'[s]) = Len(file[s]) + 1
           /\ DOMAIN file[s] = 1 .. Len(file[s]) /\ DOMAIN file'[s] = 1 .. Len(file[s]) + 1
           /\ \A i \in 1 .. Len(file[s]) : file'[s][i] = file[s][i]
           /\ file'[s][Len(file[s]) + 1] = [write |-> ThisWrite(u), part |-> p]
  <1>1. [write |-> ThisWrite(u), part |-> p] \in Item
    BY DEF Item
  <1>2. PICK x \in Item : x = [write |-> ThisWrite(u), part |-> p]
    BY <1>1
  <1>3. file \in [Stream -> Seq(Item)] /\ file' = [file EXCEPT ![s] = Append(file[s], x)]
    BY <1>2 DEF TypeOK, Append1
  <1>4. PICK f \in Seq(Item) : f = file[s]
    BY <1>3
  <1>5. /\ file'[s] = Append(f, x)
        /\ \A e \in Stream \ {s} : file'[e] = file[e]
    BY <1>3, <1>4
  <1>6. /\ Append(f, x) \in Seq(Item) /\ Len(Append(f, x)) = Len(f) + 1
        /\ \A i \in 1 .. Len(f) : Append(f, x)[i] = f[i]
        /\ Append(f, x)[Len(f) + 1] = x
    BY <1>2, <1>4, AppendProperties
  <1>7. /\ Len(f) \in Nat /\ DOMAIN f = 1 .. Len(f)
        /\ DOMAIN Append(f, x) = 1 .. Len(f) + 1
    BY <1>4, <1>6, LenProperties
  <1>. QED
    BY <1>2, <1>4, <1>5, <1>6, <1>7

\* Nothing is added to any line but the one that is written.
LEMMA OthersKeepParts ==
    ASSUME TypeOK, NEW u \in Thread, ThisWrite(u) \in Write, NEW s \in Stream,
           NEW p \in {"text", "end"}, Append1(u, s, p),
           NEW t, NEW k, NEW q, <<t, k>> # ThisWrite(u) \/ q # p
    PROVE  Parts(t, k, q)' = Parts(t, k, q)
  <1>1. PICK n \in Nat : n = Len(file[s])
    BY AppendAdds
  <1>2. /\ \A e \in Stream \ {s} : file'[e] = file[e]
        /\ DOMAIN file[s] = 1 .. n /\ DOMAIN file'[s] = 1 .. n + 1
        /\ \A i \in 1 .. n : file'[s][i] = file[s][i]
        /\ file'[s][n + 1] = [write |-> ThisWrite(u), part |-> p]
    BY <1>1, AppendAdds
  <1>3. file'[s][n + 1] # [write |-> <<t, k>>, part |-> q]
    BY <1>2
  <1>4. ASSUME NEW e \in Stream
        PROVE  {i \in DOMAIN file'[e] : file'[e][i] = [write |-> <<t, k>>, part |-> q]}
               = {i \in DOMAIN file[e] : file[e][i] = [write |-> <<t, k>>, part |-> q]}
    <2>1. CASE e # s
      BY <1>2, <2>1
    <2>2. CASE e = s
      <3>1. ASSUME NEW i
            PROVE  i \in DOMAIN file'[s] /\ file'[s][i] = [write |-> <<t, k>>, part |-> q]
                   <=> i \in DOMAIN file[s] /\ file[s][i] = [write |-> <<t, k>>, part |-> q]
        <4>1. i \in 1 .. n + 1 <=> i \in 1 .. n \/ i = n + 1
          BY <1>1
        <4>2. n + 1 \notin 1 .. n
          BY <1>1
        <4>. QED
          BY <1>2, <1>3, <4>1, <4>2
      <3>. QED
        BY <2>2, <3>1
    <2>. QED
      BY <2>1, <2>2
  <1>. QED
    BY <1>4 DEF Parts

\* The line that is written gets its part at the end of the file.
LEMMA WriterGetsPart ==
    ASSUME TypeOK, NEW u \in Thread, ThisWrite(u) \in Write, NEW s \in Stream,
           NEW p \in {"text", "end"}, Append1(u, s, p),
           NEW k, <<u, k>> = ThisWrite(u), Parts(u, k, p) = {}
    PROVE  Parts(u, k, p)' = {<<s, Len(file[s]) + 1>>}
  <1>1. PICK n \in Nat : n = Len(file[s])
    BY AppendAdds
  <1>2. /\ \A e \in Stream \ {s} : file'[e] = file[e]
        /\ DOMAIN file[s] = 1 .. n /\ DOMAIN file'[s] = 1 .. n + 1
        /\ \A i \in 1 .. n : file'[s][i] = file[s][i]
        /\ file'[s][n + 1] = [write |-> <<u, k>>, part |-> p]
    BY <1>1, AppendAdds
  <1>3. PICK x : x = [write |-> <<u, k>>, part |-> p]
    OBVIOUS
  <1>4. \A e \in Stream : \A i \in DOMAIN file[e] : file[e][i] # x
    <2>1. SUFFICES ASSUME NEW e \in Stream, NEW i \in DOMAIN file[e], file[e][i] = x
          PROVE  FALSE
      OBVIOUS
    <2>2. <<e, i>> \in {e} \X {j \in DOMAIN file[e] : file[e][j] = [write |-> <<u, k>>, part |-> p]}
      BY <1>3, <2>1
    <2>. QED
      BY <2>2 DEF Parts
  <1>5. ASSUME NEW e \in Stream, e # s
        PROVE  {i \in DOMAIN file'[e] : file'[e][i] = x} = {}
    BY <1>2, <1>4, <1>5
  <1>6. {i \in DOMAIN file'[s] : file'[s][i] = x} = {n + 1}
    <2>1. ASSUME NEW i
          PROVE  i \in DOMAIN file'[s] /\ file'[s][i] = x <=> i = n + 1
      <3>1. i \in 1 .. n + 1 <=> i \in 1 .. n \/ i = n + 1
        BY <1>1
      <3>. QED
        BY <1>2, <1>3, <1>4, <3>1
    <2>. QED
      BY <2>1
  <1>7. Parts(u, k, p)' = UNION {{e} \X {i \in DOMAIN file'[e] : file'[e][i] = x} : e \in Stream}
    BY <1>3 DEF Parts
  <1>8. ASSUME NEW y
        PROVE  y \in Parts(u, k, p)' <=> y = <<s, n + 1>>
    <2>1. y \in Parts(u, k, p)' <=>
          \E e \in Stream : y \in {e} \X {i \in DOMAIN file'[e] : file'[e][i] = x}
      BY <1>7
    <2>2. \A e \in Stream : e # s => {e} \X {i \in DOMAIN file'[e] : file'[e][i] = x} = {}
      BY <1>5
    <2>3. {s} \X {i \in DOMAIN file'[s] : file'[s][i] = x} = {<<s, n + 1>>}
      BY <1>6
    <2>. QED
      BY <2>1, <2>2, <2>3
  <1>. QED
    BY <1>1, <1>8

\* A text that is in the file is before whatever is written next.
LEMMA PartsAreInFile ==
    ASSUME TypeOK, NEW t, NEW k, NEW p, NEW a \in Parts(t, k, p)
    PROVE  a[1] \in Stream /\ a[2] \in 1 .. Len(file[a[1]])
  <1>1. PICK e \in Stream : a \in {e} \X {i \in DOMAIN file[e] : file[e][i] = [write |-> <<t, k>>, part |-> p]}
    BY DEF Parts
  <1>2. a[1] = e /\ a[2] \in DOMAIN file[e]
    BY <1>1
  <1>3. file[e] \in Seq(Item)
    BY DEF TypeOK
  <1>. QED
    BY <1>2, <1>3, LenProperties

LEMMA SameFileSameParts ==
    ASSUME file' = file, NEW t, NEW k, NEW p
    PROVE  Parts(t, k, p)' = Parts(t, k, p)
  BY DEF Parts

-----------------------------------------------------------------------------
(* Each line, while nothing is written and while something is.             *)

\* Steps that write nothing.
LEMMA QuietParts ==
    ASSUME NEW t \in Thread, TypeOK, CountOf(t), PartsOf(t), MaxWrites \in Nat,
           file' = file, cut \subseteq cut', writes'[t] = writes[t],
           seen'[t] \in Nat, seen[t] <= seen'[t],
           \/ pc'[t] = pc[t]
           \/ pc[t] \in {"idle", "field", "exit"} /\ pc'[t] \in {"idle", "field", "exit"}
           \/ pc[t] = "enter" /\ pc'[t] = "text"
           \/ pc[t] \in {"text", "end"} /\ pc'[t] = "exit" /\ ThisWrite(t) \in cut'
    PROVE  PartsOf(t)'
  <1>0. /\ pc[t] \in {"idle", "field", "enter", "text", "end", "exit"} /\ seen[t] \in Nat
        /\ writes[t] \in Nat
    BY DEF TypeOK
  <1>1. \A k, p : Parts(t, k, p)' = Parts(t, k, p)
    BY SameFileSameParts
  <1>2. SUFFICES ASSUME NEW k \in 1 .. MaxWrites
        PROVE  /\ k > writes'[t] \/ (k = writes'[t] /\ pc'[t] \in {"enter", "text"}) => Absent(t, k)'
               /\ k = writes'[t] /\ pc'[t] = "end" => HalfDone(t, k)'
               /\ k < writes'[t] \/ (k = writes'[t] /\ pc'[t] \in {"idle", "field", "exit"}) =>
                     <<t, k>> \in cut' \/ Done(t, k)'
    BY DEF PartsOf
  <1>3. /\ k > writes[t] \/ (k = writes[t] /\ pc[t] \in {"enter", "text"}) => Absent(t, k)
        /\ k = writes[t] /\ pc[t] = "end" => HalfDone(t, k)
        /\ k < writes[t] \/ (k = writes[t] /\ pc[t] \in {"idle", "field", "exit"}) =>
              <<t, k>> \in cut \/ Done(t, k)
    BY <1>2 DEF PartsOf
  <1>4. Absent(t, k)' <=> Absent(t, k)
    BY <1>1 DEF Absent
  <1>5. HalfDone(t, k) => HalfDone(t, k)'
    <2>1. ASSUME HalfDone(t, k)
          PROVE  HalfDone(t, k)'
      <3>1. PICK a \in Parts(t, k, "text") : Parts(t, k, "text") = {a} /\ a[1] <= seen[t]
        BY <2>1 DEF HalfDone
      <3>2. a[1] \in Nat
        BY PartsAreInFile DEF Stream
      <3>3. a[1] <= seen'[t]
        BY <1>0, <3>1, <3>2
      <3>. QED
        BY <1>1, <2>1, <3>1, <3>3 DEF HalfDone
    <2>. QED
      BY <2>1
  <1>6. Done(t, k)' <=> Done(t, k)
    BY <1>1 DEF Done
  <1>7. k = writes[t] => <<t, k>> = ThisWrite(t)
    BY DEF ThisWrite
  <1>. QED
    BY <1>0, <1>3, <1>4, <1>5, <1>6, <1>7

\* Steps in which another thread writes.
LEMMA OtherWritesParts ==
    ASSUME TypeOK, NEW t \in Thread, PartsOf(t), NEW u \in Thread, u # t,
           ThisWrite(u) \in Write, NEW s \in Stream, NEW p \in {"text", "end"}, Append1(u, s, p),
           UNCHANGED <<cut, writes>>, pc'[t] = pc[t], seen'[t] = seen[t]
    PROVE  PartsOf(t)'
  <1>1. \A k, q : Parts(t, k, q)' = Parts(t, k, q)
    <2>1. ASSUME NEW k, NEW q
          PROVE  Parts(t, k, q)' = Parts(t, k, q)
      <3>1. <<t, k>> # ThisWrite(u)
        BY DEF ThisWrite
      <3>. QED
        BY <3>1, OthersKeepParts
    <2>. QED
      BY <2>1
  <1>2. \A k : Absent(t, k)' = Absent(t, k) /\ HalfDone(t, k)' = HalfDone(t, k) /\ Done(t, k)' = Done(t, k)
    <2>1. ASSUME NEW k
          PROVE  Absent(t, k)' = Absent(t, k) /\ HalfDone(t, k)' = HalfDone(t, k) /\ Done(t, k)' = Done(t, k)
      <3>1. Parts(t, k, "text")' = Parts(t, k, "text") /\ Parts(t, k, "end")' = Parts(t, k, "end")
        BY <1>1
      <3>. QED
        BY <3>1 DEF Absent, HalfDone, Done
    <2>. QED
      BY <2>1
  <1>. QED
    BY <1>2 DEF PartsOf

LEMMA TextParts ==
    ASSUME TypeOK, MaxWrites \in Nat, NEW t \in Thread, PartsOf(t), CountOf(t), NEW s \in Stream,
           Append1(t, s, "text"), Sees(t, s), UNCHANGED <<cut, writes>>,
           pc[t] = "text", pc'[t] = "end"
    PROVE  PartsOf(t)'
  <1>0. /\ writes[t] \in Nat /\ writes[t] \in 1 .. MaxWrites /\ ThisWrite(t) \in Write
        /\ seen'[t] = s /\ s \in Nat
    BY DEF TypeOK, CountOf, ThisWrite, Write, Sees, Stream
  <1>1. SUFFICES ASSUME NEW k \in 1 .. MaxWrites
        PROVE  /\ k > writes[t] => Absent(t, k)'
               /\ k = writes[t] => HalfDone(t, k)'
               /\ k < writes[t] => <<t, k>> \in cut \/ Done(t, k)'
    BY <1>0 DEF PartsOf
  <1>2. /\ k > writes[t] => Absent(t, k)
        /\ k = writes[t] => Absent(t, k)
        /\ k < writes[t] => <<t, k>> \in cut \/ Done(t, k)
    BY <1>0, <1>1 DEF PartsOf
  <1>3. CASE k # writes[t]
    <2>1. <<t, k>> # ThisWrite(t)
      BY <1>3 DEF ThisWrite
    <2>2. \A q : Parts(t, k, q)' = Parts(t, k, q)
      BY <1>0, <2>1, OthersKeepParts
    <2>3. Absent(t, k)' = Absent(t, k) /\ Done(t, k)' = Done(t, k)
      BY <2>2 DEF Absent, Done
    <2>. QED
      BY <1>2, <1>3, <2>3
  <1>4. CASE k = writes[t]
    <2>1. <<t, k>> = ThisWrite(t)
      BY <1>4 DEF ThisWrite
    <2>2. Parts(t, k, "text") = {} /\ Parts(t, k, "end") = {}
      BY <1>2, <1>4 DEF Absent
    <2>3. Parts(t, k, "text")' = {<<s, Len(file[s]) + 1>>}
      BY <1>0, <2>1, <2>2, WriterGetsPart
    <2>4. Parts(t, k, "end")' = {}
      BY <1>0, <2>1, <2>2, OthersKeepParts
    <2>5. PICK a : a = <<s, Len(file[s]) + 1>>
      OBVIOUS
    <2>6. a[1] = s /\ s <= seen'[t]
      BY <1>0, <2>5
    <2>7. HalfDone(t, k)'
      BY <2>3, <2>4, <2>5, <2>6 DEF HalfDone
    <2>. QED
      BY <1>0, <1>4, <2>7
  <1>. QED
    BY <1>3, <1>4

LEMMA EndParts ==
    ASSUME TypeOK, MaxWrites \in Nat, NEW t \in Thread, PartsOf(t), CountOf(t), NEW s \in Stream,
           Append1(t, s, "end"), Sees(t, s), UNCHANGED <<cut, writes>>,
           pc[t] = "end", pc'[t] = "exit"
    PROVE  PartsOf(t)'
  <1>0. /\ writes[t] \in Nat /\ writes[t] \in 1 .. MaxWrites /\ ThisWrite(t) \in Write
        /\ seen[t] <= s /\ s \in Nat /\ seen[t] \in Nat
    BY DEF TypeOK, CountOf, ThisWrite, Write, Sees, Stream
  <1>1. SUFFICES ASSUME NEW k \in 1 .. MaxWrites
        PROVE  /\ k > writes[t] => Absent(t, k)'
               /\ k = writes[t] => Done(t, k)'
               /\ k < writes[t] => <<t, k>> \in cut \/ Done(t, k)'
    BY <1>0 DEF PartsOf
  <1>2. /\ k > writes[t] => Absent(t, k)
        /\ k = writes[t] => HalfDone(t, k)
        /\ k < writes[t] => <<t, k>> \in cut \/ Done(t, k)
    BY <1>0, <1>1 DEF PartsOf
  <1>3. CASE k # writes[t]
    <2>1. <<t, k>> # ThisWrite(t)
      BY <1>3 DEF ThisWrite
    <2>2. \A q : Parts(t, k, q)' = Parts(t, k, q)
      BY <1>0, <2>1, OthersKeepParts
    <2>3. Absent(t, k)' = Absent(t, k) /\ Done(t, k)' = Done(t, k)
      BY <2>2 DEF Absent, Done
    <2>. QED
      BY <1>2, <1>3, <2>3
  <1>4. CASE k = writes[t]
    <2>1. <<t, k>> = ThisWrite(t)
      BY <1>4 DEF ThisWrite
    <2>2. PICK a \in Parts(t, k, "text") : Parts(t, k, "text") = {a} /\ a[1] <= seen[t]
      BY <1>2, <1>4 DEF HalfDone
    <2>3. Parts(t, k, "end") = {}
      BY <1>2, <1>4 DEF HalfDone
    <2>4. PICK b : b = <<s, Len(file[s]) + 1>>
      OBVIOUS
    <2>5. Parts(t, k, "end")' = {b}
      BY <1>0, <2>1, <2>3, <2>4, WriterGetsPart
    <2>6. Parts(t, k, "text")' = {a}
      BY <1>0, <2>1, <2>2, OthersKeepParts
    <2>7. a[1] \in Stream /\ a[2] \in 1 .. Len(file[a[1]])
      BY PartsAreInFile
    <2>8. PICK n \in Nat : n = Len(file[s])
      BY <1>0, AppendAdds
    <2>9. b[1] = s /\ b[2] = n + 1
      BY <2>4, <2>8
    <2>10. a[1] \in Nat /\ (a[1] < s \/ a[1] = s)
      BY <1>0, <2>2, <2>7 DEF Stream
    <2>11. a[1] = s => a[2] < n + 1
      BY <2>7, <2>8
    <2>12. a[1] < b[1] \/ (a[1] = b[1] /\ a[2] < b[2])
      BY <2>9, <2>10, <2>11, Zenon
    <2>13. Done(t, k)'
      BY <2>5, <2>6, <2>12 DEF Done
    <2>. QED
      BY <1>0, <1>4, <2>13
  <1>. QED
    BY <1>3, <1>4

LEMMA PartsStep ==
    ASSUME LogAssumption, IInv, [Next]_vars, NEW t \in Thread
    PROVE  PartsOf(t)'
  <1>0. /\ TypeOK /\ PartsOf(t) /\ CountOf(t) /\ MaxWrites \in Nat
        /\ \A u \in Thread : CountOf(u)
    BY DEF IInv, LogAssumption
  <1>1. /\ pc \in [Thread -> {"idle", "field", "enter", "text", "end", "exit"}]
        /\ seen \in [Thread -> 0 .. MaxLoads] /\ writes \in [Thread -> 0 .. MaxWrites]
        /\ logFileStream \in Nat /\ seen[t] \in Nat /\ writes[t] \in Nat
    BY <1>0 DEF TypeOK
  <1>2. CASE OpenLog
    <2>1. UNCHANGED <<file, pc, writes, cut>> /\ seen'[t] = IF logFileStream = 0 THEN 1 ELSE seen[t]
      BY <1>2 DEF OpenLog, history
    <2>2. seen'[t] \in Nat /\ seen[t] <= seen'[t]
      BY <1>0, <1>1, <2>1 DEF CountOf
    <2>. QED
      BY <1>0, <2>1, <2>2, QuietParts
  <1>3. CASE HookCipher \/ HookLaunch \/ HookDefine \/ UcHook \/ OnEncryptLoaded \/ UNCHANGED vars
    <2>1. UNCHANGED <<file, pc, writes, cut, seen>>
      BY <1>3 DEF HookCipher, HookLaunch, HookDefine, UcHook, OnEncryptLoaded, vars, history
    <2>2. seen'[t] \in Nat /\ seen[t] <= seen'[t]
      BY <1>1, <2>1
    <2>. QED
      BY <1>0, <2>1, <2>2, QuietParts
  <1>4. CASE Kill
    <2>1. writes'[t] = 0 /\ \A s \in Stream : file'[s] = <<>>
      BY <1>4 DEF Kill
    <2>2. \A s \in Stream : DOMAIN file'[s] = {}
      BY <2>1
    <2>3. \A k, p : Parts(t, k, p)' = {}
      BY <2>2 DEF Parts
    <2>4. \A k : Absent(t, k)'
      BY <2>3 DEF Absent
    <2>5. \A k \in 1 .. MaxWrites : k > writes'[t]
      BY <1>0, <2>1
    <2>6. \A k \in 1 .. MaxWrites : ~ (k = writes'[t]) /\ ~ (k < writes'[t])
      BY <1>0, <2>1
    <2>. QED
      BY <2>4, <2>6 DEF PartsOf
  <1>5. ASSUME NEW u \in Thread, NEW m \in Logged, Call(u, m)
        PROVE  PartsOf(t)'
    <2>1. /\ UNCHANGED <<file, cut, writes, seen>>
          /\ pc[u] = "idle" /\ pc' = [pc EXCEPT ![u] = "field"]
      BY <1>5 DEF Call, Goto, history
    <2>2. pc'[t] = pc[t] \/ (pc[t] = "idle" /\ pc'[t] = "field")
      BY <1>1, <2>1
    <2>3. seen'[t] \in Nat /\ seen[t] <= seen'[t]
      BY <1>1, <2>1
    <2>. QED
      BY <1>0, <2>1, <2>2, <2>3, QuietParts
  <1>6. ASSUME NEW u \in Thread, WriteLog(u), u # t
        PROVE  PartsOf(t)'
    <2>1. pc'[t] = pc[t] /\ seen'[t] = seen[t] /\ writes'[t] = writes[t]
      BY <1>1, <1>6 DEF WriteLog, ReadField, Enter, WriteText, WriteEnd, WriteFails, Exit, Sees, Goto
    <2>2. CASE WriteText(u) \/ WriteEnd(u)
      <3>1. PICK s \in Stream, p \in {"text", "end"} : Append1(u, s, p)
        BY <2>2 DEF WriteText, WriteEnd
      <3>2. UNCHANGED <<cut, writes>> /\ pc[u] \in {"text", "end"}
        BY <2>2 DEF WriteText, WriteEnd
      <3>3. ThisWrite(u) \in Write
        BY <1>0, <1>1, <3>2 DEF CountOf, ThisWrite, Write
      <3>. QED
        BY <1>0, <1>6, <2>1, <3>1, <3>2, <3>3, OtherWritesParts
    <2>3. CASE ReadField(u) \/ Enter(u) \/ WriteFails(u) \/ Exit(u)
      <3>1. file' = file /\ cut \subseteq cut'
        BY <2>3 DEF ReadField, Enter, WriteFails, Exit, history
      <3>2. seen'[t] \in Nat /\ seen[t] <= seen'[t]
        BY <1>1, <2>1
      <3>. QED
        BY <1>0, <2>1, <3>1, <3>2, QuietParts
    <2>. QED
      BY <1>6, <2>2, <2>3 DEF WriteLog
  <1>7. ASSUME WriteLog(t)
        PROVE  PartsOf(t)'
    <2>1. ASSUME NEW s \in Stream, Sees(t, s)
          PROVE  seen'[t] \in Nat /\ seen[t] <= seen'[t]
      BY <1>1, <2>1 DEF Sees, Stream
    <2>2. CASE ReadField(t)
      <3>1. /\ file' = file /\ cut' = cut /\ pc[t] = "field" /\ pc'[t] = "enter"
            /\ writes'[t] = writes[t] + 1
        BY <1>1, <2>2 DEF ReadField, Goto, history
      <3>2. SUFFICES ASSUME NEW k \in 1 .. MaxWrites
            PROVE  /\ k > writes'[t] \/ k = writes'[t] => Absent(t, k)'
                   /\ k < writes'[t] => <<t, k>> \in cut' \/ Done(t, k)'
        BY <3>1 DEF PartsOf
      <3>3. /\ k > writes[t] => Absent(t, k)
            /\ k < writes[t] \/ k = writes[t] => <<t, k>> \in cut \/ Done(t, k)
        BY <1>0, <3>1, <3>2 DEF PartsOf
      <3>4. \A q : Parts(t, k, q)' = Parts(t, k, q)
        BY <3>1, SameFileSameParts
      <3>5. Absent(t, k)' = Absent(t, k) /\ Done(t, k)' = Done(t, k)
        BY <3>4 DEF Absent, Done
      <3>6. /\ k > writes'[t] \/ k = writes'[t] => k > writes[t]
            /\ k < writes'[t] => k < writes[t] \/ k = writes[t]
        BY <1>1, <3>1, <3>2
      <3>. QED
        BY <3>1, <3>3, <3>5, <3>6
    <2>3. CASE Enter(t)
      <3>1. UNCHANGED <<file, cut, seen, writes>> /\ pc[t] = "enter" /\ pc'[t] = "text"
        BY <1>1, <2>3 DEF Enter, Goto, history
      <3>2. seen'[t] \in Nat /\ seen[t] <= seen'[t]
        BY <1>1, <3>1
      <3>. QED
        BY <1>0, <3>1, <3>2, QuietParts
    <2>4. CASE WriteText(t)
      <3>1. PICK s \in Stream : Sees(t, s) /\ Append1(t, s, "text")
        BY <2>4 DEF WriteText
      <3>2. UNCHANGED <<cut, writes>> /\ pc[t] = "text" /\ pc'[t] = "end"
        BY <1>1, <2>4 DEF WriteText, Goto
      <3>. QED
        BY <1>0, <3>1, <3>2, TextParts
    <2>5. CASE WriteEnd(t)
      <3>1. PICK s \in Stream : Sees(t, s) /\ Append1(t, s, "end")
        BY <2>5 DEF WriteEnd
      <3>2. UNCHANGED <<cut, writes>> /\ pc[t] = "end" /\ pc'[t] = "exit"
        BY <1>1, <2>5 DEF WriteEnd, Goto
      <3>. QED
        BY <1>0, <3>1, <3>2, EndParts
    <2>6. CASE WriteFails(t)
      <3>1. PICK s \in Stream : Sees(t, s)
        BY <2>6 DEF WriteFails
      <3>2. /\ UNCHANGED <<file, writes>> /\ pc[t] \in {"text", "end"} /\ pc'[t] = "exit"
            /\ cut' = cut \cup {ThisWrite(t)}
        BY <1>1, <2>6 DEF WriteFails, Goto
      <3>. QED
        BY <1>0, <2>1, <3>1, <3>2, QuietParts
    <2>7. CASE Exit(t)
      <3>1. UNCHANGED <<file, cut, seen, writes>> /\ pc[t] = "exit" /\ pc'[t] \in {"idle", "field"}
        BY <1>1, <2>7 DEF Exit, Goto, history
      <3>2. seen'[t] \in Nat /\ seen[t] <= seen'[t]
        BY <1>1, <3>1
      <3>. QED
        BY <1>0, <3>1, <3>2, QuietParts
    <2>. QED
      BY <1>7, <2>2, <2>3, <2>4, <2>5, <2>6, <2>7 DEF WriteLog
  <1>. QED
    BY <1>2, <1>3, <1>4, <1>5, <1>6, <1>7 DEF Next, HandleLoadPackage

-----------------------------------------------------------------------------
(* Neighbours in a file.                                                   *)

\* What the three parts of the invariant about neighbours say together.
Neighbours ==
    (\A t \in Thread : TextOf(t)) /\ (\A s \in Stream : LastOf(s)) /\ LinesStayWhole

\* Steps that write nothing: a thread before the end of its line stays there, or its
\* write has failed, and no other comes there.
LEMMA QuietNeighbours ==
    ASSUME TypeOK, Neighbours, file' = file, mixed \subseteq mixed', cut \subseteq cut',
           \A t \in Thread : pc[t] = "end" =>
               \/ pc'[t] = "end" /\ lock'[t] = lock[t] /\ writes'[t] = writes[t]
               \/ ThisWrite(t) \in cut',
           \A t \in Thread : pc'[t] = "end" =>
               pc[t] = "end" /\ lock'[t] = lock[t] /\ writes'[t] = writes[t]
    PROVE  Neighbours'
  <1>1. Torn \subseteq Torn'
    BY DEF Torn
  <1>2. \A s : Last(s)' = Last(s)
    BY DEF Last
  <1>3. ASSUME NEW t \in Thread
        PROVE  TextOf(t)'
    <2>1. SUFFICES ASSUME pc'[t] = "end", <<t, writes'[t]>> \notin mixed'
          PROVE  file'[lock'[t]] # <<>>
                 /\ file'[lock'[t]][Len(file'[lock'[t]])].write \in Torn' \cup {<<t, writes'[t]>>}
      BY DEF TextOf, ThisWrite, Last
    <2>2. pc[t] = "end" /\ lock'[t] = lock[t] /\ writes'[t] = writes[t]
      BY <2>1
    <2>3. <<t, writes[t]>> \notin mixed
      BY <2>1, <2>2
    <2>4. TextOf(t)
      BY DEF Neighbours
    <2>5. file[lock[t]] # <<>>
          /\ file[lock[t]][Len(file[lock[t]])].write \in Torn \cup {<<t, writes[t]>>}
      BY <2>2, <2>3, <2>4 DEF TextOf, ThisWrite, Last
    <2>. QED
      BY <1>1, <2>2, <2>5
  <1>4. ASSUME NEW s \in Stream
        PROVE  LastOf(s)'
    <2>1. SUFFICES ASSUME file[s] # <<>>, Last(s).part = "text"
          PROVE  \/ Last(s).write \in Torn'
                 \/ \E t \in Thread : pc'[t] = "end" /\ lock'[t] = s /\ <<t, writes'[t]>> = Last(s).write
      BY <1>2 DEF LastOf, ThisWrite
    <2>2. LastOf(s)
      BY DEF Neighbours
    <2>3. CASE Last(s).write \in Torn
      BY <1>1, <2>3
    <2>4. CASE \E t \in Thread : pc[t] = "end" /\ lock[t] = s /\ ThisWrite(t) = Last(s).write
      <3>1. PICK t \in Thread : pc[t] = "end" /\ lock[t] = s /\ ThisWrite(t) = Last(s).write
        BY <2>4
      <3>2. CASE ThisWrite(t) \in cut'
        BY <3>1, <3>2 DEF Torn
      <3>3. CASE pc'[t] = "end" /\ lock'[t] = lock[t] /\ writes'[t] = writes[t]
        BY <3>1, <3>3 DEF ThisWrite
      <3>. QED
        BY <3>1, <3>2, <3>3
    <2>. QED
      BY <2>1, <2>2, <2>3, <2>4 DEF LastOf
  <1>5. LinesStayWhole'
    <2>1. SUFFICES ASSUME NEW s \in Stream, NEW i \in 1 .. Len(file[s]) - 1
          PROVE  \/ file[s][i].part = "end" /\ file[s][i + 1].part = "text"
                 \/ file[s][i].write = file[s][i + 1].write
                 \/ {file[s][i].write, file[s][i + 1].write} \cap (mixed' \cup cut') # {}
      BY DEF LinesStayWhole
    <2>2. \/ file[s][i].part = "end" /\ file[s][i + 1].part = "text"
          \/ file[s][i].write = file[s][i + 1].write
          \/ {file[s][i].write, file[s][i + 1].write} \cap (mixed \cup cut) # {}
      BY DEF Neighbours, LinesStayWhole
    <2>. QED
      BY <2>2
  <1>. QED
    BY <1>3, <1>4, <1>5 DEF Neighbours

\* Steps in which u writes a part of its line to s, under the monitor it holds.
LEMMA WrittenNeighbours ==
    ASSUME TypeOK, Neighbours, \A t \in Thread : MonitorOf(t),
           \A t \in Thread : CountOf(t), NEW u \in Thread, ThisWrite(u) \in Write,
           NEW s \in Stream, NEW p \in {"text", "end"}, Append1(u, s, p), Mixes(u, s),
           UNCHANGED <<lock, writes, cut>>, pc[u] = p,
           pc' = [pc EXCEPT ![u] = IF p = "text" THEN "end" ELSE "exit"]
    PROVE  Neighbours'
  <1>1. PICK n \in Nat : n = Len(file[s])
    BY AppendAdds
  <1>2. /\ \A e \in Stream : e # s => file'[e] = file[e]
        /\ Len(file'[s]) = n + 1
        /\ \A i \in 1 .. n : file'[s][i] = file[s][i]
        /\ file'[s][n + 1] = [write |-> ThisWrite(u), part |-> p]
    BY <1>1, AppendAdds
  <1>3. file'[s] # <<>> /\ (n # 0 => file[s] # <<>> /\ Last(s) = file[s][n])
    BY <1>1, <1>2 DEF Last
  <1>4. PICK w : w = ThisWrite(u)
    OBVIOUS
  <1>5. file'[s][n + 1].write = w /\ file'[s][n + 1].part = p
    BY <1>2, <1>4
  <1>6. Torn \subseteq Torn' /\ mixed \subseteq mixed' /\ (s # lock[u] => w \in mixed')
        /\ mixed' \subseteq Torn' /\ Torn' = mixed' \cup cut'
    BY <1>4 DEF Torn, Mixes
  <1>7. \A t \in Thread : t # u => pc'[t] = pc[t]
    BY DEF TypeOK
  <1>8. pc'[u] = (IF p = "text" THEN "end" ELSE "exit")
    BY DEF TypeOK
  <1>9. \A t \in Thread : ThisWrite(t)' = ThisWrite(t)
    BY DEF ThisWrite
  \* Nobody else is before the end of its line under the monitor of u.
  <1>10. ASSUME NEW t \in Thread, t # u, pc[t] = "end", lock[t] = lock[u]
         PROVE  FALSE
    <2>0. lock[u] \in Stream
      BY <1>10 DEF CountOf
    <2>1. monitor[lock[u]] = t
      BY <1>10, <2>0 DEF MonitorOf
    <2>2. monitor[lock[u]] = u
      BY <2>0 DEF MonitorOf
    <2>. QED
      BY <1>10, <2>1, <2>2
  <1>11. ASSUME NEW t \in Thread
         PROVE  TextOf(t)'
    <2>1. SUFFICES ASSUME pc'[t] = "end", ThisWrite(t) \notin mixed'
          PROVE  file'[lock[t]] # <<>>
                 /\ file'[lock[t]][Len(file'[lock[t]])].write \in Torn' \cup {ThisWrite(t)}
      BY <1>9 DEF TextOf, Last
    <2>2. CASE t = u
      <3>1. s = lock[t]
        BY <1>4, <1>6, <2>1, <2>2
      <3>. QED
        BY <1>2, <1>3, <1>4, <1>5, <2>2, <3>1
    <2>3. CASE t # u
      <3>1. pc[t] = "end" /\ ThisWrite(t) \notin mixed /\ TextOf(t)
        BY <1>6, <1>7, <2>1, <2>3 DEF Neighbours
      <3>2. file[lock[t]] # <<>>
            /\ file[lock[t]][Len(file[lock[t]])].write \in Torn \cup {ThisWrite(t)}
        BY <3>1 DEF TextOf, Last
      <3>3. lock[t] \in Stream
        BY <3>1 DEF CountOf
      <3>4. CASE lock[t] # s
        BY <1>2, <1>6, <3>2, <3>3, <3>4
      <3>5. CASE lock[t] = s
        <4>1. s # lock[u]
          BY <1>10, <2>3, <3>1, <3>5
        <4>2. w \in Torn'
          BY <1>6, <4>1
        <4>. QED
          BY <1>2, <1>3, <1>5, <3>5, <4>2
      <3>. QED
        BY <3>4, <3>5
    <2>. QED
      BY <2>2, <2>3
  <1>12. ASSUME NEW e \in Stream
         PROVE  LastOf(e)'
    <2>0. LastOf(e)'
          <=> (file'[e] # <<>> /\ file'[e][Len(file'[e])].part = "text" =>
                \/ file'[e][Len(file'[e])].write \in Torn'
                \/ \E t \in Thread : pc'[t] = "end" /\ lock[t] = e
                                     /\ ThisWrite(t) = file'[e][Len(file'[e])].write)
      BY <1>9 DEF LastOf, Last
    <2>1. CASE e = s
      <3>1. SUFFICES ASSUME p = "text"
            PROVE  w \in Torn' \/ (pc'[u] = "end" /\ lock[u] = s)
        BY <1>2, <1>4, <1>5, <2>0, <2>1
      <3>. QED
        BY <1>6, <1>8, <3>1
    <2>2. CASE e # s
      <3>1. file'[e] = file[e]
        BY <1>2, <2>2
      <3>2. SUFFICES ASSUME file[e] # <<>>, Last(e).part = "text"
            PROVE  \/ Last(e).write \in Torn'
                   \/ \E t \in Thread : pc'[t] = "end" /\ lock[t] = e /\ ThisWrite(t) = Last(e).write
        BY <2>0, <3>1 DEF Last
      <3>3. LastOf(e)
        BY DEF Neighbours
      <3>4. CASE Last(e).write \in Torn
        BY <1>6, <3>4
      <3>5. CASE \E t \in Thread : pc[t] = "end" /\ lock[t] = e /\ ThisWrite(t) = Last(e).write
        <4>1. PICK t \in Thread : pc[t] = "end" /\ lock[t] = e /\ ThisWrite(t) = Last(e).write
          BY <3>5
        <4>2. CASE t = u
          <5>1. w \in Torn'
            BY <1>6, <2>2, <4>1, <4>2
          <5>. QED
            BY <1>4, <4>1, <4>2, <5>1
        <4>3. CASE t # u
          BY <1>7, <4>1, <4>3
        <4>. QED
          BY <4>2, <4>3
      <3>. QED
        BY <3>2, <3>3, <3>4, <3>5 DEF LastOf
    <2>. QED
      BY <2>1, <2>2
  <1>13. LinesStayWhole'
    <2>0. SUFFICES ASSUME NEW e \in Stream, NEW i \in 1 .. Len(file'[e]) - 1
          PROVE  \/ file'[e][i].part = "end" /\ file'[e][i + 1].part = "text"
                 \/ file'[e][i].write = file'[e][i + 1].write
                 \/ {file'[e][i].write, file'[e][i + 1].write} \cap (mixed' \cup cut') # {}
      BY DEF LinesStayWhole
    <2>1. ASSUME NEW j \in 1 .. Len(file[e]) - 1
          PROVE  \/ file[e][j].part = "end" /\ file[e][j + 1].part = "text"
                 \/ file[e][j].write = file[e][j + 1].write
                 \/ {file[e][j].write, file[e][j + 1].write} \cap (mixed' \cup cut') # {}
      <3>1. \/ file[e][j].part = "end" /\ file[e][j + 1].part = "text"
            \/ file[e][j].write = file[e][j + 1].write
            \/ {file[e][j].write, file[e][j + 1].write} \cap (mixed \cup cut) # {}
        BY DEF Neighbours, LinesStayWhole
      <3>. QED
        BY <1>6, <3>1
    <2>2. CASE e # s
      <3>1. file'[e] = file[e]
        BY <1>2, <2>2
      <3>. QED
        BY <2>0, <2>1, <3>1
    <2>3. CASE e = s /\ i # n
      <3>1. i \in 1 .. n /\ i + 1 \in 1 .. n /\ i \in 1 .. n - 1
        BY <1>1, <1>2, <2>0, <2>3
      <3>2. file'[s][i] = file[s][i] /\ file'[s][i + 1] = file[s][i + 1]
        BY <1>2, <3>1
      <3>. QED
        BY <1>1, <2>1, <2>3, <3>1, <3>2
    <2>4. CASE e = s /\ i = n
      <3>1. n # 0 /\ n \in 1 .. n /\ file'[s][n] = file[s][n]
        BY <1>1, <1>2, <2>0, <2>4
      <3>2. Last(s) = file[s][n] /\ file[s] # <<>>
        BY <1>3, <3>1
      <3>3. SUFFICES \/ Last(s).part = "end" /\ p = "text"
                     \/ Last(s).write = w
                     \/ {Last(s).write, w} \cap (mixed' \cup cut') # {}
        BY <1>5, <2>4, <3>1, <3>2
      <3>4. CASE w \in mixed' \/ Last(s).write \in Torn
        BY <1>6, <3>4
      <3>5. CASE w \notin mixed' /\ Last(s).write \notin Torn
        <4>1. s = lock[u]
          BY <1>6, <3>5
        <4>2. CASE p = "end"
          <5>1. TextOf(u) /\ ThisWrite(u) \notin mixed /\ pc[u] = "end"
            BY <1>4, <1>6, <3>5, <4>2 DEF Neighbours
          <5>2. Last(s).write = w
            BY <1>4, <3>5, <4>1, <5>1 DEF TextOf
          <5>. QED
            BY <5>2
        <4>3. CASE p = "text"
          <5>1. ASSUME Last(s).part = "text"
                PROVE  FALSE
            <6>1. PICK t \in Thread : pc[t] = "end" /\ lock[t] = s
              BY <3>2, <3>5, <5>1 DEF Neighbours, LastOf
            <6>2. t # u
              BY <4>3, <6>1
            <6>. QED
              BY <1>10, <4>1, <6>1, <6>2
          <5>2. Last(s).part \in {"text", "end"}
            <6>1. file[s] \in Seq(Item)
              BY DEF TypeOK
            <6>2. file[s][n] \in Item
              BY <1>1, <3>1, <6>1, ElementOfSeq
            <6>. QED
              BY <3>2, <6>2 DEF Item
          <5>. QED
            BY <4>3, <5>1, <5>2
        <4>. QED
          BY <4>2, <4>3
      <3>. QED
        BY <3>4, <3>5
    <2>. QED
      BY <2>2, <2>3, <2>4
  <1>. QED
    BY <1>11, <1>12, <1>13 DEF Neighbours

LEMMA NeighboursStep ==
    ASSUME LogAssumption, IInv, [Next]_vars
    PROVE  Neighbours'
  <1>0. /\ TypeOK /\ Neighbours
        /\ \A t \in Thread : CountOf(t) /\ MonitorOf(t)
    BY DEF IInv, Neighbours
  <1>1. pc \in [Thread -> {"idle", "field", "enter", "text", "end", "exit"}]
        /\ lock \in [Thread -> 0 .. MaxLoads] /\ writes \in [Thread -> 0 .. MaxWrites]
    BY <1>0 DEF TypeOK
  <1>2. CASE HandleLoadPackage \/ UcHook \/ OnEncryptLoaded \/ UNCHANGED vars
    <2>1. UNCHANGED <<file, mixed, cut, pc, lock, writes>>
      BY <1>2 DEF HandleLoadPackage, OpenLog, HookCipher, HookLaunch, HookDefine, UcHook,
         OnEncryptLoaded, vars, history
    <2>. QED
      BY <1>0, <2>1, QuietNeighbours
  <1>3. CASE Kill
    <2>1. /\ \A s \in Stream : file'[s] = <<>>
          /\ \A t \in Thread : pc'[t] = "idle"
      BY <1>3 DEF Kill
    <2>2. \A s \in Stream : ~ (\E i \in 1 .. Len(file'[s]) - 1 : TRUE)
      <3>1. Len(<<>>) = 0 /\ 1 .. 0 - 1 = {}
        BY EmptySeq
      <3>. QED
        BY <2>1, <3>1
    <2>3. \A t \in Thread : TextOf(t)'
      BY <2>1 DEF TextOf
    <2>4. \A s \in Stream : LastOf(s)'
      BY <2>1 DEF LastOf
    <2>5. LinesStayWhole'
      BY <2>2 DEF LinesStayWhole
    <2>. QED
      BY <2>3, <2>4, <2>5 DEF Neighbours
  <1>4. ASSUME NEW u \in Thread, NEW m \in Logged, Call(u, m)
        PROVE  Neighbours'
    <2>1. /\ UNCHANGED <<file, mixed, cut, lock, writes>>
          /\ pc[u] = "idle" /\ pc' = [pc EXCEPT ![u] = "field"]
      BY <1>4 DEF Call, Goto, history
    <2>2. \A t \in Thread : pc'[t] = "end" <=> pc[t] = "end"
      BY <1>1, <2>1
    <2>. QED
      BY <1>0, <2>1, <2>2, QuietNeighbours
  <1>5. ASSUME NEW u \in Thread, ReadField(u) \/ Enter(u) \/ Exit(u)
        PROVE  Neighbours'
    <2>1. /\ UNCHANGED <<file, mixed, cut>> /\ pc[u] # "end" /\ pc'[u] # "end"
          /\ \A t \in Thread : t # u => pc'[t] = pc[t] /\ lock'[t] = lock[t] /\ writes'[t] = writes[t]
      BY <1>1, <1>5 DEF ReadField, Enter, Exit, Goto, history
    <2>. QED
      BY <1>0, <2>1, QuietNeighbours
  <1>6. ASSUME NEW u \in Thread, WriteFails(u)
        PROVE  Neighbours'
    <2>1. /\ UNCHANGED <<file, lock, writes>> /\ pc' = [pc EXCEPT ![u] = "exit"]
          /\ cut' = cut \cup {ThisWrite(u)} /\ mixed \subseteq mixed'
      BY <1>6 DEF WriteFails, Mixes, Goto
    <2>2. /\ \A t \in Thread : t # u => pc'[t] = pc[t]
          /\ pc'[u] = "exit" /\ ThisWrite(u) \in cut' /\ cut \subseteq cut'
      BY <1>1, <2>1
    <2>. QED
      BY <1>0, <2>1, <2>2, QuietNeighbours
  <1>7. ASSUME NEW u \in Thread, pc[u] \in {"text", "end"}
        PROVE  ThisWrite(u) \in Write
    BY <1>0, <1>1, <1>7 DEF CountOf, ThisWrite, Write
  <1>8. ASSUME NEW u \in Thread, WriteText(u)
        PROVE  Neighbours'
    <2>1. PICK s \in Stream : Append1(u, s, "text") /\ Mixes(u, s)
      BY <1>8 DEF WriteText
    <2>2. /\ UNCHANGED <<lock, writes, cut>> /\ pc[u] = "text"
          /\ pc' = [pc EXCEPT ![u] = "end"]
      BY <1>8 DEF WriteText, Goto
    <2>. QED
      BY <1>0, <1>7, <2>1, <2>2, WrittenNeighbours
  <1>9. ASSUME NEW u \in Thread, WriteEnd(u)
        PROVE  Neighbours'
    <2>1. PICK s \in Stream : Append1(u, s, "end") /\ Mixes(u, s)
      BY <1>9 DEF WriteEnd
    <2>2. /\ UNCHANGED <<lock, writes, cut>> /\ pc[u] = "end"
          /\ pc' = [pc EXCEPT ![u] = "exit"]
      BY <1>9 DEF WriteEnd, Goto
    <2>. QED
      BY <1>0, <1>7, <2>1, <2>2, WrittenNeighbours
  <1>. QED
    BY <1>2, <1>3, <1>4, <1>5, <1>6, <1>8, <1>9 DEF Next, WriteLog

-----------------------------------------------------------------------------
(* The theorems.                                                           *)

LEMMA InitIInv ==
    ASSUME LogAssumption, Init
    PROVE  IInv
  <1>0. MaxLoads \in Nat /\ MaxWrites \in Nat /\ MaxFaults \in Nat
        /\ MaxHooks \in [Method -> Nat] /\ None \notin Thread
    BY DEF LogAssumption
  <1>1. TypeOK
    BY <1>0, EmptySeq DEF Init, TypeOK
  <1>2. ASSUME NEW t \in Thread
        PROVE  CountOf(t) /\ MonitorOf(t) /\ TextOf(t)
    BY <1>0 DEF Init, CountOf, MonitorOf, TextOf
  <1>3. \A s \in Stream : file[s] = <<>>
    BY DEF Init
  <1>4. ASSUME NEW t \in Thread
        PROVE  PartsOf(t)
    <2>1. writes[t] = 0
      BY DEF Init
    <2>2. \A s \in Stream : DOMAIN file[s] = {}
      BY <1>3
    <2>3. \A k, p : Parts(t, k, p) = {}
      BY <2>2 DEF Parts
    <2>4. \A k : Absent(t, k)
      BY <2>3 DEF Absent
    <2>5. \A k \in 1 .. MaxWrites : ~ (k = writes[t]) /\ ~ (k < writes[t])
      BY <1>0, <2>1
    <2>. QED
      BY <2>4, <2>5 DEF PartsOf
  <1>5. \A s \in Stream : LastOf(s)
    BY <1>3 DEF LastOf
  <1>6. LinesStayWhole
    <2>1. Len(<<>>) = 0 /\ 1 .. 0 - 1 = {}
      BY EmptySeq
    <2>. QED
      BY <1>3, <2>1 DEF LinesStayWhole
  <1>. QED
    BY <1>1, <1>2, <1>4, <1>5, <1>6 DEF IInv

LEMMA IInvStep ==
    ASSUME LogAssumption, IInv, [Next]_vars
    PROVE  IInv'
  <1>1. \A t \in Thread : CountOf(t)' /\ MonitorOf(t)' /\ PartsOf(t)'
    BY CountStep, MonitorStep, PartsStep
  <1>2. Neighbours'
    BY NeighboursStep
  <1>3. TypeOK'
    BY TypeStep
  <1>. QED
    BY <1>1, <1>2, <1>3 DEF IInv, Neighbours

LEMMA Inductive ==
    ASSUME LogAssumption
    PROVE  Spec => []IInv
  <1>1. Init => IInv
    BY InitIInv
  <1>2. IInv /\ [Next]_vars => IInv'
    BY IInvStep
  <1>. QED
    BY <1>1, <1>2, PTL DEF Spec

\* The variables of the log of a process keep their types, in any number of threads and
\* however often handleLoadPackage runs.
THEOREM TypeCorrect ==
    ASSUME LogAssumption
    PROVE  Spec => []TypeOK
  <1>1. IInv => TypeOK
    BY DEF IInv
  <1>. QED
    BY <1>1, Inductive, PTL

\* A monitor is held by a thread that writes under it (l. 36): the exit of the
\* synchronized statement gives back what its entry took, though the field was replaced.
THEOREM MonitorIsHeld ==
    ASSUME LogAssumption
    PROVE  Spec => []MonitorIsUsed
  <1>1. ASSUME IInv
        PROVE  MonitorIsUsed
    <2>1. SUFFICES ASSUME NEW s \in Stream, monitor[s] # None
          PROVE  pc[monitor[s]] \in {"text", "end", "exit"} /\ lock[monitor[s]] = s
      BY DEF MonitorIsUsed
    <2>2. PICK t \in Thread : monitor[s] = t
      BY <1>1, <2>1 DEF IInv, TypeOK
    <2>3. MonitorOf(t)
      BY <1>1 DEF IInv
    <2>. QED
      BY <2>2, <2>3 DEF MonitorOf
  <1>. QED
    BY <1>1, Inductive, PTL

\* Two calls of WriteLog run into each other in a file only where one of the two changed
\* from one stream to another, or a write of it failed (l. 35-43).
THEOREM LinesAreWhole ==
    ASSUME LogAssumption
    PROVE  Spec => []LinesStayWhole
  <1>1. IInv => LinesStayWhole
    BY DEF IInv
  <1>. QED
    BY <1>1, Inductive, PTL

\* A thread that is through with its callbacks has written text and end of each of its
\* lines, once and in this order, unless a write failed (l. 35-43).
THEOREM NoLineIsLost ==
    ASSUME LogAssumption
    PROVE  Spec => []NothingIsLost
  <1>1. ASSUME IInv
        PROVE  NothingIsLost
    <2>1. SUFFICES ASSUME NEW t \in Thread, NEW k \in 1 .. writes[t], pc[t] = "idle", <<t, k>> \notin cut
          PROVE  Done(t, k)
      BY DEF NothingIsLost, Done
    <2>2. writes[t] \in 0 .. MaxWrites /\ MaxWrites \in Nat
      BY <1>1 DEF IInv, TypeOK, LogAssumption
    <2>3. k \in 1 .. MaxWrites /\ (k < writes[t] \/ k = writes[t])
      BY <2>1, <2>2
    <2>4. PartsOf(t)
      BY <1>1 DEF IInv
    <2>5. <<t, k>> \in cut \/ Done(t, k)
      BY <2>1, <2>3, <2>4 DEF PartsOf
    <2>. QED
      BY <2>1, <2>5
  <1>. QED
    BY <1>1, Inductive, PTL

===============================================================================
