--------------------------- MODULE PlayGuardProofs ---------------------------
(***************************************************************************)
(* Theorems about PlayGuard, for any number of processes, threads, names,  *)
(* lines and failures.                                                     *)
(***************************************************************************)
EXTENDS PlayGuard, FiniteSetTheorems, TLAPS

(* The inductive invariant, in parts.                                      *)

Checking == CheckPc \cup {"check"}
Known    == claimed \cup damaged \cup {EmptyIsid}

\* A thread checks the head of what it has still to look up.
TodoInv == \A t \in Thread : pc[t] \in CheckPc => todo[t] # <<>>

\* The names that are still to be looked up.
Left(t) == {todo[t][i] : i \in DOMAIN todo[t]}

\* What is written, read or remembered was put forward by a delivery, or is what a
\* failed append left.
SourceInv ==
    /\ Stored \subseteq Known
    /\ file.tail \in Known \cup {None}
    /\ \A p \in Proc : isids[p] \subseteq Known
    /\ \A t \in Thread : view[t] \subseteq Known
    /\ \A t \in Thread : pc[t] \in AddPc \cup {"add", "send"} => line[t] \in claimed

\* A delivery that is about to leave is recorded, or its record was lost.
SendInv ==
    /\ \A t \in Thread : pc[t] = "send" => line[t] \in Stored \cup lost
    /\ sent \subseteq Stored \cup lost
    /\ faults = 0 => lost = {} /\ file.tail = None

\* Lines are only in a file that exists.
ExistsInv ==
    /\ file.lines # <<>> => file.exists
    /\ \A t \in Thread : pc[t] = "write" => file.exists

\* The names of a download, and what its answer so far rests on.
AskedInv == \A t \in Thread :
    /\ EmptyIsid \notin asked[t]
    /\ Left(t) \subseteq asked[t]
    /\ pc[t] \notin Checking => todo[t] = <<>>
    /\ isGooglePlay[t] => asked[t] \cap (claimed \cup damaged) # {}
    /\ pc[t] = "refused" => isGooglePlay[t]

\* A recorded name that the answer does not yet rest on is still to be looked
\* up, and what was read of the file while looking has it.
DueInv == \A t \in Thread : due[t] /\ ~unread[t] =>
    /\ pc[t] \in Checking /\ ~isGooglePlay[t] => Left(t) \cap Stored # {}
    /\ pc[t] = "read" /\ ~isGooglePlay[t] => Left(t) \cap Stored \cap view[t] # {}
    /\ pc[t] # "passed"

\* The same for a name that was in the set of the process.
CachedInv == \A t \in Thread : cached[t] =>
    /\ pc[t] \in Checking /\ ~isGooglePlay[t] => Left(t) \cap isids[Home[t]] # {}
    /\ pc[t] # "passed"

\* A failed append adds one damaged text, and one more when an append continues it.
Pending == IF file.tail = None THEN 0 ELSE 1
DamageInv ==
    /\ IsFiniteSet(damaged)
    /\ Cardinality(damaged) + Pending <= 2 * faults

IInv == /\ TypeOK /\ TodoInv /\ SourceInv /\ SendInv /\ ExistsInv /\ AskedInv
        /\ DueInv /\ CachedInv /\ DamageInv

-----------------------------------------------------------------------------
(* The operators.                                                          *)

\* Splitting gives lines of the content and at most the empty string besides.
LEMMA SplitUpper ==
    ASSUME NEW s \in Seq(Isid)
    PROVE  SplitLines(s) \subseteq {s[i] : i \in DOMAIN s} \cup {EmptyIsid}
  BY DEF SplitLines

\* It loses no line but empty ones.
LEMMA SplitLower ==
    ASSUME NEW s \in Seq(Isid)
    PROVE  {s[i] : i \in DOMAIN s} \ {EmptyIsid} \subseteq SplitLines(s)
  <1>1. ASSUME NEW i \in DOMAIN s, s[i] # EmptyIsid
        PROVE  s[i] \in SplitLines(s)
    <2>1. s # <<>>
      BY <1>1
    <2>2. i \in {k \in DOMAIN s : \E j \in DOMAIN s : j >= k /\ s[j] # EmptyIsid}
      BY <1>1
    <2>. QED
      BY <2>1, <2>2 DEF SplitLines
  <1>. QED
    BY <1>1

\* One more element at the end.
LEMMA AppendRange ==
    ASSUME NEW S, NEW s \in Seq(S), NEW x \in S
    PROVE  /\ Append(s, x) \in Seq(S) /\ Append(s, x) # <<>>
           /\ {Append(s, x)[i] : i \in DOMAIN Append(s, x)} = {s[i] : i \in DOMAIN s} \cup {x}
  <1>1. /\ Append(s, x) \in Seq(S)
        /\ Len(s) \in Nat /\ DOMAIN s = 1 .. Len(s)
        /\ DOMAIN Append(s, x) = 1 .. Len(s) + 1
        /\ \A i \in 1 .. Len(s) : Append(s, x)[i] = s[i]
        /\ Append(s, x)[Len(s) + 1] = x
    OBVIOUS
  <1>2. ASSUME NEW i \in DOMAIN Append(s, x)
        PROVE  Append(s, x)[i] \in {s[j] : j \in DOMAIN s} \cup {x}
    BY <1>1
  <1>3. ASSUME NEW j \in DOMAIN s
        PROVE  s[j] \in {Append(s, x)[i] : i \in DOMAIN Append(s, x)}
    <2>1. j \in DOMAIN Append(s, x) /\ Append(s, x)[j] = s[j]
      BY <1>1
    <2>. QED
      BY <2>1
  <1>4. x \in {Append(s, x)[i] : i \in DOMAIN Append(s, x)}
    <2>1. Len(s) + 1 \in DOMAIN Append(s, x)
      BY <1>1
    <2>. QED
      BY <1>1, <2>1
  <1>5. Append(s, x) # <<>>
    BY <1>1
  <1>. QED
    BY <1>1, <1>2, <1>3, <1>4, <1>5

\* The content has the terminated lines and the rest.
LEMMA ContentLines ==
    ASSUME TypeOK
    PROVE  /\ Content \in Seq(Isid)
           /\ Stored \subseteq {Content[i] : i \in DOMAIN Content}
           /\ {Content[i] : i \in DOMAIN Content} \subseteq Stored \cup ({file.tail} \ {None})
  <1>1. file.lines \in Seq(Isid) /\ file.tail \in Isid \cup {None}
    BY DEF TypeOK
  <1>2. CASE file.tail = None
    BY <1>1, <1>2 DEF Content, Stored
  <1>3. CASE file.tail # None
    <2>1. file.tail \in Isid /\ Content = Append(file.lines, file.tail)
      BY <1>1, <1>3 DEF Content
    <2>2. /\ Append(file.lines, file.tail) \in Seq(Isid)
          /\ {Append(file.lines, file.tail)[i] : i \in DOMAIN Append(file.lines, file.tail)}
               = Stored \cup {file.tail}
      BY <1>1, <2>1, AppendRange DEF Stored
    <2>3. {Content[i] : i \in DOMAIN Content} = Stored \cup {file.tail}
      BY <2>1, <2>2
    <2>. QED
      BY <1>3, <2>1, <2>2, <2>3
  <1>. QED
    BY <1>2, <1>3

\* What is written after a rest makes a text with it.
LEMMA ContinuedType == ASSUME TypeOK, NEW l \in Isid PROVE Continued(l) \in Isid
  BY ConstAssumption DEF ConstAssumption, TypeOK, Continued

\* An append adds one line to those in the file, and no line goes.
LEMMA AppendStored ==
    ASSUME TypeOK, NEW l \in Isid, AppendLine(l)
    PROVE  /\ Stored' = Stored \cup {Continued(l)}
           /\ file'.tail = None /\ file'.exists = file.exists
           /\ file' \in [exists : BOOLEAN, lines : Seq(Isid), tail : Isid \cup {None}]
  <1>. DEFINE new == Continued(l)
  <1>1. new \in Isid /\ file.lines \in Seq(Isid)
    BY ContinuedType DEF TypeOK
  <1>2. file' = [file EXCEPT !.lines = Append(file.lines, new), !.tail = None]
    BY DEF AppendLine
  <1>3. /\ file'.lines = Append(file.lines, new)
        /\ file'.tail = None /\ file'.exists = file.exists
    BY <1>2 DEF TypeOK
  <1>4. Append(file.lines, new) \in Seq(Isid)
    BY <1>1, AppendRange
  <1>5. file' \in [exists : BOOLEAN, lines : Seq(Isid), tail : Isid \cup {None}]
    <2>. HIDE DEF new
    <2>. QED
      BY <1>2, <1>4 DEF TypeOK
  <1>6. {file'.lines[i] : i \in DOMAIN file'.lines} = Stored \cup {new}
    <2>. HIDE DEF new
    <2>. QED
      BY <1>1, <1>3, AppendRange DEF Stored
  <1>. QED
    BY <1>3, <1>5, <1>6 DEF Stored

\* What is left after the head of a sequence was taken.
LEMMA TailRange ==
    ASSUME NEW S, NEW s \in Seq(S), s # <<>>
    PROVE  /\ Tail(s) \in Seq(S) /\ Head(s) \in S
           /\ {s[i] : i \in DOMAIN s} = {Head(s)} \cup {Tail(s)[i] : i \in DOMAIN Tail(s)}
  <1>1. /\ Tail(s) \in Seq(S) /\ Head(s) \in S /\ Head(s) = s[1]
        /\ Len(Tail(s)) = Len(s) - 1 /\ Len(s) \in Nat \ {0}
        /\ \A i \in 1 .. Len(s) - 1 : Tail(s)[i] = s[i + 1]
    OBVIOUS
  <1>2. DOMAIN s = 1 .. Len(s) /\ DOMAIN Tail(s) = 1 .. Len(s) - 1
    BY <1>1
  <1>3. ASSUME NEW i \in DOMAIN s, i # 1
        PROVE  s[i] \in {Tail(s)[j] : j \in DOMAIN Tail(s)}
    <2>1. i - 1 \in DOMAIN Tail(s) /\ Tail(s)[i - 1] = s[i]
      BY <1>1, <1>2, <1>3
    <2>. QED
      BY <2>1
  <1>4. ASSUME NEW j \in DOMAIN Tail(s)
        PROVE  Tail(s)[j] \in {s[i] : i \in DOMAIN s}
    BY <1>1, <1>2
  <1>5. 1 \in DOMAIN s
    BY <1>1, <1>2
  <1>. QED
    BY <1>1, <1>3, <1>4, <1>5

\* The names looked up are the parameters that are there and not empty.
LEMMA NamesRange ==
    ASSUME NEW cpn \in Isid \cup {Absent}, NEW isid \in Isid \cup {Absent}
    PROVE  /\ Names(cpn, isid) \in Seq(Isid)
           /\ {Names(cpn, isid)[i] : i \in DOMAIN Names(cpn, isid)}
                = {cpn, isid} \ {Absent, EmptyIsid}
  <1>1. ASSUME NEW n \in Isid \cup {Absent}
        PROVE  \/ n \in {Absent, EmptyIsid} /\ IfPresent(n) = <<>>
               \/ n \in Isid \ {Absent, EmptyIsid} /\ IfPresent(n) = <<n>>
    BY DEF IfPresent
  <1>2. CASE IfPresent(cpn) = <<>> /\ IfPresent(isid) = <<>>
    <2>1. Names(cpn, isid) = <<>>
      BY <1>2 DEF Names
    <2>. QED
      BY <1>1, <1>2, <2>1
  <1>3. CASE IfPresent(cpn) = <<>> /\ IfPresent(isid) = <<isid>>
    <2>1. Names(cpn, isid) = <<isid>>
      BY <1>3 DEF Names
    <2>. QED
      BY <1>1, <1>3, <2>1
  <1>4. CASE IfPresent(cpn) = <<cpn>> /\ IfPresent(isid) = <<>>
    <2>1. Names(cpn, isid) = <<cpn>>
      BY <1>4 DEF Names
    <2>. QED
      BY <1>1, <1>4, <2>1
  <1>5. CASE IfPresent(cpn) = <<cpn>> /\ IfPresent(isid) = <<isid>>
    <2>1. cpn \in Isid \ {Absent, EmptyIsid} /\ isid \in Isid \ {Absent, EmptyIsid}
      BY <1>1, <1>5
    <2>2. /\ Names(cpn, isid) \in Seq(Isid) /\ DOMAIN Names(cpn, isid) = 1 .. 2
          /\ Names(cpn, isid)[1] = cpn /\ Names(cpn, isid)[2] = isid
      BY <1>5, <2>1 DEF Names
    <2>. QED
      BY <2>1, <2>2
  <1>. QED
    BY <1>1, <1>2, <1>3, <1>4, <1>5

-----------------------------------------------------------------------------
(* Type correctness.                                                       *)

LEMMA TypeInit == Init => TypeOK /\ TodoInv
  BY ConstAssumption DEF ConstAssumption, Init, TypeOK, TodoInv, Pc, CheckPc

\* What the end of a lookup does to the variables.
LEMMA AnswerType ==
    ASSUME TypeOK, TodoInv, NEW t \in Thread, pc[t] \in CheckPc,
           NEW loaded \in SUBSET Isid, Answer(t, loaded)
    PROVE  /\ todo[t] # <<>> /\ todo[t] \in Seq(Isid)
           /\ todo' = [todo EXCEPT ![t] = Tail(todo[t])]
           /\ isids' \in [Proc -> SUBSET Isid]
           /\ monitor' \in [Proc -> Thread \cup {None}]
           /\ pc' \in [Thread -> Pc]
           /\ todo' \in [Thread -> Seq(Isid)]
           /\ view' \in [Thread -> SUBSET Isid]
           /\ isGooglePlay' \in [Thread -> BOOLEAN]
           /\ \A u \in Thread : pc'[u] \in CheckPc => todo'[u] # <<>>
  <1>. USE ConstAssumption DEF ConstAssumption
  <1>1. todo[t] # <<>> /\ todo[t] \in Seq(Isid)
    BY DEF TypeOK, TodoInv
  <1>2. Tail(todo[t]) \in Seq(Isid)
    BY <1>1, TailRange
  <1>3. pc' = [pc EXCEPT ![t] = "check"] /\ todo' = [todo EXCEPT ![t] = Tail(todo[t])]
    BY DEF Answer, Goto
  <1>4. isGooglePlay' \in [Thread -> BOOLEAN]
    BY DEF TypeOK, Answer
  <1>5. isids' \in [Proc -> SUBSET Isid] /\ view' \in [Thread -> SUBSET Isid]
    BY DEF TypeOK, Answer
  <1>6. monitor' \in [Proc -> Thread \cup {None}]
    BY DEF TypeOK, Answer, Unlock
  <1>. QED
    BY <1>1, <1>2, <1>3, <1>4, <1>5, <1>6 DEF TypeOK, TodoInv, CheckPc, Pc

\* A kill sets every local of the threads of the process back.
LEMMA CrashType ==
    ASSUME TypeOK, NEW p \in Proc, Crash(p)
    PROVE  TypeOK'
  <1>. USE ConstAssumption DEF ConstAssumption, playVars
  <1>1. /\ file' = file /\ faults' = faults /\ claimed' = claimed
        /\ sent' = sent /\ lost' = lost /\ damaged' = damaged
        /\ hooked' \in [Proc -> {"down", "none", "delivery", "both"}]
        /\ isids' \in [Proc -> SUBSET Isid]
        /\ monitor' \in [Proc -> Thread \cup {None}]
    BY DEF TypeOK, Crash
  <1>2. pc' \in [Thread -> Pc] /\ line' \in [Thread -> Isid]
    BY DEF TypeOK, Crash, Pc
  <1>3. todo' \in [Thread -> Seq(Isid)]
    BY DEF TypeOK, Crash
  <1>4. view' \in [Thread -> SUBSET Isid] /\ asked' \in [Thread -> SUBSET Isid]
    BY DEF TypeOK, Crash
  <1>5. /\ isGooglePlay' \in [Thread -> BOOLEAN] /\ due' \in [Thread -> BOOLEAN]
        /\ cached' \in [Thread -> BOOLEAN] /\ unread' \in [Thread -> BOOLEAN]
    BY DEF TypeOK, Crash
  <1>. QED
    BY <1>1, <1>2, <1>3, <1>4, <1>5 DEF TypeOK

LEMMA TypeStep == TypeOK /\ TodoInv /\ [Next]_vars => TypeOK' /\ TodoInv'
  <1>. SUFFICES ASSUME TypeOK, TodoInv, [Next]_vars
                PROVE  TypeOK' /\ TodoInv'
    OBVIOUS
  <1>. USE ConstAssumption DEF ConstAssumption, callVars, playVars, askVars, Goto, Lock,
           Unlock, Fault
  <1>1. ASSUME NEW p \in Proc, Attach(p)
        PROVE  TypeOK' /\ TodoInv'
    BY <1>1 DEF TypeOK, TodoInv, Pc, AddPc, CheckPc, Inside, DonePc, Attach
  <1>2. ASSUME NEW p \in Proc, HookDelivery(p)
        PROVE  TypeOK' /\ TodoInv'
    BY <1>2 DEF TypeOK, TodoInv, Pc, AddPc, CheckPc, Inside, DonePc, HookDelivery
  <1>3. ASSUME NEW p \in Proc, HookDownload(p)
        PROVE  TypeOK' /\ TodoInv'
    BY <1>3 DEF TypeOK, TodoInv, Pc, AddPc, CheckPc, Inside, DonePc, HookDownload
  <1>4. ASSUME NEW p \in Proc, Crash(p)
        PROVE  TypeOK' /\ TodoInv'
    <2>1. TypeOK'
      BY <1>4, CrashType
    <2>2. TodoInv'
      BY <1>4 DEF Crash, TodoInv, CheckPc, TypeOK
    <2>. QED
      BY <2>1, <2>2
  <1>5. ASSUME NEW t \in Thread, NEW shape \in PassShape \cup ThrowShape, DeliverOther(t, shape)
        PROVE  TypeOK' /\ TodoInv'
    BY <1>5 DEF TypeOK, TodoInv, Pc, AddPc, CheckPc, Inside, DonePc, DeliverOther
  <1>6. ASSUME NEW t \in Thread, NEW isid \in Delivers, DeliverPlay(t, isid)
        PROVE  TypeOK' /\ TodoInv'
    BY <1>6 DEF TypeOK, TodoInv, Pc, AddPc, CheckPc, Inside, DonePc, DeliverPlay
  <1>7. ASSUME NEW t \in Thread, NEW cpn \in Queries, NEW isid \in Queries, Download(t, cpn, isid)
        PROVE  TypeOK' /\ TodoInv'
    <2>1. Names(cpn, isid) \in Seq(Isid) /\ {cpn, isid} \ {Absent, EmptyIsid} \subseteq Isid
      BY NamesRange
    <2>. QED
      BY <1>7, <2>1 DEF TypeOK, TodoInv, Pc, CheckPc, Download
  <1>8. ASSUME NEW t \in Thread, DownloadThrows(t)
        PROVE  TypeOK' /\ TodoInv'
    BY <1>8 DEF TypeOK, TodoInv, Pc, AddPc, CheckPc, Inside, DonePc, DownloadThrows
  <1>9. ASSUME NEW t \in Thread, EnterAdd(t)
        PROVE  TypeOK' /\ TodoInv'
    BY <1>9 DEF TypeOK, TodoInv, Pc, AddPc, CheckPc, Inside, DonePc, EnterAdd
  <1>10. ASSUME NEW t \in Thread, CreateFile(t)
        PROVE  TypeOK' /\ TodoInv'
    BY <1>10 DEF TypeOK, TodoInv, Pc, AddPc, CheckPc, Inside, DonePc, CreateFile
  <1>11. ASSUME NEW t \in Thread, WriteLine(t)
        PROVE  TypeOK' /\ TodoInv'
    <2>1. /\ line[t] \in Isid /\ AppendLine(line[t])
          /\ lost' \in SUBSET Isid
      BY <1>11 DEF TypeOK, WriteLine
    <2>3. damaged' \in SUBSET Isid
      BY <1>11, <2>1, ContinuedType DEF TypeOK, WriteLine
    <2>2. file' \in [exists : BOOLEAN, lines : Seq(Isid), tail : Isid \cup {None}]
      BY <2>1, AppendStored
    <2>. QED
      BY <1>11, <2>1, <2>2, <2>3 DEF TypeOK, TodoInv, Pc, CheckPc, WriteLine
  <1>12. ASSUME NEW t \in Thread, AddFails(t)
        PROVE  TypeOK' /\ TodoInv'
    <2>1. /\ file' \in [exists : BOOLEAN, lines : Seq(Isid), tail : Isid \cup {None}]
          /\ damaged' \in SUBSET Isid
      <3>1. CASE UNCHANGED <<file, damaged>>
        BY <3>1 DEF TypeOK
      <3>2. ASSUME NEW part \in Fragment[line[t]],
                   file' = [file EXCEPT !.tail = Continued(part)],
                   damaged' = damaged \cup {Continued(part)}
            PROVE  /\ file' \in [exists : BOOLEAN, lines : Seq(Isid), tail : Isid \cup {None}]
                   /\ damaged' \in SUBSET Isid
        <4>1. part \in Isid
          BY DEF TypeOK
        <4>2. Continued(part) \in Isid
          BY <4>1, ContinuedType
        <4>. QED
          BY <3>2, <4>2 DEF TypeOK
      <3>. QED
        BY <1>12, <3>1, <3>2 DEF AddFails
    <2>. QED
      BY <1>12, <2>1 DEF TypeOK, TodoInv, Pc, CheckPc, AddFails
  <1>13. ASSUME NEW t \in Thread, SendDelivery(t)
        PROVE  TypeOK' /\ TodoInv'
    BY <1>13 DEF TypeOK, TodoInv, Pc, AddPc, CheckPc, Inside, DonePc, SendDelivery
  <1>14. ASSUME NEW t \in Thread, EnterCheck(t)
        PROVE  TypeOK' /\ TodoInv'
    BY <1>14 DEF TypeOK, TodoInv, Pc, AddPc, CheckPc, Inside, DonePc, EnterCheck
  <1>15. ASSUME NEW t \in Thread, TestExists(t)
        PROVE  TypeOK' /\ TodoInv'
    <2>1. CASE file.exists
      <3>1. /\ pc' = [pc EXCEPT ![t] = "length"] /\ pc[t] = "exists"
            /\ UNCHANGED <<isids, monitor, todo, view, isGooglePlay>>
            /\ UNCHANGED <<file, hooked, line, faults, playVars, askVars>>
        BY <1>15, <2>1 DEF TestExists
      <3>. QED
        BY <3>1 DEF TypeOK, TodoInv, Pc, Inside, CheckPc
    <2>2. CASE ~file.exists
      <3>1. Answer(t, {}) /\ pc[t] \in CheckPc
        BY <1>15, <2>2 DEF TestExists, CheckPc
      <3>. HIDE DEF Goto, Unlock
      <3>. QED
        BY <1>15, <3>1, AnswerType DEF TypeOK, TodoInv, TestExists
    <2>. QED
      BY <2>1, <2>2
  <1>16. ASSUME NEW t \in Thread, Measure(t)
        PROVE  TypeOK' /\ TodoInv'
    <2>1. SplitLines(Content) \subseteq Isid
      BY ContentLines, SplitUpper
    <2>. QED
      BY <1>16, <2>1 DEF TypeOK, TodoInv, Pc, Inside, AddPc, CheckPc, DonePc, Measure
  <1>17. ASSUME NEW t \in Thread, ReadFile(t)
        PROVE  TypeOK' /\ TodoInv'
    <2>1. Answer(t, view[t]) /\ pc[t] \in CheckPc /\ view[t] \in SUBSET Isid
      BY <1>17 DEF ReadFile, CheckPc, TypeOK
    <2>. HIDE DEF Goto, Unlock
    <2>. QED
      BY <1>17, <2>1, AnswerType DEF TypeOK, TodoInv, ReadFile
  <1>18. ASSUME NEW t \in Thread, ReadFails(t)
        PROVE  TypeOK' /\ TodoInv'
    <2>1. Answer(t, {}) /\ pc[t] \in CheckPc /\ {} \in SUBSET Isid
      BY <1>18 DEF ReadFails, CheckPc, TypeOK
    <2>. HIDE DEF Goto, Unlock
    <2>. QED
      BY <1>18, <2>1, AnswerType DEF TypeOK, TodoInv, ReadFails
  <1>19. ASSUME NEW t \in Thread, Decide(t)
        PROVE  TypeOK' /\ TodoInv'
    BY <1>19 DEF TypeOK, TodoInv, Pc, AddPc, CheckPc, Inside, DonePc, Decide
  <1>20. ASSUME NEW t \in Thread, Return(t)
        PROVE  TypeOK' /\ TodoInv'
    BY <1>20 DEF TypeOK, TodoInv, Pc, AddPc, CheckPc, Inside, DonePc, Return
  <1>21. CASE UNCHANGED vars
    BY <1>21 DEF TypeOK, TodoInv, vars
  <1>. QED
    BY <1>1, <1>2, <1>3, <1>4, <1>5, <1>6, <1>7, <1>8, <1>9, <1>10, <1>11,
       <1>12, <1>13, <1>14, <1>15, <1>16, <1>17, <1>18, <1>19, <1>20, <1>21
    DEF Next, Call, Step, Manage

-----------------------------------------------------------------------------
(* What the steps do to the file and to a lookup.                          *)

\* The end of a lookup takes the head away, and the answer rests on it.
LEMMA AnswerEffect ==
    ASSUME TypeOK, TodoInv, NEW t \in Thread, pc[t] \in CheckPc,
           NEW loaded \in SUBSET Isid, Answer(t, loaded)
    PROVE  /\ Left(t) = {Head(todo[t])} \cup Left(t)'
           /\ isGooglePlay'[t] <=> (\/ isGooglePlay[t]
                                    \/ Head(todo[t]) \in isids[Home[t]] \cup loaded)
           /\ isids' = [isids EXCEPT ![Home[t]] = isids[Home[t]] \cup loaded]
           /\ view' = [view EXCEPT ![t] = {}]
           /\ pc' = [pc EXCEPT ![t] = "check"]
           /\ \A u \in Thread \ {t} : /\ Left(u)' = Left(u)
                                      /\ isGooglePlay'[u] = isGooglePlay[u]
  <1>1. todo[t] # <<>> /\ todo[t] \in Seq(Isid)
        /\ todo' = [todo EXCEPT ![t] = Tail(todo[t])]
    BY AnswerType
  <1>2. todo'[t] = Tail(todo[t]) /\ \A u \in Thread \ {t} : todo'[u] = todo[u]
    BY <1>1 DEF TypeOK
  <1>3. Left(t) = {Head(todo[t])} \cup Left(t)'
    <2>1. {todo[t][i] : i \in DOMAIN todo[t]}
            = {Head(todo[t])} \cup {Tail(todo[t])[i] : i \in DOMAIN Tail(todo[t])}
      BY <1>1, TailRange
    <2>. QED
      BY <1>2, <2>1 DEF Left
  <1>4. \A u \in Thread \ {t} : Left(u)' = Left(u)
    BY <1>2 DEF Left
  <1>5. Home[t] \in Proc /\ isids'[Home[t]] = isids[Home[t]] \cup loaded
    <2>. USE ConstAssumption DEF ConstAssumption
    <2>1. isids' = [isids EXCEPT ![Home[t]] = @ \cup loaded]
      BY DEF Answer
    <2>. QED
      BY <2>1 DEF TypeOK
  <1>6. isGooglePlay' = [isGooglePlay EXCEPT ![t] =
                           isGooglePlay[t] \/ Head(todo[t]) \in isids'[Home[t]]]
    BY DEF Answer
  <1>7. /\ isGooglePlay'[t] <=> (\/ isGooglePlay[t]
                                 \/ Head(todo[t]) \in isids'[Home[t]])
        /\ \A u \in Thread \ {t} : isGooglePlay'[u] = isGooglePlay[u]
    BY <1>6, Zenon DEF TypeOK
  <1>. QED
    BY <1>3, <1>4, <1>5, <1>7 DEF Answer, Goto

\* The same, thread by thread.
LEMMA AnswerSummary ==
    ASSUME TypeOK, TodoInv, NEW t \in Thread, pc[t] \in CheckPc,
           NEW loaded \in SUBSET Isid, Answer(t, loaded)
    PROVE  /\ Left(t) = {Head(todo[t])} \cup Left(t)'
           /\ isGooglePlay'[t] <=> (\/ isGooglePlay[t]
                                    \/ Head(todo[t]) \in isids[Home[t]] \cup loaded)
           /\ pc'[t] = "check"
           /\ \A u \in Thread \ {t} : /\ Left(u)' = Left(u)
                                      /\ isGooglePlay'[u] = isGooglePlay[u]
                                      /\ pc'[u] = pc[u] /\ todo'[u] = todo[u]
  <1>1. pc' = [pc EXCEPT ![t] = "check"]
    BY AnswerEffect
  <1>2. todo' = [todo EXCEPT ![t] = Tail(todo[t])]
    BY AnswerType
  <1>3. pc'[t] = "check" /\ \A u \in Thread \ {t} : pc'[u] = pc[u]
    BY <1>1 DEF TypeOK
  <1>4. \A u \in Thread \ {t} : todo'[u] = todo[u]
    BY <1>2 DEF TypeOK
  <1>5. /\ Left(t) = {Head(todo[t])} \cup Left(t)'
        /\ isGooglePlay'[t] <=> (\/ isGooglePlay[t]
                                 \/ Head(todo[t]) \in isids[Home[t]] \cup loaded)
        /\ \A u \in Thread \ {t} : /\ Left(u)' = Left(u)
                                   /\ isGooglePlay'[u] = isGooglePlay[u]
    BY AnswerEffect, Zenon
  <1>. QED
    BY <1>3, <1>4, <1>5, Zenon

\* A started download is to look up all of its names.
LEMMA DownloadEffect ==
    ASSUME TypeOK, NEW t \in Thread, NEW cpn \in Queries, NEW isid \in Queries,
           Download(t, cpn, isid)
    PROVE  /\ Left(t)' = asked'[t] /\ asked'[t] \subseteq Isid \ {EmptyIsid}
           /\ due'[t] = (asked'[t] \cap Stored # {})
           /\ cached'[t] = (asked'[t] \cap isids[Home[t]] # {})
           /\ isGooglePlay'[t] = FALSE /\ unread'[t] = FALSE /\ pc'[t] = "check"
           /\ \A u \in Thread \ {t} :
                 /\ Left(u)' = Left(u) /\ asked'[u] = asked[u] /\ due'[u] = due[u]
                 /\ cached'[u] = cached[u] /\ isGooglePlay'[u] = isGooglePlay[u]
                 /\ unread'[u] = unread[u] /\ pc'[u] = pc[u]
  <1>. USE ConstAssumption DEF ConstAssumption
  <1>. DEFINE names == {cpn, isid} \ {Absent, EmptyIsid}
  <1>1. /\ names \subseteq Isid \ {EmptyIsid}
        /\ {Names(cpn, isid)[i] : i \in DOMAIN Names(cpn, isid)} = names
    BY NamesRange
  <1>2. /\ todo'[t] = Names(cpn, isid) /\ \A u \in Thread \ {t} : todo'[u] = todo[u]
        /\ asked'[t] = names /\ \A u \in Thread \ {t} : asked'[u] = asked[u]
    BY DEF TypeOK, Download
  <1>3. /\ due'[t] = (names \cap Stored # {}) /\ \A u \in Thread \ {t} : due'[u] = due[u]
        /\ cached'[t] = (names \cap isids[Home[t]] # {})
        /\ \A u \in Thread \ {t} : cached'[u] = cached[u]
    BY DEF TypeOK, Download
  <1>4. /\ isGooglePlay'[t] = FALSE /\ unread'[t] = FALSE /\ pc'[t] = "check"
        /\ \A u \in Thread \ {t} : /\ isGooglePlay'[u] = isGooglePlay[u]
                                   /\ unread'[u] = unread[u] /\ pc'[u] = pc[u]
    BY DEF TypeOK, Download, Goto
  <1>. HIDE ConstAssumption DEF names, ConstAssumption
  <1>5. Left(t)' = names /\ \A u \in Thread \ {t} : Left(u)' = Left(u)
    BY <1>1, <1>2, Zenon DEF Left
  <1>6. /\ Left(t)' = asked'[t] /\ asked'[t] \subseteq Isid \ {EmptyIsid}
        /\ due'[t] = (asked'[t] \cap Stored # {})
        /\ cached'[t] = (asked'[t] \cap isids[Home[t]] # {})
    BY <1>1, <1>2, <1>3, <1>5, Zenon
  <1>. QED
    BY <1>2, <1>3, <1>4, <1>5, <1>6

\* What is read contains every recorded name and nothing strange.
LEMMA ViewOfContent ==
    ASSUME TypeOK, SourceInv
    PROVE  /\ SplitLines(Content) \subseteq Known
           /\ Stored \ {EmptyIsid} \subseteq SplitLines(Content)
  BY ContentLines, SplitUpper, SplitLower DEF SourceInv, Known

-----------------------------------------------------------------------------
(* Each part of the invariant is preserved.                                *)

\* A kill leaves every thread as it was or, if it is one of the process, idle.
LEMMA CrashEffect ==
    ASSUME TypeOK, NEW p \in Proc, Crash(p)
    PROVE  /\ file' = file /\ faults' = faults
           /\ claimed' = claimed /\ sent' = sent /\ lost' = lost /\ damaged' = damaged
           /\ isids' = [isids EXCEPT ![p] = {}]
           /\ \A u \in Thread :
                 \/ /\ Home[u] = p
                    /\ pc'[u] = "idle" /\ view'[u] = {} /\ asked'[u] = {}
                    /\ todo'[u] = <<>> /\ isGooglePlay'[u] = FALSE
                    /\ due'[u] = FALSE /\ cached'[u] = FALSE
                 \/ /\ Home[u] # p
                    /\ pc'[u] = pc[u] /\ view'[u] = view[u] /\ asked'[u] = asked[u]
                    /\ todo'[u] = todo[u] /\ isGooglePlay'[u] = isGooglePlay[u]
                    /\ due'[u] = due[u] /\ cached'[u] = cached[u]
                    /\ line'[u] = line[u] /\ unread'[u] = unread[u]
  <1>1. /\ file' = file /\ faults' = faults
        /\ claimed' = claimed /\ sent' = sent /\ lost' = lost /\ damaged' = damaged
        /\ isids' = [isids EXCEPT ![p] = {}]
    BY DEF Crash, playVars
  <1>2. ASSUME NEW u \in Thread, Home[u] = p
        PROVE  /\ pc'[u] = "idle" /\ view'[u] = {} /\ asked'[u] = {}
               /\ todo'[u] = <<>> /\ isGooglePlay'[u] = FALSE
               /\ due'[u] = FALSE /\ cached'[u] = FALSE
    BY <1>2 DEF Crash
  <1>3. ASSUME NEW u \in Thread, Home[u] # p
        PROVE  /\ pc'[u] = pc[u] /\ view'[u] = view[u] /\ asked'[u] = asked[u]
               /\ todo'[u] = todo[u] /\ isGooglePlay'[u] = isGooglePlay[u]
               /\ due'[u] = due[u] /\ cached'[u] = cached[u]
               /\ line'[u] = line[u] /\ unread'[u] = unread[u]
    BY <1>3 DEF Crash
  <1>. QED
    BY <1>1, <1>2, <1>3

\* Whatever happens, recorded names stay recorded, and claims and losses are kept.
LEMMA FileStep ==
    TypeOK /\ [Next]_vars => Stored \subseteq Stored' /\ claimed \subseteq claimed' /\ lost \subseteq lost' /\ damaged \subseteq damaged'
  <1>. SUFFICES ASSUME TypeOK, [Next]_vars
                PROVE  Stored \subseteq Stored' /\ claimed \subseteq claimed' /\ lost \subseteq lost' /\ damaged \subseteq damaged'
    OBVIOUS
  <1>. USE ConstAssumption DEF ConstAssumption, callVars, playVars, askVars, Goto
  <1>1. ASSUME NEW p \in Proc, Attach(p)
        PROVE  Stored \subseteq Stored' /\ claimed \subseteq claimed' /\ lost \subseteq lost' /\ damaged \subseteq damaged'
    BY <1>1 DEF Stored, Attach
  <1>2. ASSUME NEW p \in Proc, HookDelivery(p)
        PROVE  Stored \subseteq Stored' /\ claimed \subseteq claimed' /\ lost \subseteq lost' /\ damaged \subseteq damaged'
    BY <1>2 DEF Stored, HookDelivery
  <1>3. ASSUME NEW p \in Proc, HookDownload(p)
        PROVE  Stored \subseteq Stored' /\ claimed \subseteq claimed' /\ lost \subseteq lost' /\ damaged \subseteq damaged'
    BY <1>3 DEF Stored, HookDownload
  <1>4. ASSUME NEW p \in Proc, Crash(p)
        PROVE  Stored \subseteq Stored' /\ claimed \subseteq claimed' /\ lost \subseteq lost' /\ damaged \subseteq damaged'
    BY <1>4 DEF Stored, Crash
  <1>5. ASSUME NEW t \in Thread, NEW shape \in PassShape \cup ThrowShape, DeliverOther(t, shape)
        PROVE  Stored \subseteq Stored' /\ claimed \subseteq claimed' /\ lost \subseteq lost' /\ damaged \subseteq damaged'
    BY <1>5 DEF Stored, DeliverOther
  <1>6. ASSUME NEW t \in Thread, NEW isid \in Delivers, DeliverPlay(t, isid)
        PROVE  Stored \subseteq Stored' /\ claimed \subseteq claimed' /\ lost \subseteq lost' /\ damaged \subseteq damaged'
    BY <1>6 DEF Stored, DeliverPlay
  <1>7. ASSUME NEW t \in Thread, NEW cpn \in Queries, NEW isid \in Queries, Download(t, cpn, isid)
        PROVE  Stored \subseteq Stored' /\ claimed \subseteq claimed' /\ lost \subseteq lost' /\ damaged \subseteq damaged'
    BY <1>7 DEF Stored, Download
  <1>8. ASSUME NEW t \in Thread, DownloadThrows(t)
        PROVE  Stored \subseteq Stored' /\ claimed \subseteq claimed' /\ lost \subseteq lost' /\ damaged \subseteq damaged'
    BY <1>8 DEF Stored, DownloadThrows
  <1>9. ASSUME NEW t \in Thread, EnterAdd(t)
        PROVE  Stored \subseteq Stored' /\ claimed \subseteq claimed' /\ lost \subseteq lost' /\ damaged \subseteq damaged'
    BY <1>9 DEF Stored, EnterAdd
  <1>10. ASSUME NEW t \in Thread, CreateFile(t)
        PROVE  Stored \subseteq Stored' /\ claimed \subseteq claimed' /\ lost \subseteq lost' /\ damaged \subseteq damaged'
    <2>1. file'.lines = file.lines
      BY <1>10 DEF TypeOK, CreateFile
    <2>. QED
      BY <1>10, <2>1 DEF Stored, CreateFile
  <1>11. ASSUME NEW t \in Thread, WriteLine(t)
        PROVE  Stored \subseteq Stored' /\ claimed \subseteq claimed' /\ lost \subseteq lost' /\ damaged \subseteq damaged'
    <2>1. line[t] \in Isid /\ AppendLine(line[t])
      BY <1>11 DEF TypeOK, WriteLine
    <2>. QED
      BY <1>11, <2>1, AppendStored DEF WriteLine
  <1>12. ASSUME NEW t \in Thread, AddFails(t)
        PROVE  Stored \subseteq Stored' /\ claimed \subseteq claimed' /\ lost \subseteq lost' /\ damaged \subseteq damaged'
    <2>1. file'.lines = file.lines
      BY <1>12 DEF TypeOK, AddFails
    <2>. QED
      BY <1>12, <2>1 DEF Stored, AddFails
  <1>13. ASSUME NEW t \in Thread, SendDelivery(t)
        PROVE  Stored \subseteq Stored' /\ claimed \subseteq claimed' /\ lost \subseteq lost' /\ damaged \subseteq damaged'
    BY <1>13 DEF Stored, SendDelivery
  <1>14. ASSUME NEW t \in Thread, EnterCheck(t)
        PROVE  Stored \subseteq Stored' /\ claimed \subseteq claimed' /\ lost \subseteq lost' /\ damaged \subseteq damaged'
    BY <1>14 DEF Stored, EnterCheck
  <1>15. ASSUME NEW t \in Thread, TestExists(t)
        PROVE  Stored \subseteq Stored' /\ claimed \subseteq claimed' /\ lost \subseteq lost' /\ damaged \subseteq damaged'
    BY <1>15 DEF Stored, TestExists
  <1>16. ASSUME NEW t \in Thread, Measure(t)
        PROVE  Stored \subseteq Stored' /\ claimed \subseteq claimed' /\ lost \subseteq lost' /\ damaged \subseteq damaged'
    BY <1>16 DEF Stored, Measure
  <1>17. ASSUME NEW t \in Thread, ReadFile(t)
        PROVE  Stored \subseteq Stored' /\ claimed \subseteq claimed' /\ lost \subseteq lost' /\ damaged \subseteq damaged'
    BY <1>17 DEF Stored, ReadFile
  <1>18. ASSUME NEW t \in Thread, ReadFails(t)
        PROVE  Stored \subseteq Stored' /\ claimed \subseteq claimed' /\ lost \subseteq lost' /\ damaged \subseteq damaged'
    BY <1>18 DEF Stored, ReadFails
  <1>19. ASSUME NEW t \in Thread, Decide(t)
        PROVE  Stored \subseteq Stored' /\ claimed \subseteq claimed' /\ lost \subseteq lost' /\ damaged \subseteq damaged'
    BY <1>19 DEF Stored, Decide
  <1>20. ASSUME NEW t \in Thread, Return(t)
        PROVE  Stored \subseteq Stored' /\ claimed \subseteq claimed' /\ lost \subseteq lost' /\ damaged \subseteq damaged'
    BY <1>20 DEF Stored, Return
  <1>21. CASE UNCHANGED vars
    BY <1>21 DEF Stored, vars
  <1>. QED
    BY <1>1, <1>2, <1>3, <1>4, <1>5, <1>6, <1>7, <1>8, <1>9, <1>10, <1>11,
       <1>12, <1>13, <1>14, <1>15, <1>16, <1>17, <1>18, <1>19, <1>20, <1>21
    DEF Next, Call, Step, Manage

\* Nothing but claimed names, what failed appends left and "" is written, read or remembered.
LEMMA SourceStep ==
    TypeOK /\ TodoInv /\ SourceInv /\ [Next]_vars => SourceInv'
  <1>. SUFFICES ASSUME TypeOK, TodoInv, SourceInv, [Next]_vars
                PROVE  SourceInv'
    OBVIOUS
  <1>. USE ConstAssumption DEF ConstAssumption, callVars, playVars, askVars, Goto
  <1>1. ASSUME NEW p \in Proc, Attach(p)
        PROVE  SourceInv'
    BY <1>1 DEF SourceInv, Known, Stored, AddPc, TypeOK, Attach
  <1>2. ASSUME NEW p \in Proc, HookDelivery(p)
        PROVE  SourceInv'
    BY <1>2 DEF SourceInv, Known, Stored, AddPc, TypeOK, HookDelivery
  <1>3. ASSUME NEW p \in Proc, HookDownload(p)
        PROVE  SourceInv'
    BY <1>3 DEF SourceInv, Known, Stored, AddPc, TypeOK, HookDownload
  <1>4. ASSUME NEW p \in Proc, Crash(p)
        PROVE  SourceInv'
    <2>1. /\ file' = file /\ claimed' = claimed /\ damaged' = damaged
          /\ \A q \in Proc : isids'[q] \subseteq isids[q]
          /\ \A u \in Thread : view'[u] = view[u] \/ view'[u] = {}
          /\ \A u \in Thread : pc'[u] = "idle" \/ (pc'[u] = pc[u] /\ line'[u] = line[u])
      BY <1>4, CrashEffect DEF TypeOK
    <2>. QED
      BY <2>1 DEF SourceInv, Known, Stored, AddPc
  <1>5. ASSUME NEW t \in Thread, NEW shape \in PassShape \cup ThrowShape, DeliverOther(t, shape)
        PROVE  SourceInv'
    BY <1>5 DEF SourceInv, Known, Stored, AddPc, TypeOK, DeliverOther
  <1>6. ASSUME NEW t \in Thread, NEW isid \in Delivers, DeliverPlay(t, isid)
        PROVE  SourceInv'
    <2>1. /\ file' = file /\ isids' = isids /\ view' = view
          /\ claimed \subseteq claimed' /\ line'[t] \in claimed' /\ damaged' = damaged
          /\ \A u \in Thread \ {t} : pc'[u] = pc[u] /\ line'[u] = line[u]
      BY <1>6 DEF TypeOK, DeliverPlay
    <2>. QED
      BY <2>1 DEF SourceInv, Known, Stored
  <1>7. ASSUME NEW t \in Thread, NEW cpn \in Queries, NEW isid \in Queries, Download(t, cpn, isid)
        PROVE  SourceInv'
    BY <1>7 DEF SourceInv, Known, Stored, AddPc, TypeOK, Download
  <1>8. ASSUME NEW t \in Thread, DownloadThrows(t)
        PROVE  SourceInv'
    BY <1>8 DEF SourceInv, Known, Stored, AddPc, TypeOK, DownloadThrows
  <1>9. ASSUME NEW t \in Thread, EnterAdd(t)
        PROVE  SourceInv'
    BY <1>9 DEF SourceInv, Known, Stored, AddPc, TypeOK, EnterAdd
  <1>10. ASSUME NEW t \in Thread, CreateFile(t)
        PROVE  SourceInv'
    <2>1. file'.lines = file.lines /\ file'.tail = file.tail
      BY <1>10 DEF TypeOK, CreateFile
    <2>. QED
      BY <1>10, <2>1 DEF SourceInv, Known, Stored, AddPc, TypeOK, CreateFile
  <1>11. ASSUME NEW t \in Thread, WriteLine(t)
        PROVE  SourceInv'
    <2>1. /\ line[t] \in Isid /\ AppendLine(line[t]) /\ line[t] \in claimed
          /\ claimed' = claimed /\ isids' = isids /\ view' = view /\ line' = line
      BY <1>11 DEF TypeOK, WriteLine, SourceInv, AddPc
    <2>2. /\ Stored' = Stored \cup {Continued(line[t])} /\ file'.tail = None
          /\ Continued(line[t]) \in claimed' \cup damaged' /\ damaged \subseteq damaged'
      BY <1>11, <2>1, AppendStored DEF WriteLine, Continued
    <2>3. \A u \in Thread : pc'[u] \in AddPc \cup {"add", "send"}
                             => pc[u] \in AddPc \cup {"add", "send"}
      BY <1>11 DEF TypeOK, WriteLine, AddPc
    <2>. QED
      BY <2>1, <2>2, <2>3 DEF SourceInv, Known
  <1>12. ASSUME NEW t \in Thread, AddFails(t)
        PROVE  SourceInv'
    <2>1. /\ claimed' = claimed /\ isids' = isids /\ view' = view /\ line' = line
          /\ line[t] \in claimed
      BY <1>12 DEF AddFails, SourceInv, callVars, playVars
    <2>2. /\ file'.lines = file.lines /\ damaged \subseteq damaged'
          /\ file'.tail = file.tail \/ file'.tail \in damaged'
      BY <1>12 DEF TypeOK, AddFails
    <2>3. \A u \in Thread : pc'[u] \in AddPc \cup {"add", "send"}
                             => pc[u] \in AddPc \cup {"add", "send"}
      BY <1>12 DEF TypeOK, AddFails, AddPc
    <2>. QED
      BY <2>1, <2>2, <2>3 DEF SourceInv, Known, Stored
  <1>13. ASSUME NEW t \in Thread, SendDelivery(t)
        PROVE  SourceInv'
    BY <1>13 DEF SourceInv, Known, Stored, AddPc, TypeOK, SendDelivery
  <1>14. ASSUME NEW t \in Thread, EnterCheck(t)
        PROVE  SourceInv'
    BY <1>14 DEF SourceInv, Known, Stored, AddPc, TypeOK, EnterCheck
  <1>15. ASSUME NEW t \in Thread, TestExists(t)
        PROVE  SourceInv'
    <2>1. CASE file.exists
      <3>1. /\ pc' = [pc EXCEPT ![t] = "length"] /\ pc[t] = "exists"
            /\ UNCHANGED <<isids, monitor, todo, view, isGooglePlay>>
            /\ UNCHANGED <<file, hooked, line, faults, playVars, askVars>>
        BY <1>15, <2>1 DEF TestExists
      <3>. QED
        BY <3>1 DEF SourceInv, Known, Stored, AddPc, TypeOK
    <2>2. CASE ~file.exists
      <3>1. Answer(t, {}) /\ pc[t] \in CheckPc /\ {} \in SUBSET Isid
        BY <1>15, <2>2 DEF TypeOK, TestExists, CheckPc
      <3>2. /\ isids' = [isids EXCEPT ![Home[t]] = isids[Home[t]] \cup {}]
            /\ view' = [view EXCEPT ![t] = {}] /\ pc' = [pc EXCEPT ![t] = "check"]
        BY <3>1, AnswerEffect
      <3>4. file' = file /\ claimed' = claimed /\ damaged' = damaged /\ line' = line
        BY <1>15 DEF TestExists
      <3>. QED
        BY <3>2, <3>4 DEF SourceInv, Known, Stored, AddPc, TypeOK
    <2>. QED
      BY <2>1, <2>2
  <1>16. ASSUME NEW t \in Thread, Measure(t)
        PROVE  SourceInv'
    <2>1. SplitLines(Content) \subseteq Known
      BY ViewOfContent
    <2>. QED
      BY <1>16, <2>1 DEF SourceInv, Known, Stored, AddPc, TypeOK, Measure
  <1>17. ASSUME NEW t \in Thread, ReadFile(t)
        PROVE  SourceInv'
    <2>1. Answer(t, view[t]) /\ pc[t] \in CheckPc /\ view[t] \in SUBSET Isid
      BY <1>17 DEF TypeOK, ReadFile, CheckPc
    <2>2. /\ isids' = [isids EXCEPT ![Home[t]] = isids[Home[t]] \cup view[t]]
          /\ view' = [view EXCEPT ![t] = {}] /\ pc' = [pc EXCEPT ![t] = "check"]
      BY <2>1, AnswerEffect
    <2>3. view[t] \subseteq Known
      BY DEF SourceInv
    <2>4. file' = file /\ claimed' = claimed /\ damaged' = damaged /\ line' = line
      BY <1>17 DEF ReadFile
    <2>. QED
      BY <2>2, <2>3, <2>4 DEF SourceInv, Known, Stored, AddPc, TypeOK
  <1>18. ASSUME NEW t \in Thread, ReadFails(t)
        PROVE  SourceInv'
    <2>1. Answer(t, {}) /\ pc[t] \in CheckPc /\ {} \in SUBSET Isid
      BY <1>18 DEF TypeOK, ReadFails, CheckPc
    <2>2. /\ isids' = [isids EXCEPT ![Home[t]] = isids[Home[t]] \cup {}]
          /\ view' = [view EXCEPT ![t] = {}] /\ pc' = [pc EXCEPT ![t] = "check"]
      BY <2>1, AnswerEffect
    <2>3. {} \subseteq Known
      BY DEF SourceInv
    <2>4. file' = file /\ claimed' = claimed /\ damaged' = damaged /\ line' = line
      BY <1>18 DEF ReadFails
    <2>. QED
      BY <2>2, <2>3, <2>4 DEF SourceInv, Known, Stored, AddPc, TypeOK
  <1>19. ASSUME NEW t \in Thread, Decide(t)
        PROVE  SourceInv'
    BY <1>19 DEF SourceInv, Known, Stored, AddPc, TypeOK, Decide
  <1>20. ASSUME NEW t \in Thread, Return(t)
        PROVE  SourceInv'
    BY <1>20 DEF SourceInv, Known, Stored, AddPc, TypeOK, Return
  <1>21. CASE UNCHANGED vars
    BY <1>21 DEF SourceInv, Known, Stored, AddPc, TypeOK, vars
  <1>. QED
    BY <1>1, <1>2, <1>3, <1>4, <1>5, <1>6, <1>7, <1>8, <1>9, <1>10, <1>11,
       <1>12, <1>13, <1>14, <1>15, <1>16, <1>17, <1>18, <1>19, <1>20, <1>21
    DEF Next, Call, Step, Manage

\* A delivery leaves with its isid recorded or lost.
LEMMA SendStep ==
    TypeOK /\ SendInv /\ [Next]_vars => SendInv'
  <1>. SUFFICES ASSUME TypeOK, SendInv, [Next]_vars
                PROVE  SendInv'
    OBVIOUS
  <1>. USE ConstAssumption DEF ConstAssumption, callVars, playVars, askVars, Goto
  <1>1. ASSUME NEW p \in Proc, Attach(p)
        PROVE  SendInv'
    BY <1>1 DEF SendInv, Stored, TypeOK, Attach
  <1>2. ASSUME NEW p \in Proc, HookDelivery(p)
        PROVE  SendInv'
    BY <1>2 DEF SendInv, Stored, TypeOK, HookDelivery
  <1>3. ASSUME NEW p \in Proc, HookDownload(p)
        PROVE  SendInv'
    BY <1>3 DEF SendInv, Stored, TypeOK, HookDownload
  <1>4. ASSUME NEW p \in Proc, Crash(p)
        PROVE  SendInv'
    <2>1. /\ file' = file /\ lost' = lost /\ sent' = sent /\ faults' = faults
          /\ \A u \in Thread : pc'[u] = "idle" \/ (pc'[u] = pc[u] /\ line'[u] = line[u])
      BY <1>4, CrashEffect DEF TypeOK
    <2>. QED
      BY <2>1 DEF SendInv, Stored
  <1>5. ASSUME NEW t \in Thread, NEW shape \in PassShape \cup ThrowShape, DeliverOther(t, shape)
        PROVE  SendInv'
    BY <1>5 DEF SendInv, Stored, TypeOK, DeliverOther
  <1>6. ASSUME NEW t \in Thread, NEW isid \in Delivers, DeliverPlay(t, isid)
        PROVE  SendInv'
    BY <1>6 DEF SendInv, Stored, TypeOK, DeliverPlay
  <1>7. ASSUME NEW t \in Thread, NEW cpn \in Queries, NEW isid \in Queries, Download(t, cpn, isid)
        PROVE  SendInv'
    BY <1>7 DEF SendInv, Stored, TypeOK, Download
  <1>8. ASSUME NEW t \in Thread, DownloadThrows(t)
        PROVE  SendInv'
    BY <1>8 DEF SendInv, Stored, TypeOK, DownloadThrows
  <1>9. ASSUME NEW t \in Thread, EnterAdd(t)
        PROVE  SendInv'
    BY <1>9 DEF SendInv, Stored, TypeOK, EnterAdd
  <1>10. ASSUME NEW t \in Thread, CreateFile(t)
        PROVE  SendInv'
    <2>1. file'.lines = file.lines /\ file'.tail = file.tail
      BY <1>10 DEF TypeOK, CreateFile
    <2>. QED
      BY <1>10, <2>1 DEF SendInv, Stored, TypeOK, CreateFile
  <1>11. ASSUME NEW t \in Thread, WriteLine(t)
        PROVE  SendInv'
    <2>1. /\ line[t] \in Isid /\ AppendLine(line[t]) /\ faults' = faults
          /\ sent' = sent /\ line' = line /\ pc' = [pc EXCEPT ![t] = "send"]
          /\ lost' = IF file.tail = None THEN lost ELSE lost \cup {line[t]}
      BY <1>11 DEF TypeOK, WriteLine
    <2>2. /\ Stored' = Stored \cup {Continued(line[t])}
          /\ file'.tail = None
      BY <2>1, AppendStored
    <2>3. line[t] \in Stored' \cup lost'
      BY <2>1, <2>2 DEF Continued
    <2>. QED
      BY <2>1, <2>2, <2>3 DEF SendInv, TypeOK
  <1>12. ASSUME NEW t \in Thread, AddFails(t)
        PROVE  SendInv'
    <2>1. /\ faults' = faults + 1 /\ faults \in Nat /\ lost' = lost \cup {line[t]}
          /\ sent' = sent /\ line' = line /\ pc' = [pc EXCEPT ![t] = "send"]
      BY <1>12 DEF AddFails, Fault, TypeOK
    <2>2. faults' # 0
      BY <2>1
    <2>3. Stored \subseteq Stored'
      <3>1. file'.lines = file.lines
        BY <1>12 DEF TypeOK, AddFails
      <3>. QED
        BY <3>1 DEF Stored
    <2>. QED
      BY <2>1, <2>2, <2>3 DEF SendInv, TypeOK
  <1>13. ASSUME NEW t \in Thread, SendDelivery(t)
        PROVE  SendInv'
    <2>1. /\ file' = file /\ lost' = lost /\ faults' = faults
          /\ sent' = sent \cup {line[t]} /\ pc[t] = "send"
          /\ pc'[t] = "delivered"
          /\ \A u \in Thread \ {t} : pc'[u] = pc[u] /\ line'[u] = line[u]
      BY <1>13 DEF SendDelivery, TypeOK
    <2>. QED
      BY <2>1 DEF SendInv, Stored
  <1>14. ASSUME NEW t \in Thread, EnterCheck(t)
        PROVE  SendInv'
    BY <1>14 DEF SendInv, Stored, TypeOK, EnterCheck
  <1>15. ASSUME NEW t \in Thread, TestExists(t)
        PROVE  SendInv'
    <2>1. /\ faults' = faults /\ file' = file /\ lost' = lost
          /\ sent' = sent /\ line' = line
          /\ \A u \in Thread : pc'[u] = "send" => pc[u] = "send"
      BY <1>15 DEF TestExists, TypeOK, Answer
    <2>. QED
      BY <2>1 DEF SendInv, Stored
  <1>16. ASSUME NEW t \in Thread, Measure(t)
        PROVE  SendInv'
    BY <1>16 DEF SendInv, Stored, TypeOK, Measure
  <1>17. ASSUME NEW t \in Thread, ReadFile(t)
        PROVE  SendInv'
    BY <1>17 DEF SendInv, Stored, TypeOK, ReadFile, Answer
  <1>18. ASSUME NEW t \in Thread, ReadFails(t)
        PROVE  SendInv'
    <2>1. /\ faults' = faults + 1 /\ faults \in Nat /\ file' = file /\ lost' = lost
          /\ sent' = sent /\ line' = line /\ pc' = [pc EXCEPT ![t] = "check"]
      BY <1>18 DEF ReadFails, Fault, TypeOK, Answer
    <2>2. faults' # 0
      BY <2>1
    <2>. QED
      BY <2>1, <2>2 DEF SendInv, Stored, TypeOK
  <1>19. ASSUME NEW t \in Thread, Decide(t)
        PROVE  SendInv'
    BY <1>19 DEF SendInv, Stored, TypeOK, Decide
  <1>20. ASSUME NEW t \in Thread, Return(t)
        PROVE  SendInv'
    BY <1>20 DEF SendInv, Stored, TypeOK, Return
  <1>21. CASE UNCHANGED vars
    BY <1>21 DEF SendInv, Stored, TypeOK, vars
  <1>. QED
    BY <1>1, <1>2, <1>3, <1>4, <1>5, <1>6, <1>7, <1>8, <1>9, <1>10, <1>11,
       <1>12, <1>13, <1>14, <1>15, <1>16, <1>17, <1>18, <1>19, <1>20, <1>21
    DEF Next, Call, Step, Manage

\* The file is there before a line is.
LEMMA ExistsStep ==
    TypeOK /\ ExistsInv /\ [Next]_vars => ExistsInv'
  <1>. SUFFICES ASSUME TypeOK, ExistsInv, [Next]_vars
                PROVE  ExistsInv'
    OBVIOUS
  <1>. USE ConstAssumption DEF ConstAssumption, callVars, playVars, askVars, Goto
  <1>1. ASSUME NEW p \in Proc, Attach(p)
        PROVE  ExistsInv'
    BY <1>1 DEF ExistsInv, TypeOK, Attach
  <1>2. ASSUME NEW p \in Proc, HookDelivery(p)
        PROVE  ExistsInv'
    BY <1>2 DEF ExistsInv, TypeOK, HookDelivery
  <1>3. ASSUME NEW p \in Proc, HookDownload(p)
        PROVE  ExistsInv'
    BY <1>3 DEF ExistsInv, TypeOK, HookDownload
  <1>4. ASSUME NEW p \in Proc, Crash(p)
        PROVE  ExistsInv'
    <2>1. file' = file /\ \A u \in Thread : pc'[u] = "idle" \/ pc'[u] = pc[u]
      BY <1>4, CrashEffect DEF TypeOK
    <2>. QED
      BY <2>1 DEF ExistsInv
  <1>5. ASSUME NEW t \in Thread, NEW shape \in PassShape \cup ThrowShape, DeliverOther(t, shape)
        PROVE  ExistsInv'
    BY <1>5 DEF ExistsInv, TypeOK, DeliverOther
  <1>6. ASSUME NEW t \in Thread, NEW isid \in Delivers, DeliverPlay(t, isid)
        PROVE  ExistsInv'
    BY <1>6 DEF ExistsInv, TypeOK, DeliverPlay
  <1>7. ASSUME NEW t \in Thread, NEW cpn \in Queries, NEW isid \in Queries, Download(t, cpn, isid)
        PROVE  ExistsInv'
    BY <1>7 DEF ExistsInv, TypeOK, Download
  <1>8. ASSUME NEW t \in Thread, DownloadThrows(t)
        PROVE  ExistsInv'
    BY <1>8 DEF ExistsInv, TypeOK, DownloadThrows
  <1>9. ASSUME NEW t \in Thread, EnterAdd(t)
        PROVE  ExistsInv'
    BY <1>9 DEF ExistsInv, TypeOK, EnterAdd
  <1>10. ASSUME NEW t \in Thread, CreateFile(t)
        PROVE  ExistsInv'
    BY <1>10 DEF ExistsInv, TypeOK, CreateFile
  <1>11. ASSUME NEW t \in Thread, WriteLine(t)
        PROVE  ExistsInv'
    <2>1. line[t] \in Isid /\ AppendLine(line[t])
      BY <1>11 DEF TypeOK, WriteLine
    <2>2. file'.exists = file.exists /\ file.exists
      BY <1>11, <2>1, AppendStored DEF ExistsInv, WriteLine
    <2>. QED
      BY <1>11, <2>2 DEF ExistsInv, TypeOK, WriteLine
  <1>12. ASSUME NEW t \in Thread, AddFails(t)
        PROVE  ExistsInv'
    <2>1. file'.lines = file.lines /\ file'.exists = file.exists
      BY <1>12 DEF TypeOK, AddFails
    <2>. QED
      BY <1>12, <2>1 DEF ExistsInv, TypeOK, AddFails
  <1>13. ASSUME NEW t \in Thread, SendDelivery(t)
        PROVE  ExistsInv'
    BY <1>13 DEF ExistsInv, TypeOK, SendDelivery
  <1>14. ASSUME NEW t \in Thread, EnterCheck(t)
        PROVE  ExistsInv'
    BY <1>14 DEF ExistsInv, TypeOK, EnterCheck
  <1>15. ASSUME NEW t \in Thread, TestExists(t)
        PROVE  ExistsInv'
    <2>1. file' = file /\ \A u \in Thread : pc'[u] = "write" => pc[u] = "write"
      BY <1>15 DEF TestExists, TypeOK, Answer
    <2>. QED
      BY <2>1 DEF ExistsInv
  <1>16. ASSUME NEW t \in Thread, Measure(t)
        PROVE  ExistsInv'
    BY <1>16 DEF ExistsInv, TypeOK, Measure
  <1>17. ASSUME NEW t \in Thread, ReadFile(t)
        PROVE  ExistsInv'
    BY <1>17 DEF ExistsInv, TypeOK, ReadFile, Answer
  <1>18. ASSUME NEW t \in Thread, ReadFails(t)
        PROVE  ExistsInv'
    BY <1>18 DEF ExistsInv, TypeOK, ReadFails, Answer
  <1>19. ASSUME NEW t \in Thread, Decide(t)
        PROVE  ExistsInv'
    BY <1>19 DEF ExistsInv, TypeOK, Decide
  <1>20. ASSUME NEW t \in Thread, Return(t)
        PROVE  ExistsInv'
    BY <1>20 DEF ExistsInv, TypeOK, Return
  <1>21. CASE UNCHANGED vars
    BY <1>21 DEF ExistsInv, TypeOK, vars
  <1>. QED
    BY <1>1, <1>2, <1>3, <1>4, <1>5, <1>6, <1>7, <1>8, <1>9, <1>10, <1>11,
       <1>12, <1>13, <1>14, <1>15, <1>16, <1>17, <1>18, <1>19, <1>20, <1>21
    DEF Next, Call, Step, Manage

\* What one more damaged text does to their number.
LEMMA OneMore ==
    ASSUME NEW S, IsFiniteSet(S), NEW x
    PROVE  IsFiniteSet(S \cup {x}) /\ Cardinality(S) \in Nat
           /\ Cardinality(S \cup {x}) \in Nat /\ Cardinality(S \cup {x}) <= Cardinality(S) + 1
  <1>1. Cardinality(S) \in Nat
    BY FS_CardinalityType
  <1>2. /\ IsFiniteSet(S \cup {x})
        /\ Cardinality(S \cup {x}) = IF x \in S THEN Cardinality(S) ELSE Cardinality(S) + 1
    BY FS_AddElement
  <1>. QED
    BY <1>1, <1>2

\* A failure leaves at most one text, and the append after it one more.
LEMMA DamageStep ==
    TypeOK /\ DamageInv /\ [Next]_vars => DamageInv'
  <1>. SUFFICES ASSUME TypeOK, DamageInv, [Next]_vars
                PROVE  DamageInv'
    OBVIOUS
  <1>1. /\ faults \in Nat /\ IsFiniteSet(damaged) /\ Cardinality(damaged) \in Nat
        /\ Pending \in {0, 1}
    BY FS_CardinalityType DEF TypeOK, DamageInv, Pending
  <1>2. ASSUME file'.tail = file.tail, damaged' = damaged, faults' \in {faults, faults + 1}
        PROVE  DamageInv'
    BY <1>1, <1>2 DEF DamageInv, Pending
  <1>3. ASSUME NEW t \in Thread, WriteLine(t)
        PROVE  DamageInv'
    <2>1. /\ line[t] \in Isid /\ AppendLine(line[t]) /\ faults' = faults
      BY <1>3 DEF TypeOK, WriteLine
    <2>2. file'.tail = None
      BY <2>1, AppendStored
    <2>3. CASE file.tail = None
      BY <1>2, <1>3, <2>1, <2>2, <2>3 DEF WriteLine
    <2>4. CASE file.tail # None
      <3>1. damaged' = damaged \cup {Continued(line[t])}
        BY <1>3, <2>4 DEF WriteLine
      <3>2. /\ IsFiniteSet(damaged') /\ Cardinality(damaged') \in Nat
            /\ Cardinality(damaged') <= Cardinality(damaged) + 1
        BY <1>1, <3>1, OneMore
      <3>3. Pending = 1 /\ Pending' = 0
        BY <2>2, <2>4 DEF Pending
      <3>. QED
        BY <1>1, <2>1, <3>2, <3>3 DEF DamageInv
    <2>. QED
      BY <2>3, <2>4
  <1>4. ASSUME NEW t \in Thread, AddFails(t)
        PROVE  DamageInv'
    <2>1. faults' = faults + 1
      BY <1>4 DEF AddFails, Fault
    <2>2. CASE UNCHANGED <<file, damaged>>
      BY <1>2, <2>1, <2>2
    <2>3. ASSUME NEW x, damaged' = damaged \cup {x}
          PROVE  DamageInv'
      <3>1. /\ IsFiniteSet(damaged') /\ Cardinality(damaged') \in Nat
            /\ Cardinality(damaged') <= Cardinality(damaged) + 1
        BY <1>1, <2>3, OneMore
      <3>2. Pending' \in {0, 1}
        BY DEF Pending
      <3>. QED
        BY <1>1, <2>1, <3>1, <3>2 DEF DamageInv
    <2>. QED
      BY <1>4, <2>2, <2>3 DEF AddFails
  <1>5. ASSUME ~(\E u \in Thread : WriteLine(u) \/ AddFails(u))
        PROVE  /\ file'.tail = file.tail /\ damaged' = damaged
               /\ faults' \in {faults, faults + 1}
    <2>. USE DEF callVars, playVars, askVars
    <2>1. CASE UNCHANGED vars
      BY <2>1 DEF vars
    <2>2. ASSUME NEW t \in Thread, Call(t)
          PROVE  /\ file'.tail = file.tail /\ damaged' = damaged /\ faults' = faults
      BY <2>2 DEF Call, DeliverOther, DeliverPlay, Download, DownloadThrows
    <2>3. ASSUME NEW t \in Thread, Step(t)
          PROVE  /\ file'.tail = file.tail /\ damaged' = damaged
                 /\ faults' \in {faults, faults + 1}
      BY <1>5, <2>3 DEF Step, EnterAdd, CreateFile, SendDelivery, EnterCheck, TestExists,
         Measure, ReadFile, ReadFails, Decide, Return, Fault, TypeOK
    <2>4. ASSUME NEW p \in Proc, Manage(p)
          PROVE  /\ file'.tail = file.tail /\ damaged' = damaged /\ faults' = faults
      BY <2>4 DEF Manage, Attach, HookDelivery, HookDownload, Crash
    <2>. QED
      BY <2>1, <2>2, <2>3, <2>4 DEF Next
  <1>. QED
    BY <1>2, <1>3, <1>4, <1>5

-----------------------------------------------------------------------------
(* The answer to a download.                                               *)

\* The steps that start, advance or end no lookup.
QuietStep ==
    \/ \E p \in Proc : Attach(p) \/ HookDelivery(p) \/ HookDownload(p)
    \/ \E t \in Thread :
          \/ \E shape \in PassShape \cup ThrowShape : DeliverOther(t, shape)
          \/ \E isid \in Delivers : DeliverPlay(t, isid)
          \/ DownloadThrows(t) \/ EnterAdd(t) \/ CreateFile(t) \/ WriteLine(t)
          \/ AddFails(t) \/ SendDelivery(t) \/ EnterCheck(t)
    \/ UNCHANGED vars

\* What they leave alone.
Quiet ==
    /\ Stored \subseteq Stored' /\ claimed \subseteq claimed' /\ damaged \subseteq damaged'
    /\ UNCHANGED <<isids, todo, view, isGooglePlay, asked, due, cached, unread>>
    /\ \A u \in Thread : /\ pc'[u] \in Checking <=> pc[u] \in Checking
                        /\ \A l \in {"read", "passed", "refused"} : pc'[u] = l <=> pc[u] = l

LEMMA QuietStepIsQuiet == TypeOK /\ QuietStep => Quiet
  <1>. SUFFICES ASSUME TypeOK, QuietStep
                PROVE  Quiet
    OBVIOUS
  <1>. USE DEF callVars, playVars, askVars, Goto
  <1>1. Stored \subseteq Stored' /\ claimed \subseteq claimed' /\ damaged \subseteq damaged'
    BY FileStep DEF QuietStep, Next, Call, Step, Manage
  <1>2. UNCHANGED <<isids, todo, view, isGooglePlay, asked, due, cached, unread>>
    BY DEF QuietStep, Attach, HookDelivery, HookDownload, DeliverOther, DeliverPlay,
           DownloadThrows, EnterAdd, CreateFile, WriteLine, AddFails, SendDelivery,
           EnterCheck, vars
  <1>3. \A u \in Thread : /\ pc'[u] \in Checking <=> pc[u] \in Checking
                          /\ \A l \in {"read", "passed", "refused"} : pc'[u] = l <=> pc[u] = l
    <2>1. \/ UNCHANGED pc
          \/ \E t \in Thread :
                \/ /\ pc[t] \in {"idle", "add", "create", "write", "send"}
                   /\ \E l \in {"delivered", "threw", "add", "create", "write", "send"} :
                         pc' = [pc EXCEPT ![t] = l]
                \/ pc[t] = "check" /\ pc' = [pc EXCEPT ![t] = "exists"]
      BY DEF QuietStep, Attach, HookDelivery, HookDownload, DeliverOther, DeliverPlay,
             DownloadThrows, EnterAdd, CreateFile, WriteLine, AddFails, SendDelivery,
             EnterCheck, vars, DeliveryStarts, DownloadStarts, AddPc
    <2>. QED
      BY <2>1 DEF TypeOK, Checking, CheckPc
  <1>. QED
    BY <1>1, <1>2, <1>3 DEF Quiet

\* A positive answer rests on a claimed name or on what a failed append left.
LEMMA AskedStep ==
    TypeOK /\ TodoInv /\ SourceInv /\ AskedInv /\ [Next]_vars => AskedInv'
  <1>. SUFFICES ASSUME TypeOK, TodoInv, SourceInv, AskedInv, [Next]_vars
                PROVE  AskedInv'
    OBVIOUS
  <1>. USE ConstAssumption DEF ConstAssumption, callVars, playVars, askVars, Goto
  <1>1. CASE QuietStep
    <2>1. Quiet
      BY <1>1, QuietStepIsQuiet
    <2>2. \A u \in Thread : Left(u)' = Left(u)
      BY <2>1 DEF Quiet, Left
    <2>. QED
      BY <2>1, <2>2 DEF Quiet, AskedInv
  <1>2. ASSUME NEW p \in Proc, Crash(p)
        PROVE  AskedInv'
    <2>1. /\ claimed' = claimed /\ damaged' = damaged
          /\ \A u \in Thread :
                \/ pc'[u] = "idle" /\ asked'[u] = {} /\ todo'[u] = <<>> /\ ~isGooglePlay'[u]
                \/ /\ pc'[u] = pc[u] /\ asked'[u] = asked[u] /\ todo'[u] = todo[u]
                   /\ isGooglePlay'[u] = isGooglePlay[u]
      BY <1>2, CrashEffect
    <2>2. \A u \in Thread : todo'[u] = <<>> => Left(u)' = {}
      BY DEF Left
    <2>3. \A u \in Thread : todo'[u] = todo[u] => Left(u)' = Left(u)
      BY DEF Left
    <2>. QED
      BY <2>1, <2>2, <2>3 DEF AskedInv
  <1>3. ASSUME NEW t \in Thread, NEW cpn \in Queries, NEW isid \in Queries, Download(t, cpn, isid)
        PROVE  AskedInv'
    <2>1. claimed' = claimed /\ damaged' = damaged /\ \A u \in Thread \ {t} : todo'[u] = todo[u]
      BY <1>3 DEF Download, TypeOK
    <2>2. "check" \in Checking
      BY DEF Checking
    <2>3. /\ Left(t)' = asked'[t] /\ EmptyIsid \notin asked'[t]
          /\ isGooglePlay'[t] = FALSE /\ pc'[t] = "check"
      BY <1>3, DownloadEffect
    <2>4. \A u \in Thread \ {t} : /\ Left(u)' = Left(u) /\ asked'[u] = asked[u]
                                 /\ isGooglePlay'[u] = isGooglePlay[u] /\ pc'[u] = pc[u]
      BY <1>3, DownloadEffect
    <2>. QED
      BY <2>1, <2>2, <2>3, <2>4 DEF AskedInv
  <1>4. ASSUME NEW t \in Thread, TestExists(t)
        PROVE  AskedInv'
    <2>1. CASE file.exists
      <3>1. /\ pc' = [pc EXCEPT ![t] = "length"] /\ pc[t] = "exists"
            /\ UNCHANGED <<file, isids, todo, view, isGooglePlay, claimed, damaged>>
            /\ UNCHANGED <<asked, due, cached, unread>>
        BY <1>4, <2>1 DEF TestExists
      <3>2. Stored' = Stored /\ \A u \in Thread : Left(u)' = Left(u)
        BY <3>1 DEF Stored, Left
      <3>3. \A u \in Thread : /\ pc'[u] \in Checking <=> pc[u] \in Checking
                             /\ \A l \in {"read", "passed", "refused"} : pc'[u] = l <=> pc[u] = l
        BY <3>1 DEF TypeOK, Checking, CheckPc
      <3>. QED
        BY <3>1, <3>2, <3>3 DEF AskedInv
    <2>2. CASE ~file.exists
      <3>1. Answer(t, {}) /\ pc[t] \in CheckPc /\ {} \in SUBSET Isid
        BY <1>4, <2>2 DEF TypeOK, TestExists, CheckPc
      <3>2. /\ Left(t) = {Head(todo[t])} \cup Left(t)'
            /\ isGooglePlay'[t] <=> (\/ isGooglePlay[t]
                                     \/ Head(todo[t]) \in isids[Home[t]] \cup {})
            /\ pc'[t] = "check"
            /\ \A u \in Thread \ {t} : /\ Left(u)' = Left(u)
                                       /\ isGooglePlay'[u] = isGooglePlay[u]
                                       /\ pc'[u] = pc[u] /\ todo'[u] = todo[u]
        BY <3>1, AnswerSummary
      <3>3. isids[Home[t]] \cup {} \subseteq claimed \cup damaged \cup {EmptyIsid}
        BY DEF SourceInv, Known
      <3>4. /\ Head(todo[t]) \in asked[t] /\ Head(todo[t]) \in Isid /\ Head(todo[t]) # EmptyIsid
        BY <3>2 DEF AskedInv, TypeOK
      <3>5. asked' = asked /\ claimed' = claimed /\ damaged' = damaged
        BY <1>4, <2>2 DEF TestExists
      <3>6. isGooglePlay'[t] => asked[t] \cap (claimed \cup damaged) # {}
        BY <3>2, <3>3, <3>4 DEF AskedInv
      <3>7. "check" \in Checking
        BY DEF Checking
      <3>. QED
        BY <3>2, <3>5, <3>6, <3>7 DEF AskedInv
    <2>. QED
      BY <2>1, <2>2
  <1>5. ASSUME NEW t \in Thread, Measure(t)
        PROVE  AskedInv'
    <2>1. /\ UNCHANGED <<file, isids, todo, isGooglePlay, claimed, damaged, asked, due, cached, unread>>
          /\ pc[t] = "length" /\ pc'[t] = "read" /\ view'[t] = SplitLines(Content)
          /\ \A u \in Thread \ {t} : pc'[u] = pc[u] /\ view'[u] = view[u]
      BY <1>5 DEF Measure, TypeOK
    <2>2. Stored' = Stored /\ \A u \in Thread : Left(u)' = Left(u)
      BY <2>1 DEF Left, Stored
    <2>3. {"length", "read"} \subseteq Checking
      BY DEF Checking, CheckPc
    <2>. QED
      BY <2>1, <2>2, <2>3 DEF AskedInv
  <1>6. ASSUME NEW t \in Thread, ReadFile(t)
        PROVE  AskedInv'
    <2>1. Answer(t, view[t]) /\ pc[t] \in CheckPc /\ view[t] \in SUBSET Isid
      BY <1>6 DEF TypeOK, ReadFile, CheckPc
    <2>2. /\ Left(t) = {Head(todo[t])} \cup Left(t)'
          /\ isGooglePlay'[t] <=> (\/ isGooglePlay[t]
                                   \/ Head(todo[t]) \in isids[Home[t]] \cup view[t])
          /\ pc'[t] = "check"
          /\ \A u \in Thread \ {t} : /\ Left(u)' = Left(u)
                                     /\ isGooglePlay'[u] = isGooglePlay[u]
                                     /\ pc'[u] = pc[u] /\ todo'[u] = todo[u]
      BY <2>1, AnswerSummary
    <2>3. isids[Home[t]] \cup view[t] \subseteq claimed \cup damaged \cup {EmptyIsid}
      BY DEF SourceInv, Known
    <2>4. /\ Head(todo[t]) \in asked[t] /\ Head(todo[t]) \in Isid /\ Head(todo[t]) # EmptyIsid
      BY <2>2 DEF AskedInv, TypeOK
    <2>5. asked' = asked /\ claimed' = claimed /\ damaged' = damaged
      BY <1>6 DEF ReadFile
    <2>6. isGooglePlay'[t] => asked[t] \cap (claimed \cup damaged) # {}
      BY <2>2, <2>3, <2>4 DEF AskedInv
    <2>7. "check" \in Checking
      BY DEF Checking
    <2>. QED
      BY <2>2, <2>5, <2>6, <2>7 DEF AskedInv
  <1>7. ASSUME NEW t \in Thread, ReadFails(t)
        PROVE  AskedInv'
    <2>1. Answer(t, {}) /\ pc[t] \in CheckPc /\ {} \in SUBSET Isid
      BY <1>7 DEF TypeOK, ReadFails, CheckPc
    <2>2. /\ Left(t) = {Head(todo[t])} \cup Left(t)'
          /\ isGooglePlay'[t] <=> (\/ isGooglePlay[t]
                                   \/ Head(todo[t]) \in isids[Home[t]] \cup {})
          /\ pc'[t] = "check"
          /\ \A u \in Thread \ {t} : /\ Left(u)' = Left(u)
                                     /\ isGooglePlay'[u] = isGooglePlay[u]
                                     /\ pc'[u] = pc[u] /\ todo'[u] = todo[u]
      BY <2>1, AnswerSummary
    <2>3. isids[Home[t]] \cup {} \subseteq claimed \cup damaged \cup {EmptyIsid}
      BY DEF SourceInv, Known
    <2>4. /\ Head(todo[t]) \in asked[t] /\ Head(todo[t]) \in Isid /\ Head(todo[t]) # EmptyIsid
      BY <2>2 DEF AskedInv, TypeOK
    <2>5. asked' = asked /\ claimed' = claimed /\ damaged' = damaged
      BY <1>7 DEF ReadFails
    <2>6. isGooglePlay'[t] => asked[t] \cap (claimed \cup damaged) # {}
      BY <2>2, <2>3, <2>4 DEF AskedInv
    <2>7. "check" \in Checking
      BY DEF Checking
    <2>. QED
      BY <2>2, <2>5, <2>6, <2>7 DEF AskedInv
  <1>8. ASSUME NEW t \in Thread, Decide(t)
        PROVE  AskedInv'
    <2>1. /\ UNCHANGED <<file, isids, todo, view, isGooglePlay, claimed, damaged, asked, due, cached, unread>>
          /\ pc[t] = "check" /\ todo[t] = <<>>
          /\ pc'[t] = IF isGooglePlay[t] THEN "refused" ELSE "passed"
          /\ \A u \in Thread \ {t} : pc'[u] = pc[u]
      BY <1>8 DEF Decide, TypeOK
    <2>2. Stored' = Stored /\ \A u \in Thread : Left(u)' = Left(u)
      BY <2>1 DEF Left, Stored
    <2>3. Left(t) = {} /\ pc[t] \in Checking
      BY <2>1 DEF Left, Checking
    <2>. QED
      BY <2>1, <2>2, <2>3 DEF AskedInv, Checking, CheckPc
  <1>9. ASSUME NEW t \in Thread, Return(t)
        PROVE  AskedInv'
    <2>1. pc[t] \notin Checking /\ todo[t] = <<>>
      BY <1>9 DEF Return, AskedInv, Checking, CheckPc, DonePc
    <2>2. Left(t) = {}
      BY <2>1 DEF Left
    <2>3. /\ UNCHANGED <<file, isids, todo, view, claimed, damaged>> /\ pc[t] \in DonePc
          /\ pc'[t] = "idle" /\ isGooglePlay'[t] = FALSE /\ asked'[t] = {}
          /\ due'[t] = FALSE /\ cached'[t] = FALSE /\ unread'[t] = FALSE
      BY <1>9 DEF Return, TypeOK
    <2>4. \A u \in Thread \ {t} : /\ pc'[u] = pc[u] /\ isGooglePlay'[u] = isGooglePlay[u]
                                 /\ asked'[u] = asked[u] /\ due'[u] = due[u]
                                 /\ cached'[u] = cached[u] /\ unread'[u] = unread[u]
      BY <1>9 DEF Return, TypeOK
    <2>5. Stored' = Stored /\ \A u \in Thread : Left(u)' = Left(u)
      BY <2>3 DEF Stored, Left
    <2>. QED
      BY <2>1, <2>2, <2>3, <2>4, <2>5 DEF AskedInv
  <1>. QED
    BY <1>1, <1>2, <1>3, <1>4, <1>5, <1>6, <1>7, <1>8, <1>9 DEF QuietStep, Next, Call, Step, Manage

\* A recorded name is not overlooked.
LEMMA DueStep ==
    TypeOK /\ TodoInv /\ SourceInv /\ ExistsInv /\ AskedInv /\ DueInv /\ [Next]_vars => DueInv'
  <1>. SUFFICES ASSUME TypeOK, TodoInv, SourceInv, ExistsInv, AskedInv, DueInv, [Next]_vars
                PROVE  DueInv'
    OBVIOUS
  <1>. USE ConstAssumption DEF ConstAssumption, callVars, playVars, askVars, Goto
  <1>1. CASE QuietStep
    <2>1. Quiet
      BY <1>1, QuietStepIsQuiet
    <2>2. \A u \in Thread : Left(u)' = Left(u)
      BY <2>1 DEF Quiet, Left
    <2>. QED
      BY <2>1, <2>2 DEF Quiet, DueInv
  <1>2. ASSUME NEW p \in Proc, Crash(p)
        PROVE  DueInv'
    <2>1. /\ file' = file
          /\ \A u \in Thread :
                \/ ~due'[u]
                \/ /\ pc'[u] = pc[u] /\ due'[u] = due[u] /\ todo'[u] = todo[u]
                   /\ isGooglePlay'[u] = isGooglePlay[u] /\ unread'[u] = unread[u]
                   /\ view'[u] = view[u]
      BY <1>2, CrashEffect
    <2>2. Stored' = Stored /\ \A u \in Thread : todo'[u] = todo[u] => Left(u)' = Left(u)
      BY <2>1 DEF Stored, Left
    <2>. QED
      BY <2>1, <2>2 DEF DueInv
  <1>3. ASSUME NEW t \in Thread, NEW cpn \in Queries, NEW isid \in Queries, Download(t, cpn, isid)
        PROVE  DueInv'
    <2>1. file' = file /\ view' = view
      BY <1>3 DEF Download
    <2>2. Stored' = Stored
      BY <2>1 DEF Stored
    <2>3. /\ Left(t)' = asked'[t] /\ due'[t] = (asked'[t] \cap Stored # {})
          /\ pc'[t] = "check"
      BY <1>3, DownloadEffect
    <2>4. \A u \in Thread \ {t} : /\ Left(u)' = Left(u) /\ due'[u] = due[u]
                                 /\ isGooglePlay'[u] = isGooglePlay[u] /\ pc'[u] = pc[u]
                                 /\ unread'[u] = unread[u]
      BY <1>3, DownloadEffect
    <2>. QED
      BY <2>1, <2>2, <2>3, <2>4 DEF DueInv
  <1>4. ASSUME NEW t \in Thread, TestExists(t)
        PROVE  DueInv'
    <2>1. CASE file.exists
      <3>1. /\ pc' = [pc EXCEPT ![t] = "length"] /\ pc[t] = "exists"
            /\ UNCHANGED <<file, isids, todo, view, isGooglePlay, claimed, damaged>>
            /\ UNCHANGED <<asked, due, cached, unread>>
        BY <1>4, <2>1 DEF TestExists
      <3>2. Stored' = Stored /\ \A u \in Thread : Left(u)' = Left(u)
        BY <3>1 DEF Stored, Left
      <3>3. \A u \in Thread : /\ pc'[u] \in Checking <=> pc[u] \in Checking
                             /\ \A l \in {"read", "passed", "refused"} : pc'[u] = l <=> pc[u] = l
        BY <3>1 DEF TypeOK, Checking, CheckPc
      <3>. QED
        BY <3>1, <3>2, <3>3 DEF DueInv
    <2>2. CASE ~file.exists
      <3>1. Answer(t, {}) /\ pc[t] \in CheckPc /\ {} \in SUBSET Isid
        BY <1>4, <2>2 DEF TypeOK, TestExists, CheckPc
      <3>2. /\ Left(t) = {Head(todo[t])} \cup Left(t)'
            /\ isGooglePlay'[t] <=> (\/ isGooglePlay[t]
                                     \/ Head(todo[t]) \in isids[Home[t]] \cup {})
            /\ pc'[t] = "check"
            /\ \A u \in Thread \ {t} : /\ Left(u)' = Left(u) /\ pc'[u] = pc[u]
                                       /\ isGooglePlay'[u] = isGooglePlay[u]
                                       /\ view'[u] = view[u]
        BY <3>1, AnswerEffect DEF TypeOK
      <3>3. /\ Stored' = Stored /\ due' = due
            /\ \A u \in Thread \ {t} : unread'[u] = unread[u]
        BY <1>4, <2>2 DEF TestExists, Stored, TypeOK
      <3>4. due[t] /\ ~unread'[t] /\ ~isGooglePlay'[t] => Left(t)' \cap Stored # {}
        <4>1. file.lines = <<>> /\ unread' = unread /\ pc[t] = "exists"
          BY <1>4, <2>2 DEF TestExists, ExistsInv
        <4>2. Stored = {} /\ pc[t] \in Checking
          BY <4>1 DEF Stored, Checking, CheckPc
        <4>. QED
          BY <3>2, <4>1, <4>2 DEF DueInv
      <3>. QED
        BY <3>2, <3>3, <3>4 DEF DueInv
    <2>. QED
      BY <2>1, <2>2
  <1>5. ASSUME NEW t \in Thread, Measure(t)
        PROVE  DueInv'
    <2>1. /\ UNCHANGED <<file, isids, todo, isGooglePlay, claimed, damaged, asked, due, cached, unread>>
          /\ pc[t] = "length" /\ pc'[t] = "read" /\ view'[t] = SplitLines(Content)
          /\ \A u \in Thread \ {t} : pc'[u] = pc[u] /\ view'[u] = view[u]
      BY <1>5 DEF Measure, TypeOK
    <2>2. Stored' = Stored /\ \A u \in Thread : Left(u)' = Left(u)
      BY <2>1 DEF Left, Stored
    <2>3. Stored \ {EmptyIsid} \subseteq SplitLines(Content) /\ EmptyIsid \notin Left(t)
      BY ViewOfContent DEF AskedInv
    <2>4. Left(t) \cap Stored # {} => Left(t) \cap Stored \cap view'[t] # {}
      BY <2>1, <2>3
    <2>5. {"length", "read"} \subseteq Checking
      BY DEF Checking, CheckPc
    <2>. QED
      BY <2>1, <2>2, <2>4, <2>5 DEF DueInv
  <1>6. ASSUME NEW t \in Thread, ReadFile(t)
        PROVE  DueInv'
    <2>1. Answer(t, view[t]) /\ pc[t] \in CheckPc /\ view[t] \in SUBSET Isid
      BY <1>6 DEF TypeOK, ReadFile, CheckPc
    <2>2. /\ Left(t) = {Head(todo[t])} \cup Left(t)'
          /\ isGooglePlay'[t] <=> (\/ isGooglePlay[t]
                                   \/ Head(todo[t]) \in isids[Home[t]] \cup view[t])
          /\ pc'[t] = "check"
          /\ \A u \in Thread \ {t} : /\ Left(u)' = Left(u) /\ pc'[u] = pc[u]
                                     /\ isGooglePlay'[u] = isGooglePlay[u]
                                     /\ view'[u] = view[u]
      BY <2>1, AnswerEffect DEF TypeOK
    <2>3. /\ Stored' = Stored /\ due' = due
          /\ \A u \in Thread \ {t} : unread'[u] = unread[u]
      BY <1>6 DEF ReadFile, Stored, TypeOK
    <2>4. due[t] /\ ~unread'[t] /\ ~isGooglePlay'[t] => Left(t)' \cap Stored # {}
      <3>1. pc[t] = "read" /\ unread' = unread
        BY <1>6 DEF ReadFile
      <3>. QED
        BY <2>2, <3>1 DEF DueInv
    <2>. QED
      BY <2>2, <2>3, <2>4 DEF DueInv
  <1>7. ASSUME NEW t \in Thread, ReadFails(t)
        PROVE  DueInv'
    <2>1. Answer(t, {}) /\ pc[t] \in CheckPc /\ {} \in SUBSET Isid
      BY <1>7 DEF TypeOK, ReadFails, CheckPc
    <2>2. /\ Left(t) = {Head(todo[t])} \cup Left(t)'
          /\ isGooglePlay'[t] <=> (\/ isGooglePlay[t]
                                   \/ Head(todo[t]) \in isids[Home[t]] \cup {})
          /\ pc'[t] = "check"
          /\ \A u \in Thread \ {t} : /\ Left(u)' = Left(u) /\ pc'[u] = pc[u]
                                     /\ isGooglePlay'[u] = isGooglePlay[u]
                                     /\ view'[u] = view[u]
      BY <2>1, AnswerEffect DEF TypeOK
    <2>3. /\ Stored' = Stored /\ due' = due
          /\ \A u \in Thread \ {t} : unread'[u] = unread[u]
      BY <1>7 DEF ReadFails, Stored, TypeOK
    <2>4. due[t] /\ ~unread'[t] /\ ~isGooglePlay'[t] => Left(t)' \cap Stored # {}
      BY <1>7 DEF ReadFails, TypeOK
    <2>. QED
      BY <2>2, <2>3, <2>4 DEF DueInv
  <1>8. ASSUME NEW t \in Thread, Decide(t)
        PROVE  DueInv'
    <2>1. /\ UNCHANGED <<file, isids, todo, view, isGooglePlay, claimed, damaged, asked, due, cached, unread>>
          /\ pc[t] = "check" /\ todo[t] = <<>>
          /\ pc'[t] = IF isGooglePlay[t] THEN "refused" ELSE "passed"
          /\ \A u \in Thread \ {t} : pc'[u] = pc[u]
      BY <1>8 DEF Decide, TypeOK
    <2>2. Stored' = Stored /\ \A u \in Thread : Left(u)' = Left(u)
      BY <2>1 DEF Left, Stored
    <2>3. Left(t) = {} /\ pc[t] \in Checking
      BY <2>1 DEF Left, Checking
    <2>4. due[t] /\ ~unread[t] => isGooglePlay[t]
      BY <2>1, <2>3 DEF DueInv
    <2>. QED
      BY <2>1, <2>2, <2>3, <2>4 DEF DueInv, Checking, CheckPc
  <1>9. ASSUME NEW t \in Thread, Return(t)
        PROVE  DueInv'
    <2>1. /\ UNCHANGED <<file, isids, todo, view, claimed, damaged>> /\ pc[t] \in DonePc
          /\ pc'[t] = "idle" /\ isGooglePlay'[t] = FALSE /\ asked'[t] = {}
          /\ due'[t] = FALSE /\ cached'[t] = FALSE /\ unread'[t] = FALSE
      BY <1>9 DEF Return, TypeOK
    <2>2. \A u \in Thread \ {t} : /\ pc'[u] = pc[u] /\ isGooglePlay'[u] = isGooglePlay[u]
                                 /\ asked'[u] = asked[u] /\ due'[u] = due[u]
                                 /\ cached'[u] = cached[u] /\ unread'[u] = unread[u]
      BY <1>9 DEF Return, TypeOK
    <2>3. Stored' = Stored /\ \A u \in Thread : Left(u)' = Left(u)
      BY <2>1 DEF Stored, Left
    <2>. QED
      BY <2>1, <2>2, <2>3 DEF DueInv
  <1>. QED
    BY <1>1, <1>2, <1>3, <1>4, <1>5, <1>6, <1>7, <1>8, <1>9 DEF QuietStep, Next, Call, Step, Manage

\* A name that the process has loaded is not overlooked.
LEMMA CachedStep ==
    TypeOK /\ TodoInv /\ CachedInv /\ [Next]_vars => CachedInv'
  <1>. SUFFICES ASSUME TypeOK, TodoInv, CachedInv, [Next]_vars
                PROVE  CachedInv'
    OBVIOUS
  <1>. USE ConstAssumption DEF ConstAssumption, callVars, playVars, askVars, Goto
  <1>1. CASE QuietStep
    <2>1. Quiet
      BY <1>1, QuietStepIsQuiet
    <2>2. \A u \in Thread : Left(u)' = Left(u)
      BY <2>1 DEF Quiet, Left
    <2>. QED
      BY <2>1, <2>2 DEF Quiet, CachedInv
  <1>2. ASSUME NEW p \in Proc, Crash(p)
        PROVE  CachedInv'
    <2>1. \A u \in Thread :
             \/ ~cached'[u]
             \/ /\ Home[u] # p /\ pc'[u] = pc[u] /\ cached'[u] = cached[u]
                /\ todo'[u] = todo[u] /\ isGooglePlay'[u] = isGooglePlay[u]
      BY <1>2, CrashEffect
    <2>2. isids' = [isids EXCEPT ![p] = {}]
      BY <1>2, CrashEffect
    <2>3. \A u \in Thread : Home[u] # p => isids'[Home[u]] = isids[Home[u]]
      BY <2>2 DEF TypeOK
    <2>4. \A u \in Thread : todo'[u] = todo[u] => Left(u)' = Left(u)
      BY DEF Left
    <2>. QED
      BY <2>1, <2>3, <2>4 DEF CachedInv
  <1>3. ASSUME NEW t \in Thread, NEW cpn \in Queries, NEW isid \in Queries, Download(t, cpn, isid)
        PROVE  CachedInv'
    <2>1. isids' = isids
      BY <1>3 DEF Download
    <2>2. /\ Left(t)' = asked'[t] /\ cached'[t] = (asked'[t] \cap isids[Home[t]] # {})
          /\ pc'[t] = "check"
      BY <1>3, DownloadEffect
    <2>3. \A u \in Thread \ {t} : /\ Left(u)' = Left(u) /\ cached'[u] = cached[u]
                                 /\ isGooglePlay'[u] = isGooglePlay[u] /\ pc'[u] = pc[u]
      BY <1>3, DownloadEffect
    <2>. QED
      BY <2>1, <2>2, <2>3 DEF CachedInv
  <1>4. ASSUME NEW t \in Thread, TestExists(t)
        PROVE  CachedInv'
    <2>1. CASE file.exists
      <3>1. /\ pc' = [pc EXCEPT ![t] = "length"] /\ pc[t] = "exists"
            /\ UNCHANGED <<file, isids, todo, view, isGooglePlay, claimed, damaged>>
            /\ UNCHANGED <<asked, due, cached, unread>>
        BY <1>4, <2>1 DEF TestExists
      <3>2. Stored' = Stored /\ \A u \in Thread : Left(u)' = Left(u)
        BY <3>1 DEF Stored, Left
      <3>3. \A u \in Thread : /\ pc'[u] \in Checking <=> pc[u] \in Checking
                             /\ \A l \in {"read", "passed", "refused"} : pc'[u] = l <=> pc[u] = l
        BY <3>1 DEF TypeOK, Checking, CheckPc
      <3>. QED
        BY <3>1, <3>2, <3>3 DEF CachedInv
    <2>2. CASE ~file.exists
      <3>1. Answer(t, {}) /\ pc[t] \in CheckPc /\ {} \in SUBSET Isid
        BY <1>4, <2>2 DEF TypeOK, TestExists, CheckPc
      <3>2. /\ Left(t) = {Head(todo[t])} \cup Left(t)'
            /\ isGooglePlay'[t] <=> (\/ isGooglePlay[t]
                                     \/ Head(todo[t]) \in isids[Home[t]] \cup {})
            /\ isids' = [isids EXCEPT ![Home[t]] = isids[Home[t]] \cup {}]
            /\ pc' = [pc EXCEPT ![t] = "check"]
            /\ \A u \in Thread \ {t} : /\ Left(u)' = Left(u)
                                       /\ isGooglePlay'[u] = isGooglePlay[u]
        BY <3>1, AnswerEffect
      <3>3. \A u \in Thread : isids[Home[u]] \subseteq isids'[Home[u]]
        BY <3>2 DEF TypeOK
      <3>4. /\ cached' = cached /\ pc[t] \in Checking /\ pc'[t] = "check"
            /\ \A u \in Thread \ {t} : pc'[u] = pc[u]
        BY <1>4, <2>2, <3>1, <3>2 DEF TestExists, Checking, TypeOK
      <3>5. cached[t] /\ ~isGooglePlay'[t] => Left(t)' \cap isids[Home[t]] # {}
        BY <3>2, <3>4 DEF CachedInv
      <3>. QED
        BY <3>2, <3>3, <3>4, <3>5 DEF CachedInv
    <2>. QED
      BY <2>1, <2>2
  <1>5. ASSUME NEW t \in Thread, Measure(t)
        PROVE  CachedInv'
    <2>1. /\ UNCHANGED <<file, isids, todo, isGooglePlay, claimed, damaged, asked, due, cached, unread>>
          /\ pc[t] = "length" /\ pc'[t] = "read" /\ view'[t] = SplitLines(Content)
          /\ \A u \in Thread \ {t} : pc'[u] = pc[u] /\ view'[u] = view[u]
      BY <1>5 DEF Measure, TypeOK
    <2>2. Stored' = Stored /\ \A u \in Thread : Left(u)' = Left(u)
      BY <2>1 DEF Left, Stored
    <2>3. {"length", "read"} \subseteq Checking
      BY DEF Checking, CheckPc
    <2>. QED
      BY <2>1, <2>2, <2>3 DEF CachedInv
  <1>6. ASSUME NEW t \in Thread, ReadFile(t)
        PROVE  CachedInv'
    <2>1. Answer(t, view[t]) /\ pc[t] \in CheckPc /\ view[t] \in SUBSET Isid
      BY <1>6 DEF TypeOK, ReadFile, CheckPc
    <2>2. /\ Left(t) = {Head(todo[t])} \cup Left(t)'
          /\ isGooglePlay'[t] <=> (\/ isGooglePlay[t]
                                   \/ Head(todo[t]) \in isids[Home[t]] \cup view[t])
          /\ isids' = [isids EXCEPT ![Home[t]] = isids[Home[t]] \cup view[t]]
          /\ pc' = [pc EXCEPT ![t] = "check"]
          /\ \A u \in Thread \ {t} : /\ Left(u)' = Left(u)
                                     /\ isGooglePlay'[u] = isGooglePlay[u]
      BY <2>1, AnswerEffect
    <2>3. \A u \in Thread : isids[Home[u]] \subseteq isids'[Home[u]]
      BY <2>2 DEF TypeOK
    <2>4. /\ cached' = cached /\ pc[t] \in Checking /\ pc'[t] = "check"
          /\ \A u \in Thread \ {t} : pc'[u] = pc[u]
      BY <1>6, <2>1, <2>2 DEF ReadFile, Checking, TypeOK
    <2>5. cached[t] /\ ~isGooglePlay'[t] => Left(t)' \cap isids[Home[t]] # {}
      BY <2>2, <2>4 DEF CachedInv
    <2>. QED
      BY <2>2, <2>3, <2>4, <2>5 DEF CachedInv
  <1>7. ASSUME NEW t \in Thread, ReadFails(t)
        PROVE  CachedInv'
    <2>1. Answer(t, {}) /\ pc[t] \in CheckPc /\ {} \in SUBSET Isid
      BY <1>7 DEF TypeOK, ReadFails, CheckPc
    <2>2. /\ Left(t) = {Head(todo[t])} \cup Left(t)'
          /\ isGooglePlay'[t] <=> (\/ isGooglePlay[t]
                                   \/ Head(todo[t]) \in isids[Home[t]] \cup {})
          /\ isids' = [isids EXCEPT ![Home[t]] = isids[Home[t]] \cup {}]
          /\ pc' = [pc EXCEPT ![t] = "check"]
          /\ \A u \in Thread \ {t} : /\ Left(u)' = Left(u)
                                     /\ isGooglePlay'[u] = isGooglePlay[u]
      BY <2>1, AnswerEffect
    <2>3. \A u \in Thread : isids[Home[u]] \subseteq isids'[Home[u]]
      BY <2>2 DEF TypeOK
    <2>4. /\ cached' = cached /\ pc[t] \in Checking /\ pc'[t] = "check"
          /\ \A u \in Thread \ {t} : pc'[u] = pc[u]
      BY <1>7, <2>1, <2>2 DEF ReadFails, Checking, TypeOK
    <2>5. cached[t] /\ ~isGooglePlay'[t] => Left(t)' \cap isids[Home[t]] # {}
      BY <2>2, <2>4 DEF CachedInv
    <2>. QED
      BY <2>2, <2>3, <2>4, <2>5 DEF CachedInv
  <1>8. ASSUME NEW t \in Thread, Decide(t)
        PROVE  CachedInv'
    <2>1. /\ UNCHANGED <<file, isids, todo, view, isGooglePlay, claimed, damaged, asked, due, cached, unread>>
          /\ pc[t] = "check" /\ todo[t] = <<>>
          /\ pc'[t] = IF isGooglePlay[t] THEN "refused" ELSE "passed"
          /\ \A u \in Thread \ {t} : pc'[u] = pc[u]
      BY <1>8 DEF Decide, TypeOK
    <2>2. Stored' = Stored /\ \A u \in Thread : Left(u)' = Left(u)
      BY <2>1 DEF Left, Stored
    <2>3. Left(t) = {} /\ pc[t] \in Checking
      BY <2>1 DEF Left, Checking
    <2>4. cached[t] => isGooglePlay[t]
      BY <2>1, <2>3 DEF CachedInv
    <2>. QED
      BY <2>1, <2>2, <2>3, <2>4 DEF CachedInv, Checking, CheckPc
  <1>9. ASSUME NEW t \in Thread, Return(t)
        PROVE  CachedInv'
    <2>1. /\ UNCHANGED <<file, isids, todo, view, claimed, damaged>> /\ pc[t] \in DonePc
          /\ pc'[t] = "idle" /\ isGooglePlay'[t] = FALSE /\ asked'[t] = {}
          /\ due'[t] = FALSE /\ cached'[t] = FALSE /\ unread'[t] = FALSE
      BY <1>9 DEF Return, TypeOK
    <2>2. \A u \in Thread \ {t} : /\ pc'[u] = pc[u] /\ isGooglePlay'[u] = isGooglePlay[u]
                                 /\ asked'[u] = asked[u] /\ due'[u] = due[u]
                                 /\ cached'[u] = cached[u] /\ unread'[u] = unread[u]
      BY <1>9 DEF Return, TypeOK
    <2>3. Stored' = Stored /\ \A u \in Thread : Left(u)' = Left(u)
      BY <2>1 DEF Stored, Left
    <2>. QED
      BY <2>1, <2>2, <2>3 DEF CachedInv
  <1>. QED
    BY <1>1, <1>2, <1>3, <1>4, <1>5, <1>6, <1>7, <1>8, <1>9 DEF QuietStep, Next, Call, Step, Manage

-----------------------------------------------------------------------------
(* The theorems.                                                           *)

LEMMA InvInit == Init => IInv
  <1>. SUFFICES ASSUME Init
                PROVE  IInv
    OBVIOUS
  <1>. USE ConstAssumption DEF ConstAssumption, Init
  <1>1. TypeOK /\ TodoInv
    BY TypeInit
  <1>2. Stored = {} /\ \A t \in Thread : Left(t) = {}
    BY DEF Stored, Left
  <1>3. SourceInv
    BY <1>2 DEF SourceInv, Known, AddPc
  <1>4. SendInv /\ ExistsInv
    BY DEF SendInv, ExistsInv
  <1>5. AskedInv /\ DueInv /\ CachedInv
    BY <1>2 DEF AskedInv, DueInv, CachedInv
  <1>6. DamageInv
    BY FS_EmptySet DEF DamageInv, Pending
  <1>. QED
    BY <1>1, <1>3, <1>4, <1>5, <1>6 DEF IInv

LEMMA InvStep == IInv /\ [Next]_vars => IInv'
  BY TypeStep, SourceStep, SendStep, ExistsStep, AskedStep, DueStep, CachedStep,
     DamageStep DEF IInv

LEMMA Invariance == Spec => []IInv
  BY InvInit, InvStep, PTL DEF Spec

\* Every variable keeps its type.
THEOREM TypeCorrect == Spec => []TypeOK
  <1>1. IInv => TypeOK
    BY DEF IInv
  <1>. QED
    BY Invariance, <1>1, PTL

\* Whatever is in the file and whoever writes it meanwhile, a download is refused only
\* for a name that a Play Store delivery put forward or that a failed append left, and
\* n failures leave at most 2n such names (l. 36-65, 175-200).
THEOREM RefusalsAreClaimed == Spec => []NoFalseRefusal
  <1>1. IInv => NoFalseRefusal
    <2>. SUFFICES ASSUME IInv PROVE NoFalseRefusal
      OBVIOUS
    <2>1. \A t \in Thread : pc[t] = "refused" => asked[t] \cap (claimed \cup damaged) # {}
      BY DEF IInv, AskedInv
    <2>2. faults \in Nat /\ Cardinality(damaged) \in Nat
      BY FS_CardinalityType DEF IInv, TypeOK, DamageInv
    <2>3. Cardinality(damaged) <= 2 * faults
      BY <2>2 DEF IInv, DamageInv, Pending
    <2>. QED
      BY <2>1, <2>3 DEF NoFalseRefusal
  <1>. QED
    BY Invariance, <1>1, PTL

\* A name recorded before the download started is refused in every process, for
\* every interleaving of writers, readers and kills (l. 46-53, 175-200).
THEOREM RecordedRefused == Spec => []RecordedIsRefused
  <1>1. IInv => RecordedIsRefused
    BY DEF IInv, DueInv, RecordedIsRefused
  <1>. QED
    BY Invariance, <1>1, PTL

\* A name once loaded is refused for as long as the process lives (l. 48-51).
THEOREM CachedRefused == Spec => []CachedIsRefused
  <1>1. IInv => CachedIsRefused
    BY DEF IInv, CachedInv, CachedIsRefused
  <1>. QED
    BY Invariance, <1>1, PTL

\* A delivery leaves after its isid was recorded, or the record was lost to a
\* file operation that failed (l. 144-173, 223-226).
THEOREM SentRecorded == Spec => []SentIsRecorded
  <1>1. IInv => SentIsRecorded
    BY DEF IInv, SendInv, SentIsRecorded
  <1>. QED
    BY Invariance, <1>1, PTL

-----------------------------------------------------------------------------
(* PlayGuard implements PlayPolicy.                                        *)

\* Who is neither asked nor answered has left nothing behind.
NoneInv ==
    \A t \in Thread : Answered(t) = "none" => asked[t] = {} /\ ~due[t] /\ ~unread[t]

PolicyInv == IInv /\ NoneInv

LEMMA QuietAnswers == ASSUME Quiet PROVE \A t \in Thread : Answered(t)' = Answered(t)
  BY DEF Quiet, Answered, Checking, CheckPc

\* A step of a lookup that does not answer: nothing that the policy sees, but that the
\* file could not be read.
LookupStep(t) == TestExists(t) \/ Measure(t) \/ ReadFile(t) \/ ReadFails(t)

LEMMA LookupAnswers ==
    ASSUME TypeOK, NEW t \in Thread, LookupStep(t)
    PROVE  /\ Answered(t) = "asking"
           /\ \A u \in Thread : Answered(u)' = Answered(u)
           /\ UNCHANGED <<file, claimed, damaged, asked, due>>
           /\ \/ UNCHANGED <<faults, unread>>
              \/ faults' = faults + 1 /\ unread' = [unread EXCEPT ![t] = TRUE]
  <1>1. /\ pc[t] \in CheckPc
        /\ \E l \in {"check", "length", "read"} : pc' = [pc EXCEPT ![t] = l]
    BY DEF LookupStep, TestExists, Measure, ReadFile, ReadFails, Answer, Goto, CheckPc
  <1>2. UNCHANGED <<file, claimed, damaged, asked, due>>
    BY DEF LookupStep, TestExists, Measure, ReadFile, ReadFails, playVars, askVars
  <1>3. /\ pc'[t] \in CheckPc \cup {"check"} /\ pc'[t] \notin {"passed", "refused"}
        /\ \A u \in Thread \ {t} : pc'[u] = pc[u]
    BY <1>1 DEF TypeOK, CheckPc
  <1>4. \/ UNCHANGED <<faults, unread>>
        \/ faults' = faults + 1 /\ unread' = [unread EXCEPT ![t] = TRUE]
    BY DEF LookupStep, TestExists, Measure, ReadFile, ReadFails, Fault, askVars
  <1>5. /\ Answered(t) = "asking"
        /\ \A u \in Thread : Answered(u)' = Answered(u)
    BY <1>1, <1>3 DEF Answered, CheckPc
  <1>. QED
    BY <1>2, <1>4, <1>5

LEMMA PolicyInit == Init => Policy!Init /\ NoneInv
  <1>. SUFFICES ASSUME Init PROVE Policy!Init /\ NoneInv
    OBVIOUS
  <1>1. \A t \in Thread : Answered(t) = "none"
    BY DEF Init, Answered, CheckPc
  <1>2. Stored = {}
    BY DEF Init, Stored
  <1>. QED
    BY <1>1, <1>2 DEF Init, Policy!Init, NoneInv

-----------------------------------------------------------------------------
\* What the policy sees of a step that starts, advances or ends no lookup: a name that
\* is put forward, a name that is recorded, a failure and its mark, or nothing.
LEMMA QuietImplements ==
    ASSUME IInv, QuietStep
    PROVE  [Policy!Next]_(Policy!vars) /\ UNCHANGED <<asked, due, unread>>
  <1>0. TypeOK /\ SourceInv /\ SendInv /\ Quiet
    BY QuietStepIsQuiet DEF IInv
  <1>1. [t \in Thread |-> Answered(t)]' = [t \in Thread |-> Answered(t)]
    BY <1>0, QuietAnswers
  <1>2. UNCHANGED <<asked, due, unread>>
    BY <1>0 DEF Quiet
  <1>3. ASSUME NEW t \in Thread, NEW isid \in Delivers, DeliverPlay(t, isid)
        PROVE  Policy!Next
    <2>1. line'[t] \in Isid
      BY <1>0, <1>3, ConstAssumption DEF DeliverPlay, TypeOK, ConstAssumption
    <2>2. /\ Stored' = Stored /\ claimed' = claimed \cup {line'[t]}
          /\ UNCHANGED <<damaged, faults>>
      BY <1>3 DEF DeliverPlay, Stored
    <2>. QED
      BY <1>1, <1>2, <2>1, <2>2 DEF Policy!Next, Policy!Claim
  <1>4. ASSUME NEW t \in Thread, WriteLine(t)
        PROVE  Policy!Next
    <2>1. line[t] \in Isid /\ line[t] \in claimed /\ UNCHANGED <<claimed, faults>>
      BY <1>0, <1>4 DEF WriteLine, TypeOK, SourceInv, AddPc
    <2>2. Stored' = Stored \cup {Continued(line[t])} /\ Continued(line[t]) \in Isid
      BY <1>0, <1>4, <2>1, AppendStored, ContinuedType DEF WriteLine
    <2>3. CASE file.tail = None
      <3>1. Stored' = Stored \cup {line[t]} /\ damaged' = damaged
        BY <1>4, <2>2, <2>3 DEF Continued, WriteLine
      <3>. QED
        BY <1>1, <1>2, <2>1, <3>1 DEF Policy!Next, Policy!Record
    <2>4. CASE file.tail # None
      <3>1. damaged' = damaged \cup {Continued(line[t])}
        BY <1>4, <2>4 DEF WriteLine
      <3>2. faults > 0
        BY <1>0, <2>4 DEF SendInv, TypeOK
      <3>. QED
        BY <1>1, <1>2, <2>1, <2>2, <3>1, <3>2 DEF Policy!Next, Policy!Spoil
    <2>. QED
      BY <2>3, <2>4
  <1>5. ASSUME NEW t \in Thread, AddFails(t)
        PROVE  Policy!Next
    <2>1. faults' = faults + 1 /\ claimed' = claimed /\ file'.lines = file.lines
      BY <1>0, <1>5 DEF AddFails, Fault, TypeOK
    <2>2. Stored' = Stored
      BY <2>1 DEF Stored
    <2>3. damaged' = damaged \/ \E n \in Isid : damaged' = damaged \cup {n}
      <3>1. ASSUME NEW part \in Fragment[line[t]]
            PROVE  Continued(part) \in Isid
        BY <1>0, ConstAssumption, ContinuedType DEF TypeOK, ConstAssumption
      <3>. QED
        BY <1>5, <3>1 DEF AddFails
    <2>. QED
      BY <1>1, <1>2, <2>1, <2>2, <2>3 DEF Policy!Next, Policy!Fail
  <1>6. ASSUME ~(\E u \in Thread, i \in Delivers : DeliverPlay(u, i)),
               ~(\E u \in Thread : WriteLine(u)),
               ~(\E u \in Thread : AddFails(u))
        PROVE  UNCHANGED Policy!vars
    <2>1. UNCHANGED <<claimed, damaged, faults>> /\ file'.lines = file.lines
      BY <1>0, <1>6 DEF QuietStep, Attach, HookDelivery, HookDownload, DeliverOther,
         DownloadThrows, EnterAdd, CreateFile, SendDelivery, EnterCheck, vars,
         playVars, TypeOK
    <2>2. Stored' = Stored
      BY <2>1 DEF Stored
    <2>. QED
      BY <1>1, <1>2, <2>1, <2>2 DEF Policy!vars
  <1>. QED
    BY <1>2, <1>3, <1>4, <1>5, <1>6, Zenon

\* A download that starts asks, for names that are recorded or are not.
LEMMA DownloadImplements ==
    ASSUME IInv, NoneInv, NEW t \in Thread, NEW cpn \in Queries, NEW isid \in Queries,
           Download(t, cpn, isid)
    PROVE  Policy!Ask(t) /\ NoneInv'
  <1>0. TypeOK
    BY DEF IInv
  <1>1. /\ asked'[t] \subseteq Isid \ {EmptyIsid}
        /\ due'[t] = (asked'[t] \cap Stored # {})
        /\ unread'[t] = FALSE /\ pc'[t] = "check"
        /\ \A u \in Thread \ {t} : /\ asked'[u] = asked[u] /\ due'[u] = due[u]
                                   /\ unread'[u] = unread[u] /\ pc'[u] = pc[u]
    BY <1>0, DownloadEffect
  <1>2. /\ file' = file /\ claimed' = claimed /\ UNCHANGED <<damaged, faults>>
        /\ pc[t] = "idle"
        /\ asked' = [asked EXCEPT ![t] = asked'[t]]
        /\ due' = [due EXCEPT ![t] = due'[t]]
        /\ unread' = [unread EXCEPT ![t] = FALSE]
    BY <1>0 DEF Download, DownloadStarts, playVars, TypeOK
  <1>3. Answered(t) = "none" /\ Answered(t)' = "asking"
        /\ \A u \in Thread \ {t} : Answered(u)' = Answered(u)
    BY <1>1, <1>2 DEF Answered, CheckPc
  <1>4. unread' = unread
    BY <1>0, <1>2, <1>3 DEF NoneInv, TypeOK
  <1>5. [u \in Thread |-> Answered(u)]'
          = [[u \in Thread |-> Answered(u)] EXCEPT ![t] = "asking"]
    BY <1>3
  <1>6. due'[t] = (asked'[t] \cap Stored # {})
    BY <1>1
  <1>7. Policy!Ask(t)
    <2>1. asked'[t] \in SUBSET Isid
      BY <1>1
    <2>2. [u \in Thread |-> Answered(u)][t] = "none"
      BY <1>3
    <2>3. due' = [due EXCEPT ![t] = asked'[t] \cap Stored # {}]
      BY <1>2, <1>6, Zenon
    <2>4. Stored' = Stored
      BY <1>2 DEF Stored
    <2>5. UNCHANGED <<claimed, Stored, damaged, faults, unread>>
      BY <1>2, <1>4, <2>4
    <2>. QED
      BY <1>2, <1>5, <2>1, <2>2, <2>3, <2>5, Zenon DEF Policy!Ask
  <1>8. NoneInv'
    BY <1>1, <1>3 DEF NoneInv
  <1>. QED
    BY <1>7, <1>8

\* A lookup does nothing that the policy sees, or misses.
LEMMA LookupImplements ==
    ASSUME IInv, NoneInv, NEW t \in Thread, LookupStep(t)
    PROVE  (Policy!Miss(t) \/ UNCHANGED Policy!vars) /\ NoneInv'
  <1>0. TypeOK
    BY DEF IInv
  <1>1. /\ Answered(t) = "asking"
        /\ \A u \in Thread : Answered(u)' = Answered(u)
        /\ UNCHANGED <<file, claimed, damaged, asked, due>>
    BY <1>0, LookupAnswers
  <1>2. [u \in Thread |-> Answered(u)]' = [u \in Thread |-> Answered(u)] /\ Stored' = Stored
    BY <1>1 DEF Stored
  <1>3. \/ UNCHANGED <<faults, unread>>
        \/ faults' = faults + 1 /\ unread' = [unread EXCEPT ![t] = TRUE]
    BY <1>0, LookupAnswers
  <1>4. Policy!Miss(t) \/ UNCHANGED Policy!vars
    BY <1>1, <1>2, <1>3 DEF Policy!Miss, Policy!vars
  <1>5. NoneInv'
    BY <1>0, <1>1, <1>3 DEF NoneInv, TypeOK
  <1>. QED
    BY <1>4, <1>5

\* A decision is the one that the policy allows: this is where the parts of IInv that
\* speak of downloads come together.
LEMMA DecideImplements ==
    ASSUME IInv, NoneInv, NEW t \in Thread, Decide(t)
    PROVE  (Policy!Pass(t) \/ Policy!Refuse(t)) /\ NoneInv'
  <1>0. TypeOK /\ AskedInv /\ DueInv
    BY DEF IInv
  <1>1. /\ pc[t] = "check" /\ todo[t] = <<>>
        /\ pc'[t] = IF isGooglePlay[t] THEN "refused" ELSE "passed"
        /\ \A u \in Thread \ {t} : pc'[u] = pc[u]
        /\ UNCHANGED <<file, faults, claimed, damaged, asked, due, unread>>
    BY <1>0 DEF Decide, Goto, TypeOK, playVars, askVars
  <1>2. /\ Answered(t) = "asking"
        /\ Answered(t)' = IF isGooglePlay[t] THEN "refused" ELSE "passed"
        /\ \A u \in Thread \ {t} : Answered(u)' = Answered(u)
    BY <1>1 DEF Answered, CheckPc
  <1>3. [u \in Thread |-> Answered(u)]'
          = [[u \in Thread |-> Answered(u)] EXCEPT
                ![t] = IF isGooglePlay[t] THEN "refused" ELSE "passed"]
    BY <1>2
  <1>4. Stored' = Stored
    BY <1>1 DEF Stored
  <1>5. CASE isGooglePlay[t]
    <2>1. asked[t] \cap (claimed \cup damaged) # {}
      BY <1>0, <1>5 DEF AskedInv
    <2>. QED
      BY <1>1, <1>2, <1>3, <1>4, <1>5, <2>1 DEF Policy!Refuse, NoneInv
  <1>6. CASE ~isGooglePlay[t]
    <2>1. Left(t) = {} /\ pc[t] \in Checking
      BY <1>1 DEF Left, Checking
    <2>2. due[t] => unread[t]
      BY <1>0, <1>6, <2>1 DEF DueInv
    <2>. QED
      BY <1>1, <1>2, <1>3, <1>4, <1>6, <2>2 DEF Policy!Pass, NoneInv
  <1>. QED
    BY <1>5, <1>6

\* A return ends one download, a kill those of a process.
LEMMA EndImplements ==
    ASSUME IInv, NoneInv, NEW T \in SUBSET Thread,
           \A t \in T : /\ Answered(t)' = "none"
                        /\ asked'[t] = {} /\ due'[t] = FALSE /\ unread'[t] = FALSE,
           \A t \in Thread \ T : /\ Answered(t)' = Answered(t)
                                 /\ asked'[t] = asked[t] /\ due'[t] = due[t]
                                 /\ unread'[t] = unread[t],
           TypeOK', file' = file, UNCHANGED <<claimed, damaged, faults>>
    PROVE  Policy!End /\ NoneInv'
  <1>1. Stored' = Stored
    BY DEF Stored
  <1>2. /\ asked' = [t \in Thread |-> IF t \in T THEN {} ELSE asked[t]]
        /\ due' = [t \in Thread |-> IF t \in T THEN FALSE ELSE due[t]]
        /\ unread' = [t \in Thread |-> IF t \in T THEN FALSE ELSE unread[t]]
    BY DEF TypeOK
  <1>3. [t \in Thread |-> Answered(t)]'
          = [t \in Thread |-> IF t \in T THEN "none" ELSE [u \in Thread |-> Answered(u)][t]]
    OBVIOUS
  <1>4. Policy!End
    BY <1>1, <1>2, <1>3 DEF Policy!End
  <1>5. NoneInv'
    BY DEF NoneInv
  <1>. QED
    BY <1>4, <1>5

LEMMA ReturnImplements ==
    ASSUME IInv, NoneInv, TypeOK', NEW t \in Thread, Return(t)
    PROVE  Policy!End /\ NoneInv'
  <1>0. TypeOK
    BY DEF IInv
  <1>1. /\ pc'[t] = "idle" /\ asked'[t] = {} /\ due'[t] = FALSE /\ unread'[t] = FALSE
        /\ \A u \in Thread \ {t} : /\ pc'[u] = pc[u] /\ asked'[u] = asked[u]
                                   /\ due'[u] = due[u] /\ unread'[u] = unread[u]
        /\ UNCHANGED <<file, claimed, damaged, faults>>
    BY <1>0 DEF Return, Goto, TypeOK, playVars
  <1>2. Answered(t)' = "none" /\ \A u \in Thread \ {t} : Answered(u)' = Answered(u)
    BY <1>1 DEF Answered, CheckPc
  <1>3. {t} \in SUBSET Thread
    OBVIOUS
  <1>. QED
    BY <1>1, <1>2, <1>3, EndImplements

LEMMA CrashImplements ==
    ASSUME IInv, NoneInv, TypeOK', NEW p \in Proc, Crash(p)
    PROVE  Policy!End /\ NoneInv'
  <1>. DEFINE gone == {t \in Thread : Home[t] = p}
  <1>0. TypeOK
    BY DEF IInv
  <1>1. \A t \in gone : /\ pc'[t] = "idle" /\ asked'[t] = {}
                        /\ due'[t] = FALSE /\ unread'[t] = FALSE
    BY DEF Crash
  <1>2. \A t \in Thread \ gone : /\ pc'[t] = pc[t] /\ asked'[t] = asked[t]
                                 /\ due'[t] = due[t] /\ unread'[t] = unread[t]
    BY DEF Crash
  <1>3. UNCHANGED <<file, claimed, damaged, faults>>
    BY DEF Crash, playVars
  <1>4. \A t \in gone : Answered(t)' = "none"
    BY <1>1 DEF Answered, CheckPc
  <1>5. \A t \in Thread \ gone : Answered(t)' = Answered(t)
    BY <1>2 DEF Answered
  <1>6. gone \in SUBSET Thread
    OBVIOUS
  <1>. HIDE DEF gone
  <1>. QED
    BY <1>1, <1>2, <1>3, <1>4, <1>5, <1>6, EndImplements

LEMMA PolicyStep ==
    ASSUME IInv, NoneInv, [Next]_vars
    PROVE  [Policy!Next]_(Policy!vars) /\ NoneInv'
  <1>0. TypeOK /\ TypeOK'
    BY InvStep DEF IInv
  <1>1. CASE QuietStep
    <2>1. [Policy!Next]_(Policy!vars) /\ UNCHANGED <<asked, due, unread>>
      BY <1>1, QuietImplements
    <2>2. \A t \in Thread : Answered(t)' = Answered(t)
      BY <1>0, <1>1, QuietStepIsQuiet, QuietAnswers
    <2>. QED
      BY <2>1, <2>2 DEF NoneInv
  <1>2. ASSUME NEW t \in Thread, NEW cpn \in Queries, NEW isid \in Queries,
               Download(t, cpn, isid)
        PROVE  Policy!Next /\ NoneInv'
    BY <1>2, DownloadImplements DEF Policy!Next
  <1>3. ASSUME NEW t \in Thread, LookupStep(t)
        PROVE  [Policy!Next]_(Policy!vars) /\ NoneInv'
    BY <1>3, LookupImplements DEF Policy!Next
  <1>4. ASSUME NEW t \in Thread, Decide(t) PROVE Policy!Next /\ NoneInv'
    BY <1>4, DecideImplements DEF Policy!Next
  <1>5. ASSUME NEW t \in Thread, Return(t) PROVE Policy!Next /\ NoneInv'
    BY <1>0, <1>5, ReturnImplements DEF Policy!Next
  <1>6. ASSUME NEW p \in Proc, Crash(p) PROVE Policy!Next /\ NoneInv'
    BY <1>0, <1>6, CrashImplements DEF Policy!Next
  <1>. QED
    BY <1>1, <1>2, <1>3, <1>4, <1>5, <1>6 DEF QuietStep, LookupStep, Next, Call, Step, Manage

\* The promise of PlayPolicy is kept, by any number of processes and threads, whatever
\* fails and whoever is killed: the names outlive every process, and a download is
\* answered by what was recorded before it and put forward until then, or left by an
\* append that failed (l. 36-65, 144-200).
THEOREM PolicyIsImplemented == Spec => ImplementsPolicy
  <1>1. Init => Policy!Init /\ PolicyInv
    BY InvInit, PolicyInit DEF PolicyInv
  <1>2. PolicyInv /\ [Next]_vars => PolicyInv'
    BY InvStep, PolicyStep DEF PolicyInv
  <1>3. PolicyInv /\ [Next]_vars => [Policy!Next]_(Policy!vars)
    BY PolicyStep DEF PolicyInv
  <1>. QED
    BY <1>1, <1>2, <1>3, PTL DEF Spec, ImplementsPolicy, Policy!Spec

=============================================================================
