-------------------------- MODULE FieldAccessProofs --------------------------
(***************************************************************************)
(* Theorems about FieldAccess, for any threads.                            *)
(***************************************************************************)
EXTENDS FieldAccess, TLAPS

(* The inductive invariant, in parts.                                      *)

\* Two accesses that go on at once both know it.
MetInv == \A t, u \in Thread : t # u /\ pc[t] # "idle" /\ pc[u] # "idle" => met[t]

\* The Field is accessible for an access that has met nobody.
AloneInv == \A t \in Thread : pc[t] = "use" /\ ~met[t] => accessible

\* As long as no accesses crossed, the flag is set by the one that uses it, who found
\* it as it was at the beginning.
CrossedInv ==
    ~crossed =>
        /\ \A t \in Thread : pc[t] # "idle" => ~met[t] /\ ~oldAcc[t]
        /\ accessible => \E t \in Thread : pc[t] \in {"use", "restore"}

\* Once the flag was left set, whoever goes on has found it so.
LeftInv == left => accessible /\ \A t \in Thread : pc[t] # "idle" => oldAcc[t]

\* Who puts the flag back has used the Field.
ServedInv == \A t \in Thread : pc[t] = "restore" => served[t]

IInv == TypeOK /\ ServedInv /\ MetInv /\ AloneInv /\ CrossedInv /\ LeftInv /\ FailureNeedsOverlap

LEMMA InitIInv == Init => IInv
  BY DEF Init, IInv, TypeOK, ServedInv, MetInv, AloneInv, CrossedInv, LeftInv, FailureNeedsOverlap

LEMMA TypeStep == TypeOK /\ [Next]_vars => TypeOK'
  <1>. SUFFICES ASSUME TypeOK, [Next]_vars PROVE TypeOK'
    OBVIOUS
  <1>. USE DEF TypeOK, Goto
  <1>1. ASSUME NEW t \in Thread, Save(t) PROVE TypeOK'
    BY <1>1 DEF Save, Busy
  <1>2. ASSUME NEW t \in Thread, SetAccessible(t) PROVE TypeOK'
    BY <1>2 DEF SetAccessible, history
  <1>3. ASSUME NEW t \in Thread, Use(t) PROVE TypeOK'
    BY <1>3 DEF Use, history
  <1>4. ASSUME NEW t \in Thread, UseFails(t) PROVE TypeOK'
    BY <1>4 DEF UseFails, End, Busy
  <1>5. ASSUME NEW t \in Thread, Restore(t) PROVE TypeOK'
    BY <1>5 DEF Restore, End, Busy
  <1>6. ASSUME UNCHANGED vars PROVE TypeOK'
    BY <1>6 DEF vars, history
  <1>. QED
    BY <1>1, <1>2, <1>3, <1>4, <1>5, <1>6 DEF Next, Access

\* Only Save begins an access, and it tells all those that go on.
LEMMA MetStep == IInv /\ [Next]_vars => MetInv'
  <1>. SUFFICES ASSUME IInv, [Next]_vars PROVE MetInv'
    OBVIOUS
  <1>0. TypeOK /\ MetInv
    BY DEF IInv
  <1>1. ASSUME NEW t \in Thread, Save(t) PROVE MetInv'
    BY <1>0, <1>1 DEF TypeOK, MetInv, Save, Goto, Busy
  <1>2. ASSUME NEW t \in Thread, SetAccessible(t) \/ Use(t) \/ UseFails(t) \/ Restore(t)
        PROVE  MetInv'
    <2>1. met' = met /\ \A u \in Thread : pc'[u] # "idle" => pc[u] # "idle"
      BY <1>0, <1>2 DEF TypeOK, SetAccessible, Use, UseFails, Restore, End, Goto, history
    <2>. QED
      BY <1>0, <2>1 DEF MetInv
  <1>3. ASSUME UNCHANGED vars PROVE MetInv'
    BY <1>0, <1>3 DEF MetInv, vars, history
  <1>. QED
    BY <1>1, <1>2, <1>3 DEF Next, Access

\* The flag is put back by an access that goes on: an access that has met nobody is
\* not affected.
LEMMA AloneStep == IInv /\ [Next]_vars => AloneInv'
  <1>. SUFFICES ASSUME IInv, [Next]_vars PROVE AloneInv'
    OBVIOUS
  <1>0. TypeOK /\ MetInv /\ AloneInv
    BY DEF IInv
  <1>1. ASSUME NEW t \in Thread, Save(t) PROVE AloneInv'
    <2>1. accessible' = accessible
      BY <1>1 DEF Save
    <2>2. \A u \in Thread : pc'[u] = "use" /\ ~met'[u] => pc[u] = "use" /\ ~met[u]
      BY <1>0, <1>1 DEF TypeOK, Save, Goto, Busy
    <2>. QED
      BY <1>0, <2>1, <2>2 DEF AloneInv
  <1>2. ASSUME NEW t \in Thread, SetAccessible(t) PROVE AloneInv'
    BY <1>2 DEF AloneInv, SetAccessible
  <1>3. ASSUME NEW t \in Thread, Use(t) \/ UseFails(t) PROVE AloneInv'
    <2>1. accessible' = accessible /\ met' = met
      BY <1>3 DEF Use, UseFails, End, history
    <2>2. \A u \in Thread : pc'[u] = "use" => pc[u] = "use"
      BY <1>0, <1>3 DEF TypeOK, Use, UseFails, End, Goto
    <2>. QED
      BY <1>0, <2>1, <2>2 DEF AloneInv
  <1>4. ASSUME NEW t \in Thread, Restore(t) PROVE AloneInv'
    <2>1. met' = met /\ pc'[t] = "idle" /\ pc[t] # "idle"
      BY <1>0, <1>4 DEF TypeOK, Restore, End, Goto
    <2>2. \A u \in Thread \ {t} : pc'[u] = pc[u]
      BY <1>0, <1>4 DEF TypeOK, Restore, End, Goto
    <2>3. \A u \in Thread : pc'[u] = "use" => met'[u]
      BY <1>0, <2>1, <2>2 DEF MetInv
    <2>. QED
      BY <2>3 DEF AloneInv
  <1>5. ASSUME UNCHANGED vars PROVE AloneInv'
    BY <1>0, <1>5 DEF AloneInv, vars, history
  <1>. QED
    BY <1>1, <1>2, <1>3, <1>4, <1>5 DEF Next, Access

LEMMA CrossedStep == IInv /\ [Next]_vars => CrossedInv'
  <1>. SUFFICES ASSUME IInv, [Next]_vars, ~crossed' PROVE CrossedInv'
    BY DEF CrossedInv
  <1>0. TypeOK /\ MetInv /\ AloneInv /\ CrossedInv
    BY DEF IInv
  <1>1. ASSUME NEW t \in Thread, Save(t) PROVE CrossedInv'
    <2>1. ~crossed /\ Busy = {}
      BY <1>1 DEF Save
    <2>2. ~accessible
      BY <1>0, <2>1 DEF CrossedInv, Busy
    <2>3. /\ accessible' = accessible /\ oldAcc'[t] = accessible
          /\ ~met'[t] /\ \A u \in Thread \ {t} : pc'[u] = "idle"
      BY <1>0, <1>1, <2>1 DEF TypeOK, Save, Goto, Busy
    <2>. QED
      BY <2>2, <2>3 DEF CrossedInv
  <1>2. ASSUME NEW t \in Thread, SetAccessible(t) PROVE CrossedInv'
    <2>1. /\ ~crossed /\ met' = met /\ oldAcc' = oldAcc /\ pc'[t] = "use"
          /\ \A u \in Thread : pc'[u] # "idle" => pc[u] # "idle"
      BY <1>0, <1>2 DEF TypeOK, SetAccessible, Goto, history
    <2>. QED
      BY <1>0, <2>1 DEF CrossedInv
  <1>3. ASSUME NEW t \in Thread, Use(t) PROVE CrossedInv'
    <2>1. /\ ~crossed /\ met' = met /\ oldAcc' = oldAcc /\ pc'[t] = "restore"
          /\ \A u \in Thread : pc'[u] # "idle" => pc[u] # "idle"
      BY <1>0, <1>3 DEF TypeOK, Use, Goto, history
    <2>. QED
      BY <1>0, <2>1 DEF CrossedInv
  \* Without crossing there is no failure.
  <1>4. ASSUME NEW t \in Thread, UseFails(t) PROVE CrossedInv'
    <2>1. ~crossed /\ pc[t] = "use" /\ ~accessible
      BY <1>4 DEF UseFails, End
    <2>. QED
      BY <1>0, <2>1 DEF CrossedInv, AloneInv
  <1>5. ASSUME NEW t \in Thread, Restore(t) PROVE CrossedInv'
    <2>1. /\ ~crossed /\ pc[t] # "idle" /\ met' = met /\ oldAcc' = oldAcc
          /\ accessible' = oldAcc[t]
          /\ \A u \in Thread : pc'[u] # "idle" => pc[u] # "idle"
      BY <1>0, <1>5 DEF TypeOK, Restore, End, Goto
    <2>. QED
      BY <1>0, <2>1 DEF CrossedInv
  <1>6. ASSUME UNCHANGED vars PROVE CrossedInv'
    BY <1>0, <1>6 DEF CrossedInv, vars, history
  <1>. QED
    BY <1>1, <1>2, <1>3, <1>4, <1>5, <1>6 DEF Next, Access

LEMMA LeftStep == IInv /\ [Next]_vars => LeftInv'
  <1>. SUFFICES ASSUME IInv, [Next]_vars, left' PROVE LeftInv'
    BY DEF LeftInv
  <1>0. TypeOK /\ LeftInv
    BY DEF IInv
  <1>1. ASSUME NEW t \in Thread, Save(t) PROVE LeftInv'
    BY <1>0, <1>1 DEF TypeOK, LeftInv, Save, Goto
  <1>2. ASSUME NEW t \in Thread, SetAccessible(t) \/ Use(t) PROVE LeftInv'
    <2>1. /\ left /\ oldAcc' = oldAcc /\ (accessible => accessible')
          /\ \A u \in Thread : pc'[u] # "idle" => pc[u] # "idle"
      BY <1>0, <1>2 DEF TypeOK, SetAccessible, Use, Goto, history
    <2>. QED
      BY <1>0, <2>1 DEF LeftInv
  <1>3. ASSUME NEW t \in Thread, UseFails(t) \/ Restore(t) PROVE LeftInv'
    <2>1. /\ oldAcc' = oldAcc /\ pc'[t] = "idle" /\ pc[t] # "idle"
          /\ \A u \in Thread \ {t} : pc'[u] = pc[u]
          /\ left \/ (Busy = {t} /\ accessible')
          /\ \/ ~accessible /\ ~accessible'
             \/ accessible' = oldAcc[t]
      BY <1>0, <1>3 DEF TypeOK, UseFails, Restore, End, Goto
    <2>2. CASE left
      BY <1>0, <2>1, <2>2 DEF LeftInv
    <2>3. CASE Busy = {t} /\ accessible'
      <3>1. \A u \in Thread : pc'[u] = "idle"
        BY <2>1, <2>3 DEF Busy
      <3>. QED
        BY <2>3, <3>1 DEF LeftInv
    <2>. QED
      BY <2>1, <2>2, <2>3
  <1>4. ASSUME UNCHANGED vars PROVE LeftInv'
    BY <1>0, <1>4 DEF LeftInv, vars, history
  <1>. QED
    BY <1>1, <1>2, <1>3, <1>4 DEF Next, Access

LEMMA ServedStep == IInv /\ [Next]_vars => ServedInv'
  <1>. SUFFICES ASSUME IInv, [Next]_vars PROVE ServedInv'
    OBVIOUS
  <1>0. TypeOK /\ ServedInv
    BY DEF IInv
  <1>1. ASSUME NEW t \in Thread, Save(t) \/ SetAccessible(t) \/ Restore(t) PROVE ServedInv'
    BY <1>0, <1>1 DEF TypeOK, ServedInv, Save, SetAccessible, Restore, End, Goto
  <1>2. ASSUME NEW t \in Thread, Use(t) \/ UseFails(t) PROVE ServedInv'
    BY <1>0, <1>2 DEF TypeOK, ServedInv, Use, UseFails, End, Goto
  <1>3. ASSUME UNCHANGED vars PROVE ServedInv'
    BY <1>0, <1>3 DEF ServedInv, vars
  <1>. QED
    BY <1>1, <1>2, <1>3 DEF Next, Access

LEMMA FailureStep == IInv /\ [Next]_vars => FailureNeedsOverlap'
  <1>. SUFFICES ASSUME IInv, [Next]_vars PROVE FailureNeedsOverlap'
    OBVIOUS
  <1>0. TypeOK /\ ServedInv /\ AloneInv /\ FailureNeedsOverlap
    BY DEF IInv
  <1>1. ASSUME NEW t \in Thread, Save(t) PROVE FailureNeedsOverlap'
    <2>1. /\ served' = served /\ pc'[t] = "saved"
          /\ \A u \in Thread \ {t} : pc'[u] = pc[u] /\ (met[u] => met'[u])
      BY <1>0, <1>1 DEF TypeOK, Save, Goto
    <2>. QED
      BY <1>0, <2>1 DEF FailureNeedsOverlap
  <1>2. ASSUME NEW t \in Thread, SetAccessible(t) \/ Use(t) PROVE FailureNeedsOverlap'
    <2>1. /\ met' = met /\ pc'[t] # "idle"
          /\ \A u \in Thread \ {t} : pc'[u] = pc[u] /\ served'[u] = served[u]
      BY <1>0, <1>2 DEF TypeOK, SetAccessible, Use, Goto, history
    <2>. QED
      BY <1>0, <2>1 DEF FailureNeedsOverlap
  <1>3. ASSUME NEW t \in Thread, UseFails(t) PROVE FailureNeedsOverlap'
    <2>1. met[t]
      BY <1>0, <1>3 DEF AloneInv, UseFails
    <2>2. /\ met' = met
          /\ \A u \in Thread \ {t} : pc'[u] = pc[u] /\ served'[u] = served[u]
      BY <1>0, <1>3 DEF TypeOK, UseFails, End, Goto
    <2>. QED
      BY <1>0, <2>1, <2>2 DEF FailureNeedsOverlap
  <1>4. ASSUME NEW t \in Thread, Restore(t) PROVE FailureNeedsOverlap'
    <2>1. /\ met' = met /\ served' = served /\ served[t]
          /\ \A u \in Thread \ {t} : pc'[u] = pc[u]
      BY <1>0, <1>4 DEF TypeOK, ServedInv, Restore, End, Goto
    <2>. QED
      BY <1>0, <2>1 DEF FailureNeedsOverlap
  <1>5. ASSUME UNCHANGED vars PROVE FailureNeedsOverlap'
    BY <1>0, <1>5 DEF FailureNeedsOverlap, vars, history
  <1>. QED
    BY <1>1, <1>2, <1>3, <1>4, <1>5 DEF Next, Access

LEMMA Invariance == Spec => []IInv
  <1>1. IInv /\ [Next]_vars => IInv'
    BY TypeStep, ServedStep, MetStep, AloneStep, CrossedStep, LeftStep, FailureStep DEF IInv
  <1>. QED
    BY InitIInv, <1>1, PTL DEF Spec

-----------------------------------------------------------------------------
\* The variables of FieldAccess keep their types.
THEOREM TypeCorrect == Spec => []TypeOK
  <1>1. IInv => TypeOK
    BY DEF IInv
  <1>. QED
    BY Invariance, <1>1, PTL

\* However many threads share a Field: an access comes to nothing only beside another
\* one, the flag is given back unless accesses crossed, and a flag that is left set
\* stays set (HookTools 131-176).
THEOREM SharedField == Spec => []FieldIsShared
  <1>1. IInv => FieldIsShared
    <2>. SUFFICES ASSUME IInv PROVE FieldIsShared
      OBVIOUS
    <2>1. FlagIsGivenBack
      <3>. SUFFICES ASSUME Busy = {}, accessible, ~crossed PROVE FALSE
        BY DEF FlagIsGivenBack, IInv, TypeOK
      <3>1. PICK t \in Thread : pc[t] \in {"use", "restore"}
        BY DEF IInv, CrossedInv
      <3>. QED
        BY <3>1 DEF Busy
    <2>2. FlagThatIsLeftStays
      BY DEF IInv, LeftInv, FlagThatIsLeftStays
    <2>. QED
      BY <2>1, <2>2 DEF IInv, FieldIsShared
  <1>. QED
    BY Invariance, <1>1, PTL

=============================================================================
