----------------------------- MODULE FieldAccess -----------------------------
(***************************************************************************)
(* HookTools.GetFieldValue(Field, Object) and SetField(Field, Object,      *)
(* Object) on one Field that several threads use: HttpEngine.RequestField  *)
(* and ResponseField are static, and each request of the application goes  *)
(* through them.                                                           *)
(*                                                                         *)
(* An access remembers the accessible flag of the Field, sets it, uses the *)
(* Field and puts back what it found.  The flag belongs to the Field and   *)
(* nothing orders the threads: one can take away what another one has set  *)
(* and not used yet.  The field is private in its class, so the use throws *)
(* then, which ends the access with null or false.                         *)
(***************************************************************************)
CONSTANT Thread

VARIABLES
    accessible,  \* the flag of the Field
    pc,          \* per thread: where it is
    oldAcc,      \* per thread: what it found
    served,      \* per thread: its last access did what it is for
    \* History, read by no guard.
    met,         \* per thread: another access went on during its last one
    crossed,     \* two accesses have gone on at once
    left         \* the flag was set while no access went on

history == <<met, crossed, left>>
vars == <<accessible, pc, oldAcc, served, history>>

TypeOK ==
    /\ accessible \in BOOLEAN
    /\ pc \in [Thread -> {"idle", "saved", "use", "restore"}]
    /\ oldAcc \in [Thread -> BOOLEAN]
    /\ served \in [Thread -> BOOLEAN]
    /\ met \in [Thread -> BOOLEAN]
    /\ crossed \in BOOLEAN /\ left \in BOOLEAN

\* getDeclaredField gives a Field that is not accessible.
Init ==
    /\ accessible = FALSE
    /\ pc = [t \in Thread |-> "idle"]
    /\ oldAcc = [t \in Thread |-> FALSE]
    /\ served = [t \in Thread |-> TRUE]
    /\ met = [t \in Thread |-> FALSE]
    /\ crossed = FALSE /\ left = FALSE

Goto(t, l) == pc' = [pc EXCEPT ![t] = l]
Busy       == {t \in Thread : pc[t] # "idle"}

\* What the end of an access of t leaves behind.
End(t) ==
    /\ Goto(t, "idle")
    /\ left' = (left \/ (Busy = {t} /\ accessible'))
    /\ UNCHANGED <<oldAcc, met, crossed>>

\* Variant: the flag is read after it was set.
Save_AfterSet(t) ==
    /\ pc[t] = "idle"
    /\ oldAcc' = [oldAcc EXCEPT ![t] = TRUE]
    /\ met' = [u \in Thread |-> IF u = t THEN Busy # {} ELSE met[u] \/ u \in Busy]
    /\ crossed' = (crossed \/ Busy # {})
    /\ Goto(t, "saved")
    /\ UNCHANGED <<accessible, served, left>>

\* oldAcc = field.isAccessible()
Save(t) ==
    /\ pc[t] = "idle"
    /\ oldAcc' = [oldAcc EXCEPT ![t] = accessible]
    /\ met' = [u \in Thread |-> IF u = t THEN Busy # {} ELSE met[u] \/ u \in Busy]
    /\ crossed' = (crossed \/ Busy # {})
    /\ Goto(t, "saved")
    /\ UNCHANGED <<accessible, served, left>>

\* Variant: the Field is not made accessible.
SetAccessible_Not(t) ==
    /\ pc[t] = "saved"
    /\ Goto(t, "use")
    /\ UNCHANGED <<accessible, oldAcc, served, history>>

\* field.setAccessible(true)
SetAccessible(t) ==
    /\ pc[t] = "saved"
    /\ accessible' = TRUE
    /\ Goto(t, "use")
    /\ UNCHANGED <<oldAcc, served, history>>

\* field.get(obj), field.set(obj, value)
Use(t) ==
    /\ pc[t] = "use" /\ accessible
    /\ served' = [served EXCEPT ![t] = TRUE]
    /\ Goto(t, "restore")
    /\ UNCHANGED <<accessible, oldAcc, history>>

\* IllegalAccessException: null or false is returned, and the flag stays as it is.
UseFails(t) ==
    /\ pc[t] = "use" /\ ~accessible
    /\ served' = [served EXCEPT ![t] = FALSE]
    /\ UNCHANGED accessible
    /\ End(t)

\* field.setAccessible(oldAcc)
Restore(t) ==
    /\ pc[t] = "restore"
    /\ accessible' = oldAcc[t]
    /\ UNCHANGED served
    /\ End(t)

Access(t) == Save(t) \/ SetAccessible(t) \/ Use(t) \/ UseFails(t) \/ Restore(t)

Next == \E t \in Thread : Access(t)

Spec == Init /\ [][Next]_vars

-----------------------------------------------------------------------------
(* Properties.                                                             *)

\* An access comes to nothing only if another one went on during it
\* (HookTools 131-143, 165-176).
FailureNeedsOverlap == \A t \in Thread : pc[t] = "idle" /\ ~served[t] => met[t]

\* The Field is given back as it was found, unless accesses have gone on at once.
FlagIsGivenBack == Busy = {} /\ accessible => crossed

\* A flag that such accesses leave set stays set: no access fails any more.
FlagThatIsLeftStays == left => accessible

\* What a Field that threads share is good for.
FieldIsShared == FailureNeedsOverlap /\ FlagIsGivenBack /\ FlagThatIsLeftStays

=============================================================================
