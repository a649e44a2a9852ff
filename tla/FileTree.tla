------------------------------- MODULE FileTree -------------------------------
(***************************************************************************)
(* cpp/third/utils/linux_helper.cpp: remove_files, the two remove_dir,     *)
(* mkdir_recursive and traverse_path, by two threads at once, on a small   *)
(* tree that one of them takes away below the other.                       *)
(*                                                                         *)
(*        root                     out (elsewhere)                         *)
(*       /    \                     |                                      *)
(*     dir    leaf                 kept                                    *)
(*      |                                                                  *)
(*     sub                                                                 *)
(*                                                                         *)
(* A link points to out.  A call of the system is one step.  opendir and   *)
(* the first readdir, which reads the whole of a directory this small, are *)
(* one; the later readdir come from memory.                                *)
(*                                                                         *)
(* A system call may also fail for a reason that the tree does not show:   *)
(* permissions, a file system that does not know the d_type of its entries *)
(* or cannot read a directory to its end (the code takes the NULL of       *)
(* readdir for that end), no memory or no descriptor left.                 *)
(***************************************************************************)
EXTENDS Naturals, Sequences, FiniteSets

Loc == {"root", "dir", "leaf", "sub", "out", "kept"}
Tree == {"root", "dir", "leaf", "sub"}
ParentOf == [l \in {"dir", "leaf", "sub", "kept"} |->
                CASE l \in {"dir", "leaf"} -> "root" [] l = "sub" -> "dir" [] l = "kept" -> "out"]

CONSTANT WhiteLists   \* the white lists that traverse_path is called with

TreeAssumption == WhiteLists \subseteq SUBSET {"dir", "leaf", "sub"}

VARIABLES
    kind,      \* per place: what is there
    \* The thread that removes.
    call,      \* its call: the function, the white list, deleteRoot
    rpc,       \* where it is
    frames,    \* the remove_dir under way: directory and entries to come
    \* The other thread: mkdir_recursive or traverse_path.
    peer,      \* which of the two, or none
    whitePath, \* traverse_path: its white list, of paths at any depth
    ppc,       \* where it is
    below,     \* mkdir_recursive: the names to come; traverse_path: its stack
    entries,   \* traverse_path: the directory it reads, and the entries to come
    visits,    \* traverse_path: the places the callback was called for, in order
    \* History, read by no guard.
    before,    \* what was there at the beginning
    stays,     \* the places that nobody has changed
    leaked,    \* the DIRs that were not closed
    denied     \* the threads a system call of which failed

remover == <<rpc, frames>>
others == <<ppc, below, entries, visits>>
chosen == <<call, peer, whitePath, before>>
vars == <<kind, call, rpc, frames, peer, whitePath, ppc, below, entries, visits, before,
          stays, leaked, denied>>

Kind == {"none", "dir", "file", "link"}
Call == [func : {"files", "dir", "white", "no"}, white : SUBSET {"dir", "leaf", "sub"},
         deleteRoot : BOOLEAN]
Peer == {"mkdir", "traverse", "no"}
Pc   == {"begin", "open", "run", "true", "false"}

TypeOK ==
    /\ kind \in [Loc -> Kind] /\ before \in [Loc -> Kind]
    /\ call \in Call /\ peer \in Peer /\ whitePath \in SUBSET {"dir", "leaf", "sub"}
    /\ rpc \in Pc /\ ppc \in Pc
    /\ frames \in Seq([at : Loc, left : SUBSET (Loc \X Kind)]) /\ Len(frames) <= 3
    /\ below \in Seq(Loc) /\ visits \in Seq(Loc)
    /\ entries \in SUBSET (Loc \X Kind)
    /\ stays \in SUBSET Loc /\ leaked \in Nat /\ denied \in SUBSET {"remover", "peer"}

\* What a path leads to when a link at its end is followed, as stat and opendir do.
Resolve(k, l) == IF k[l] = "link" THEN "out" ELSE l
InDir(k, d) == {l \in DOMAIN ParentOf : ParentOf[l] = d /\ k[l] # "none"}

\* Variant: the entry "." is not left out.
Listing_WithDot(d) == {<<l, kind[l]>> : l \in InDir(kind, d) \cup {d}}

Listing(d) == {<<l, kind[l]>> : l \in InDir(kind, d)}

Trees == {k \in [Loc -> Kind] :
            /\ k["out"] = "dir" /\ k["kept"] = "file"
            /\ \A l \in {"dir", "leaf", "sub"} : k[l] # "none" => k[ParentOf[l]] = "dir"
            /\ k["dir"] # "link" /\ k["sub"] # "link"}

\* mkdir_recursive and the white lists are not tried through a link.
Init ==
    /\ kind \in Trees /\ before = kind
    /\ call \in Call /\ peer \in Peer
    /\ IF peer = "traverse" THEN whitePath \in WhiteLists ELSE whitePath = {}
    /\ call.func # "white" => call.white = {} /\ call.deleteRoot
    /\ call.func = "no" => peer = "traverse"
    /\ peer = "mkdir" \/ call.func = "white" => kind["root"] # "link"
    /\ rpc = (IF call.func = "no" THEN "true" ELSE IF call.func = "files" THEN "begin" ELSE "open")
    /\ frames = <<>>
    /\ ppc = (IF peer = "no" THEN "true" ELSE "begin")
    /\ below = (IF peer = "mkdir" THEN <<"root", "dir", "sub">> ELSE <<>>)
    /\ entries = {} /\ visits = <<>>
    /\ stays = Loc /\ leaked = 0 /\ denied = {}

Put(l, k) ==
    /\ kind' = [kind EXCEPT ![l] = k]
    /\ stays' = stays \ {l}

Top == frames[Len(frames)]
Path == IF frames = <<>> THEN "root" ELSE Top.at

\* The calls under way all return false, with their directories open.
Unwind ==
    /\ rpc' = "false" /\ frames' = <<>>
    /\ leaked' = leaked + Len(frames)

-----------------------------------------------------------------------------
(* remove_files and remove_dir.                                            *)

\* remove_files: stat.
Stat ==
    /\ rpc = "begin"
    /\ rpc' = IF kind["root"] = "none" THEN "false"
              ELSE IF kind[Resolve(kind, "root")] = "dir" THEN "open" ELSE "run"
    /\ UNCHANGED <<kind, chosen, frames, others, stays, leaked>>

\* It is no directory: unlink.
UnlinkRoot ==
    /\ rpc = "run" /\ frames = <<>>
    /\ IF kind["root"] \in {"file", "link"}
       THEN Put("root", "none") /\ rpc' = "true"
       ELSE UNCHANGED <<kind, stays>> /\ rpc' = "false"
    /\ UNCHANGED <<chosen, frames, others, leaked>>

OpenRoot ==
    /\ rpc = "open"
    /\ LET d == Resolve(kind, "root")
       IN  IF kind[d] = "dir"
           THEN rpc' = "run" /\ frames' = <<[at |-> "root", left |-> Listing(d)]>>
           ELSE rpc' = "false" /\ UNCHANGED frames
    /\ UNCHANGED <<kind, chosen, others, stays, leaked>>

\* Variant: the white list is for files only.
Skips_FilesOnly(e) == Len(frames) = 1 /\ e[1] \in call.white /\ e[2] # "dir"

\* The white list of the call: it is not handed to the calls for directories below.
Skips(e) == Len(frames) = 1 /\ e[1] \in call.white

Popped(e) == [frames EXCEPT ![Len(frames)].left = @ \ {e}]

SkipEntry ==
    /\ rpc = "run" /\ frames # <<>>
    /\ \E e \in Top.left : Skips(e) /\ frames' = Popped(e)
    /\ UNCHANGED <<kind, chosen, rpc, others, stays, leaked>>

\* Variant: what a link leads to counts, as with stat.
IsDirEntry_Followed(e) == e[2] \in {"dir", "link"}

\* d_type of the entry: of the entry itself, from when it was read.
IsDirEntry(e) == e[2] = "dir"

\* An entry that was a directory: remove_dir on it.
Descend ==
    /\ rpc = "run" /\ frames # <<>>
    /\ \E e \in Top.left :
          LET d == Resolve(kind, e[1])
          IN  /\ ~Skips(e) /\ IsDirEntry(e)
              /\ IF kind[d] = "dir"
                 THEN /\ frames' = Append(Popped(e), [at |-> e[1], left |-> Listing(d)])
                      /\ UNCHANGED <<rpc, leaked>>
                 ELSE Unwind
    /\ UNCHANGED <<kind, chosen, others, stays>>

UnlinkEntry ==
    /\ rpc = "run" /\ frames # <<>>
    /\ \E e \in Top.left :
          /\ ~Skips(e) /\ ~IsDirEntry(e)
          /\ IF kind[e[1]] \in {"file", "link"}
             THEN /\ Put(e[1], "none")
                  /\ frames' = Popped(e)
                  /\ UNCHANGED <<rpc, leaked>>
             ELSE Unwind /\ UNCHANGED <<kind, stays>>
    /\ UNCHANGED <<chosen, others>>

\* closedir, and then rmdir: of the directory itself, never of what a link leads to.
Removable(l) == kind[l] = "dir" /\ InDir(kind, l) = {}
Last == Len(frames) = 1
Outer == SubSeq(frames, 1, Len(frames) - 1)

\* Variant: the answer of rmdir is dropped.
RemoveDir_Unasked ==
    /\ rpc = "run" /\ frames # <<>> /\ Top.left = {}
    /\ IF Removable(Path) THEN Put(Path, "none") ELSE UNCHANGED <<kind, stays>>
    /\ frames' = Outer
    /\ rpc' = IF Last THEN "true" ELSE rpc
    /\ UNCHANGED <<chosen, others, leaked>>

RemoveDir ==
    /\ rpc = "run" /\ frames # <<>> /\ Top.left = {}
    /\ IF Last /\ ~call.deleteRoot
       THEN rpc' = "true" /\ frames' = <<>> /\ UNCHANGED <<kind, stays, leaked>>
       ELSE IF Removable(Path)
       THEN /\ Put(Path, "none")
            /\ frames' = Outer
            /\ rpc' = IF Last THEN "true" ELSE rpc
            /\ UNCHANGED leaked
       ELSE /\ rpc' = "false" /\ frames' = <<>>
            /\ leaked' = leaked + Len(Outer)
            /\ UNCHANGED <<kind, stays>>
    /\ UNCHANGED <<chosen, others>>

\* stat, opendir, unlink or rmdir fails, the unlink of "." if its d_type is not known:
\* only for rmdir is the directory closed.
RemoverDenied ==
    /\ rpc \in {"begin", "open", "run"}
    /\ \/ Unwind
       \/ /\ frames # <<>> /\ Top.left = {} /\ ~(Last /\ ~call.deleteRoot)
          /\ rpc' = "false" /\ frames' = <<>>
          /\ leaked' = leaked + Len(Outer)
    /\ denied' = denied \cup {"remover"}
    /\ UNCHANGED <<kind, chosen, others, stays>>

\* readdir fails: the entries to come are not seen.
ReadFails ==
    /\ rpc = "run" /\ frames # <<>> /\ Top.left # {}
    /\ frames' = [frames EXCEPT ![Len(frames)].left = {}]
    /\ denied' = denied \cup {"remover"}
    /\ UNCHANGED <<kind, chosen, rpc, others, stays, leaked>>

Remove ==
    \/ /\ \/ Stat \/ UnlinkRoot \/ OpenRoot \/ SkipEntry
          \/ Descend \/ UnlinkEntry \/ RemoveDir
       /\ UNCHANGED denied
    \/ RemoverDenied \/ ReadFails

-----------------------------------------------------------------------------
(* mkdir_recursive.                                                        *)

Holds(l) == l = "root" \/ kind[ParentOf[l]] = "dir"

\* Variant: the answer to the last mkdir is dropped.
MakeDir_Unasked ==
    /\ peer = "mkdir" /\ ppc = "begin"
    /\ LET l == Head(below)
       IN  /\ IF Holds(l) /\ kind[l] = "none" THEN Put(l, "dir") ELSE UNCHANGED <<kind, stays>>
           /\ ppc' = IF Len(below) = 1 THEN "true" ELSE ppc
    /\ below' = Tail(below)
    /\ UNCHANGED <<chosen, remover, entries, visits, leaked>>

\* mkdir of the next name: whatever is there already is as good.
MakeDir ==
    /\ peer = "mkdir" /\ ppc = "begin"
    /\ LET l == Head(below)
       IN  /\ IF Holds(l) /\ kind[l] = "none" THEN Put(l, "dir") ELSE UNCHANGED <<kind, stays>>
           /\ ppc' = IF ~Holds(l) THEN "false" ELSE IF Len(below) = 1 THEN "true" ELSE ppc
    /\ below' = Tail(below)
    /\ UNCHANGED <<chosen, remover, entries, visits, leaked>>

\* Any other error than EEXIST.
MakeDenied ==
    /\ peer = "mkdir" /\ ppc = "begin"
    /\ ppc' = "false"
    /\ denied' = denied \cup {"peer"}
    /\ UNCHANGED <<kind, chosen, remover, below, entries, visits, stays, leaked>>

-----------------------------------------------------------------------------
(* traverse_path.  Its callback returns true, or false once.               *)

\* lstat of the root: a link to a directory is refused.
LookAtRoot ==
    /\ peer = "traverse" /\ ppc = "begin"
    /\ IF kind["root"] = "dir"
       THEN ppc' = "open" /\ below' = <<"root">>
       ELSE ppc' = "false" /\ UNCHANGED below
    /\ UNCHANGED <<kind, chosen, remover, entries, visits, stays, leaked>>

OpenNext ==
    /\ peer = "traverse" /\ ppc = "open"
    /\ IF below = <<>> THEN ppc' = "true" /\ UNCHANGED <<below, entries>>
       ELSE LET l == below[Len(below)]
                d == Resolve(kind, l)
            IN  /\ below' = SubSeq(below, 1, Len(below) - 1)
                /\ IF kind[d] = "dir" THEN ppc' = "run" /\ entries' = Listing(d)
                                      ELSE ppc' = "false" /\ UNCHANGED entries
    /\ UNCHANGED <<kind, chosen, remover, visits, stays, leaked>>

\* Variant: directories are not entered.
Enters_Never(l) == FALSE

\* get_path_type: lstat, so that a link is not entered.
Enters(l) == kind[l] = "dir"

\* Variant: what is in the white list is entered, but not called back for.
PassWhite_Entered ==
    /\ peer = "traverse" /\ ppc = "run"
    /\ \E e \in entries :
          /\ e[1] \in whitePath
          /\ below' = IF Enters(e[1]) THEN Append(below, e[1]) ELSE below
          /\ entries' = entries \ {e}
    /\ UNCHANGED <<kind, chosen, remover, ppc, visits, stays, leaked>>

\* An entry of the white list: no call back, and it is not entered.
PassWhite ==
    /\ peer = "traverse" /\ ppc = "run"
    /\ \E e \in entries : e[1] \in whitePath /\ entries' = entries \ {e}
    /\ UNCHANGED <<kind, chosen, remover, ppc, below, visits, stays, leaked>>

VisitNext ==
    /\ peer = "traverse" /\ ppc = "run"
    /\ \E e \in entries :
          /\ e[1] \notin whitePath
          /\ visits' = Append(visits, e[1])
          /\ below' = IF Enters(e[1]) THEN Append(below, e[1]) ELSE below
          /\ entries' = entries \ {e}
    /\ UNCHANGED <<kind, chosen, remover, ppc, stays, leaked>>

CallbackRefuses ==
    /\ peer = "traverse" /\ ppc = "run"
    /\ \E e \in entries : e[1] \notin whitePath /\ visits' = Append(visits, e[1])
    /\ ppc' = "false" /\ leaked' = leaked + 1
    /\ UNCHANGED <<kind, chosen, remover, below, entries, stays>>

\* Variant: closedir is forgotten.
CloseThis_Not ==
    /\ peer = "traverse" /\ ppc = "run" /\ entries = {}
    /\ ppc' = "open"
    /\ leaked' = leaked + 1
    /\ UNCHANGED <<kind, chosen, remover, below, entries, visits, stays>>

CloseThis ==
    /\ peer = "traverse" /\ ppc = "run" /\ entries = {}
    /\ ppc' = "open"
    /\ UNCHANGED <<kind, chosen, remover, below, entries, visits, stays, leaked>>

\* lstat of the root or opendir fails.
TraverseDenied ==
    /\ peer = "traverse" /\ (ppc = "begin" \/ (ppc = "open" /\ below # <<>>))
    /\ ppc' = "false"
    /\ denied' = denied \cup {"peer"}
    /\ UNCHANGED <<kind, chosen, remover, below, entries, visits, stays, leaked>>

\* lstat of an entry fails: it is of no known type, called back for but not entered.
VisitUnknown ==
    /\ peer = "traverse" /\ ppc = "run"
    /\ \E e \in entries :
          /\ e[1] \notin whitePath
          /\ visits' = Append(visits, e[1])
          /\ entries' = entries \ {e}
    /\ denied' = denied \cup {"peer"}
    /\ UNCHANGED <<kind, chosen, remover, ppc, below, stays, leaked>>

\* readdir fails.
ListingFails ==
    /\ peer = "traverse" /\ ppc = "run" /\ entries # {}
    /\ entries' = {}
    /\ denied' = denied \cup {"peer"}
    /\ UNCHANGED <<kind, chosen, remover, ppc, below, visits, stays, leaked>>

Traverse ==
    \/ /\ \/ LookAtRoot \/ OpenNext \/ PassWhite
          \/ VisitNext \/ CallbackRefuses \/ CloseThis
       /\ UNCHANGED denied
    \/ TraverseDenied \/ VisitUnknown \/ ListingFails

-----------------------------------------------------------------------------
Next == Remove \/ (MakeDir /\ UNCHANGED denied) \/ MakeDenied \/ Traverse

Spec == Init /\ [][Next]_vars

-----------------------------------------------------------------------------
(* Properties.                                                             *)

\* Nothing outside the tree is removed (l. 251-328): links are taken out, not
\* followed.  The exception is a path that is itself a link: remove_files and
\* remove_dir follow that one and empty the directory it leads to.
OutsideIsKept == kind["kept"] = "file" \/ before["root"] = "link"

\* When a removal returns true the tree is gone at that moment, whatever another
\* thread put into it before and whatever failed; if the root is to stay, all that
\* was in it and is not in the white list, unless readdir failed, which the code
\* cannot tell from the end of the directory (l. 266, 285-286, 303, 323-327).
TrueMeansGone ==
    [][rpc # "true" /\ rpc' = "true" =>
          IF call.deleteRoot THEN kind'["root"] = "none"
          ELSE \/ "remover" \in denied
               \/ \A l \in {"dir", "leaf"} \ call.white : before[l] # "none" => l \notin stays']_vars

\* An entry of the root that is in the white list stays, and so does what is below
\* it.  One that lies deeper does not: the list is not handed down (l. 306-315).
WhiteIsKept ==
    \A l \in {"dir", "leaf"} \cap call.white :
        before[l] # "none" => kind[l] = before[l] /\ (l = "dir" /\ before["sub"] # "none"
                                                      => kind["sub"] = before["sub"])

\* A removal fails for a reason (l. 251-328): a system call failed, there was nothing
\* it could open or unlink, the path was a link to a directory, the white list kept
\* the root from being empty, or mkdir_recursive made a directory that was not listed.
FailureHasCause ==
    rpc = "false" =>
        \/ "remover" \in denied
        \/ before["root"] \in {"none", "link"}
        \/ before["root"] = "file" /\ call.func # "files"
        \/ call.deleteRoot /\ \E l \in call.white : ParentOf[l] = "root" /\ before[l] # "none"
        \/ \E l \in Tree \ stays : kind[l] = "dir"

\* The entries that the white list of traverse_path keeps it from, those below one
\* included.
Spared(l) == l \in whitePath \/ (l = "sub" /\ "dir" \in whitePath)

\* traverse_path that returns true, and of whose system calls none failed, has called
\* back once for every entry that was there from the beginning to the end and is not
\* in its white list or below it.  It never calls back for what the white list spares
\* or for what is behind a link (l. 383-435).
TraversalIsComplete ==
    /\ peer = "traverse" /\ ppc = "true" /\ "peer" \notin denied =>
          \A l \in (Tree \ {"root"}) \cap stays : before[l] # "none" /\ ~Spared(l) =>
              \E i \in DOMAIN visits : \A j \in DOMAIN visits : visits[j] = l <=> j = i
    /\ \A i \in DOMAIN visits : visits[i] # "kept" /\ ~Spared(visits[i])

\* mkdir_recursive that returns true has seen the last name in place at that
\* moment: as a directory, unless a file had the name (l. 351-354, EEXIST).
MadeMeansThere ==
    [][peer = "mkdir" /\ ppc # "true" /\ ppc' = "true" =>
          kind'["sub"] = "dir" \/ before["sub"] = "file"]_vars

\* DIRs are left open only by calls that return false, whatever the reason (l. 263-328,
\* 383-435): the early returns go past closedir.
LeaksOnlyInFailure == leaked > 0 => rpc = "false" \/ ppc = "false"

=============================================================================
