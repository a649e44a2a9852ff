----------------------------- MODULE CopperProofs -----------------------------
(***************************************************************************)
(* Copper keeps its promises, for all channels, capacities, threads and    *)
(* requests.  The inductive invariant IInv says of each channel who waits  *)
(* in it and what is known of it meanwhile (ChanInv), and of each request  *)
(* what it knows of the channels it keeps (LockedOf), which of its         *)
(* operations wait, and how many (WaitOf, CountOf), and what became of     *)
(* them (RanOf, PassOf, LeaveOf, StatusOf).                                *)
(***************************************************************************)
EXTENDS Copper, SequenceTheorems, FiniteSetTheorems, WellFoundedInduction, TLAPS

-----------------------------------------------------------------------------
(* The inductive invariant.                                                *)

Dir == {"pop", "push"}
Op(t, i) == [by |-> t, op |-> i]
Queue(c, d) == IF d = "pop" THEN pops[c] ELSE pushes[c]

In(q, w)  == \E k \in DOMAIN q : q[k] = w
By(q, u)  == \E k \in DOMAIN q : q[k].by = u
NoDup(q)  == \A j, k \in DOMAIN q : q[j] = q[k] => j = k

\* The operations of t that its channels may know.
Registered(t) == IF pc[t] = "enlist" THEN Indices(t) \ todo[t]
                 ELSE IF pc[t] = "wait" THEN Indices(t)
                 ELSE IF pc[t] = "leave" THEN todo[t] ELSE {}

\* Those that they know.
Queued(t) == {i \in Indices(t) : In(Queue(ChanOf(t, i), DirOf(t, i)), Op(t, i))}

Entry(w, c, d) == w.op \in Registered(w.by) /\ ops[w.by][w.op] = [chan |-> c, dir |-> d]

ChanInv(c) ==
    /\ ~open[c] => pops[c] = <<>> /\ pushes[c] = <<>>
    /\ \A d \in Dir : NoDup(Queue(c, d))
    /\ \A d \in Dir : \A k \in DOMAIN Queue(c, d) : Entry(Queue(c, d)[k], c, d)
    /\ \A u \in Thread : open[c] /\ By(pops[c], u) /\ ~matched[u] =>
          /\ buffer[c] = <<>>
          /\ \A v \in Thread : By(pushes[c], v) /\ ~matched[v] => v = u
    /\ \A u \in Thread : open[c] /\ By(pushes[c], u) /\ ~matched[u] =>
          Len(buffer[c]) >= Cap[c] \/ c \in cleared

\* What a failed try of its operation i has told t.
Missed(t, i) ==
    LET c == ChanOf(t, i)
    IN  IF DirOf(t, i) = "pop"
        THEN /\ buffer[c] = <<>>
             /\ open[c] => \A v \in Thread : By(pushes[c], v) /\ ~matched[v] => v = t
        ELSE open[c] => /\ Len(buffer[c]) >= Cap[c]
                        /\ \A v \in Thread : By(pops[c], v) /\ ~matched[v] => v = t

\* Nothing can run it any more.
Over(t, i) == /\ ~open[ChanOf(t, i)]
              /\ DirOf(t, i) = "pop" => buffer[ChanOf(t, i)] = <<>>

CallOf(t) ==
    /\ calls[t] <= MaxCalls[t]
    /\ todo[t] \subseteq Indices(t)
    /\ pc[t] # "idle" => calls[t] >= 1
    /\ pc[t] \in {"pass", "lock", "enlist", "leave"} => todo[t] # {}
    /\ pc[t] = "lock" /\ wait[t] = "none" => Len(ops[t]) = 1
    /\ pc[t] \in {"enlist", "wait", "leave"} => wait[t] # "none" /\ Indices(t) # {}

RanOf(t) ==
    /\ ran[t] <= 1
    /\ pc[t] \in {"pass", "lock", "enlist"} => ran[t] = 0 /\ ~matched[t]
    /\ pc[t] \in {"wait", "leave"} => ran[t] = IF matched[t] THEN 1 ELSE 0

LockedOf(t) ==
    \A i \in Indices(t) :
        (pc[t] = "lock" /\ i \notin todo[t]) \/ pc[t] = "enlist" =>
            mutex[ChanOf(t, i)] = t /\ Missed(t, i)

PassOf(t) ==
    pc[t] = "pass" =>
        /\ status[t] \in {"closed", "unavailable"}
        /\ status[t] = "closed" => \A i \in Indices(t) \ todo[t] : Over(t, i)

WaitOf(t) ==
    ~matched[t] =>
        /\ \A i \in Registered(t) : open[ChanOf(t, i)] => i \in Queued(t)
        /\ pc[t] = "wait" => \A i \in Indices(t) : open[ChanOf(t, i)] \/ Over(t, i)

CountOf(t) == Cardinality(Queued(t)) <= openOps[t]

LeaveOf(t) ==
    pc[t] = "leave" =>
        /\ status[t] = "success" => matched[t]
        /\ status[t] = "closed" => ~matched[t] /\ \A i \in Indices(t) : Over(t, i)

StatusOf(t) ==
    pc[t] = "idle" =>
        /\ status[t] = "success" => ran[t] = 1
        /\ status[t] = "closed" => ran[t] = 0 /\ \A i \in Indices(t) : Over(t, i)
        /\ status[t] = "unavailable" /\ wait[t] = "none" => ran[t] = 0

UsedOf(t) ==
    \A n \in 1..MaxCalls[t] :
        <<t, n>> \in used /\ <<t, n>> # Unit =>
            n <= calls[t] /\ (n = calls[t] => ran[t] >= 1)

ThreadInv(t) == /\ CallOf(t) /\ RanOf(t) /\ LockedOf(t) /\ PassOf(t) /\ WaitOf(t)
                /\ CountOf(t) /\ LeaveOf(t) /\ StatusOf(t) /\ UsedOf(t)

IInv == /\ TypeOK
        /\ \A c \in Chan : ChanInv(c)
        /\ \A t \in Thread : ThreadInv(t)

-----------------------------------------------------------------------------
(* Sequences and counting.                                                 *)

LEMMA MinProperties ==
    ASSUME NEW S \in SUBSET Nat, S # {}
    PROVE  Min(S) \in S /\ \A j \in S : Min(S) <= j
  <1>1. \E x \in S : \A y \in S : ~(<<y, x>> \in OpToRel(<, Nat))
    BY NatLessThanWellFounded, WFMin
  <1>2. PICK x \in S : \A y \in S : ~(<<y, x>> \in OpToRel(<, Nat))
    BY <1>1
  <1>3. \A y \in S : x <= y
    <2>1. SUFFICES ASSUME NEW y \in S, y < x
                   PROVE  FALSE
      BY SMT
    <2>2. <<y, x>> \in Nat \X Nat
      BY SMT
    <2>3. <<y, x>>[1] < <<y, x>>[2]
      BY <2>1, SMT
    <2>. QED
      BY <1>2, <2>2, <2>3, Zenon DEF OpToRel
  <1>. QED
    BY <1>3 DEF Min

\* What a loop that has looked at the first n operations of a queue leaves.
Suffix(q, n) == SubSeq(q, n + 1, Len(q))

LEMMA SuffixProperties ==
    ASSUME NEW S, NEW q \in Seq(S), NEW n \in 0..Len(q)
    PROVE  /\ Suffix(q, n) \in Seq(S)
           /\ \A w : In(Suffix(q, n), w) => In(q, w)
           /\ \A u : By(Suffix(q, n), u) => By(q, u)
           /\ \A w : In(q, w) => In(Suffix(q, n), w) \/ \E k \in 1..n : q[k] = w
           /\ NoDup(q) => NoDup(Suffix(q, n))
  <1> DEFINE p == Suffix(q, n)
  <1>1. /\ Len(q) \in Nat /\ DOMAIN q = 1..Len(q)
        /\ \A k \in 1..Len(q) : q[k] \in S
    BY LenProperties
  <1>2. /\ p \in Seq(S) /\ Len(p) = Len(q) - n
        /\ \A k \in 1..(Len(q) - n) : p[k] = q[n + k]
    <2>1. \A i \in (n + 1)..Len(q) : q[i] \in S
      BY <1>1
    <2>. QED
      BY <1>1, <2>1, SubSeqProperties DEF Suffix
  <1>3. DOMAIN p = 1..(Len(q) - n)
    BY <1>2, LenProperties
  <1>4. \A k \in DOMAIN p : n + k \in DOMAIN q /\ p[k] = q[n + k]
    BY <1>1, <1>2, <1>3
  <1>5. \A j \in DOMAIN q : j \in 1..n \/ (j - n \in DOMAIN p /\ p[j - n] = q[j])
    BY <1>1, <1>2, <1>3
  <1>6. NoDup(q) => NoDup(p)
    BY <1>3, <1>4 DEF NoDup
  <1> HIDE DEF p
  <1>7. p \in Seq(S) /\ (\A w : In(p, w) => In(q, w)) /\ (\A u : By(p, u) => By(q, u))
        /\ (\A w : In(q, w) => In(p, w) \/ \E k \in 1..n : q[k] = w)
    BY <1>2, <1>4, <1>5 DEF In, By
  <1>. QED
    BY <1>6, <1>7 DEF p

LEMMA SuffixAll ==
    ASSUME NEW S, NEW q \in Seq(S)
    PROVE  Suffix(q, 0) = q /\ Suffix(q, Len(q)) = <<>> /\ Len(q) \in Nat
  BY SubSeqFull, SubSeqEmpty, LenProperties DEF Suffix

LEMMA AppendIn ==
    ASSUME NEW S, NEW q \in Seq(S), NEW v \in S
    PROVE  /\ Append(q, v) \in Seq(S)
           /\ \A w : In(Append(q, v), w) <=> In(q, w) \/ w = v
           /\ \A u : By(Append(q, v), u) <=> By(q, u) \/ v.by = u
           /\ NoDup(q) /\ ~In(q, v) => NoDup(Append(q, v))
  <1> DEFINE p == Append(q, v)
  <1>1. /\ Len(q) \in Nat /\ DOMAIN q = 1..Len(q)
        /\ p \in Seq(S) /\ Len(p) = Len(q) + 1 /\ p[Len(q) + 1] = v
        /\ \A k \in 1..Len(q) : p[k] = q[k]
    BY LenProperties, AppendProperties
  <1>2. DOMAIN p = 1..(Len(q) + 1)
    BY <1>1, LenProperties
  <1> HIDE DEF p
  <1>3. \A w : In(p, w) <=> In(q, w) \/ w = v
    BY <1>1, <1>2 DEF In
  <1>4. \A u : By(p, u) <=> By(q, u) \/ v.by = u
    BY <1>1, <1>2 DEF By
  <1>5. NoDup(q) /\ ~In(q, v) => NoDup(p)
    BY <1>1, <1>2 DEF NoDup, In
  <1>. QED
    BY <1>1, <1>3, <1>4, <1>5 DEF p

LEMMA RemoveAtProperties ==
    ASSUME NEW S, NEW q \in Seq(S), NEW k \in 1..Len(q)
    PROVE  /\ RemoveAt(q, k) \in Seq(S)
           /\ DOMAIN RemoveAt(q, k) = 1..(Len(q) - 1)
           /\ \A i \in 1..(Len(q) - 1) :
                 RemoveAt(q, k)[i] = IF i <= k - 1 THEN q[i] ELSE q[i + 1]
  <1>1. Len(q) \in Nat /\ DOMAIN q = 1..Len(q) /\ \A i \in 1..Len(q) : q[i] \in S
    BY LenProperties
  <1>2. PICK a : a = SubSeq(q, 1, k - 1)
    OBVIOUS
  <1>3. PICK b : b = SubSeq(q, k + 1, Len(q))
    OBVIOUS
  <1>4. PICK p : p = RemoveAt(q, k)
    OBVIOUS
  <1>5. p = a \o b
    BY <1>2, <1>3, <1>4 DEF RemoveAt
  <1>6. a \in Seq(S) /\ Len(a) = k - 1 /\ \A i \in 1..(k - 1) : a[i] = q[i]
    <2>1. \A i \in 1..(k - 1) : q[i] \in S
      BY <1>1
    <2>2. /\ a \in Seq(S) /\ Len(a) = (IF 1 <= k - 1 THEN k - 1 - 1 + 1 ELSE 0)
          /\ \A i \in 1..(k - 1 - 1 + 1) : a[i] = q[1 + i - 1]
      BY <1>1, <1>2, <2>1, SubSeqProperties
    <2>. QED
      BY <1>1, <2>2
  <1>7. b \in Seq(S) /\ Len(b) = Len(q) - k /\ \A i \in 1..(Len(q) - k) : b[i] = q[k + i]
    <2>1. \A i \in (k + 1)..Len(q) : q[i] \in S
      BY <1>1
    <2>2. /\ b \in Seq(S)
          /\ Len(b) = (IF k + 1 <= Len(q) THEN Len(q) - (k + 1) + 1 ELSE 0)
          /\ \A i \in 1..(Len(q) - (k + 1) + 1) : b[i] = q[k + 1 + i - 1]
      BY <1>1, <1>3, <2>1, SubSeqProperties
    <2>3. Len(q) - (k + 1) + 1 = Len(q) - k /\ \A i \in Int : k + 1 + i - 1 = k + i
      BY <1>1
    <2>4. Len(b) = Len(q) - k
      <3>1. CASE k + 1 <= Len(q)
        BY <2>2, <2>3, <3>1, Zenon
      <3>2. CASE ~(k + 1 <= Len(q))
        <4>1. Len(q) \in Int /\ k \in Int /\ k <= Len(q)
          BY <1>1
        <4>2. Len(q) - k = 0
          BY <3>2, <4>1
        <4>. QED
          BY <2>2, <3>2, <4>2, Zenon
      <3>. QED
        BY <3>1, <3>2
    <2>5. ASSUME NEW i \in 1..(Len(q) - k)
          PROVE  b[i] = q[k + i]
      <3>1. i \in Int
        BY <1>1
      <3>. QED
        BY <2>2, <2>3, <3>1, Zenon
    <2>. QED
      BY <2>2, <2>4, <2>5, Zenon
  <1>8. /\ p \in Seq(S) /\ Len(p) = Len(a) + Len(b)
        /\ \A i \in 1..(Len(a) + Len(b)) : p[i] = IF i <= Len(a) THEN a[i] ELSE b[i - Len(a)]
    BY <1>5, <1>6, <1>7, ConcatProperties
  <1>9. Len(a) + Len(b) = Len(q) - 1
    BY <1>1, <1>6, <1>7
  <1>10. ASSUME NEW i \in 1..(Len(q) - 1)
         PROVE  p[i] = IF i <= k - 1 THEN q[i] ELSE q[i + 1]
    <2>1. p[i] = IF i <= k - 1 THEN a[i] ELSE b[i - (k - 1)]
      BY <1>6, <1>8, <1>9
    <2>2. CASE i <= k - 1
      BY <1>1, <1>6, <2>1, <2>2
    <2>3. CASE i > k - 1
      <3>1. i - (k - 1) \in 1..(Len(q) - k) /\ k + (i - (k - 1)) = i + 1
        BY <1>1, <2>3
      <3>2. b[i - (k - 1)] = q[k + (i - (k - 1))]
        BY <1>7, <3>1
      <3>. QED
        BY <1>1, <2>1, <2>3, <3>1, <3>2
    <2>. QED
      BY <1>1, <2>2, <2>3
  <1>11. DOMAIN p = 1..(Len(q) - 1)
    BY <1>8, <1>9, LenProperties
  <1>. QED
    BY <1>4, <1>8, <1>10, <1>11

LEMMA WithoutIn ==
    ASSUME NEW S, NEW q \in Seq(S), NEW v, NoDup(q)
    PROVE  /\ Without(q, v) \in Seq(S)
           /\ \A w : In(Without(q, v), w) <=> In(q, w) /\ w # v
           /\ NoDup(Without(q, v))
  <1>1. Len(q) \in Nat /\ DOMAIN q = 1..Len(q)
    BY LenProperties
  <1>2. CASE ~In(q, v)
    BY <1>2 DEF Without, In
  <1>3. CASE In(q, v)
    <2>1. PICK k \in DOMAIN q : q[k] = v /\ Without(q, v) = RemoveAt(q, k)
      BY <1>3 DEF In, Without
    <2>2. PICK p : p = Without(q, v)
      OBVIOUS
    <2>3. /\ p \in Seq(S) /\ DOMAIN p = 1..(Len(q) - 1)
          /\ \A i \in 1..(Len(q) - 1) : p[i] = IF i <= k - 1 THEN q[i] ELSE q[i + 1]
      BY <1>1, <2>1, <2>2, RemoveAtProperties
    <2>4. \A i \in DOMAIN p : LET j == IF i <= k - 1 THEN i ELSE i + 1
                              IN  j \in DOMAIN q /\ j # k /\ p[i] = q[j]
      BY <1>1, <2>1, <2>3
    <2>5. \A j \in DOMAIN q : j = k \/ \E i \in DOMAIN p : p[i] = q[j]
      <3>1. SUFFICES ASSUME NEW j \in DOMAIN q, j # k
                     PROVE  \E i \in DOMAIN p : p[i] = q[j]
        OBVIOUS
      <3>2. CASE j < k
        BY <1>1, <2>1, <2>3, <3>2
      <3>3. CASE j > k
        <4>1. j - 1 \in DOMAIN p /\ p[j - 1] = q[j]
          BY <1>1, <2>1, <2>3, <3>1, <3>3
        <4>. QED
          BY <4>1
      <3>. QED
        BY <1>1, <2>1, <3>1, <3>2, <3>3
    <2>6. \A w : In(p, w) <=> In(q, w) /\ w # v
      BY <1>1, <2>1, <2>4, <2>5 DEF In, NoDup
    <2>7. NoDup(p)
      <3>1. SUFFICES ASSUME NEW x \in DOMAIN p, NEW y \in DOMAIN p, p[x] = p[y]
                     PROVE  x = y
        BY DEF NoDup
      <3>2. (IF x <= k - 1 THEN x ELSE x + 1) = (IF y <= k - 1 THEN y ELSE y + 1)
        BY <2>4, <3>1 DEF NoDup
      <3>. QED
        BY <1>1, <2>1, <2>3, <3>2
    <2>. QED
      BY <2>2, <2>3, <2>6, <2>7
  <1>. QED
    BY <1>2, <1>3

-----------------------------------------------------------------------------
(* Who is matched, and what the loops over the queues leave.               *)

LEMMA LiveBy ==
    ASSUME NEW q \in Seq(Waiting), matched \in [Thread -> BOOLEAN]
    PROVE  /\ Live(q) \subseteq 1..Len(q) /\ Live(q) \in SUBSET Nat
           /\ \A k \in Live(q) : q[k].by \in Thread /\ By(q, q[k].by) /\ ~matched[q[k].by]
           /\ \A u \in Thread : By(q, u) /\ ~matched[u] => \E k \in Live(q) : q[k].by = u
           /\ \A k \in 1..Len(q) : k \notin Live(q) => matched[q[k].by]
  <1>1. Len(q) \in Nat /\ DOMAIN q = 1..Len(q) /\ \A k \in 1..Len(q) : q[k] \in Waiting
    BY LenProperties
  <1>. QED
    BY <1>1 DEF Live, By, Waiting

LEMMA PartnerProperties ==
    ASSUME NEW q \in Seq(Waiting), matched \in [Thread -> BOOLEAN]
    PROVE  /\ Partner(q) = {} \/ \E u \in Thread : Partner(q) = {u}
           /\ \A u \in Partner(q) : u \in Thread /\ By(q, u) /\ ~matched[u]
           /\ Partner(q) = {} => Rest(q) = <<>> /\ \A u \in Thread : By(q, u) => matched[u]
           /\ \E n \in 0..Len(q) :
                /\ Rest(q) = Suffix(q, n)
                /\ \A k \in 1..n : matched[q[k].by] \/ q[k].by \in Partner(q)
  <1>1. Len(q) \in Nat
    BY LenProperties
  <1>2. CASE Live(q) = {}
    <2>1. Partner(q) = {} /\ Rest(q) = <<>> /\ \A u \in Thread : By(q, u) => matched[u]
      BY <1>2, LiveBy DEF Partner, Rest
    <2>2. /\ Rest(q) = Suffix(q, Len(q)) /\ Len(q) \in 0..Len(q)
          /\ \A k \in 1..Len(q) : matched[q[k].by]
      BY <1>1, <1>2, <2>1, LiveBy, SuffixAll
    <2>. QED
      BY <2>1, <2>2
  <1>3. CASE Live(q) # {}
    <2>1. PICK n : n = Min(Live(q))
      OBVIOUS
    <2>2. n \in Live(q) /\ \A j \in Live(q) : n <= j
      BY <1>3, <2>1, LiveBy, MinProperties
    <2>3. Partner(q) = {q[n].by} /\ Rest(q) = Suffix(q, n)
      BY <1>3, <2>1 DEF Partner, Rest, Suffix
    <2>4. n \in 1..Len(q) /\ q[n].by \in Thread /\ By(q, q[n].by) /\ ~matched[q[n].by]
      BY <2>2, LiveBy
    <2>5. \A k \in 1..n : matched[q[k].by] \/ q[k].by = q[n].by
      <3>1. SUFFICES ASSUME NEW k \in 1..n, k # n
                     PROVE  matched[q[k].by]
        OBVIOUS
      <3>2. k \notin Live(q) /\ k \in 1..Len(q)
        BY <1>1, <2>2, <2>4, <3>1
      <3>. QED
        BY <3>2, LiveBy
    <2>6. n \in 0..Len(q)
      BY <1>1, <2>4
    <2>. QED
      BY <2>3, <2>4, <2>5, <2>6
  <1>. QED
    BY <1>2, <1>3

LEMMA DrawnProperties ==
    ASSUME NEW q \in Seq(Waiting), matched \in [Thread -> BOOLEAN], NEW n \in 0..Len(q)
    PROVE  /\ \A u \in Drawn(q, n) : u \in Thread /\ By(q, u) /\ ~matched[u]
           /\ \A k \in 1..n : matched[q[k].by] \/ q[k].by \in Drawn(q, n)
           /\ IsFiniteSet(Drawn(q, n))
           /\ n = 0 => Drawn(q, n) = {}
           /\ n > 0 => Drawn(q, n) \subseteq Drawn(q, n - 1) \cup {q[n].by}
  <1>1. Len(q) \in Nat
    BY LenProperties
  <1>2. /\ \A u \in Drawn(q, n) : u \in Thread /\ By(q, u) /\ ~matched[u]
        /\ n = 0 => Drawn(q, n) = {}
    BY <1>1, LiveBy DEF Drawn
  <1>3. \A k \in 1..n : matched[q[k].by] \/ q[k].by \in Drawn(q, n)
    BY <1>1, LiveBy DEF Drawn
  <1>4. n > 0 => Drawn(q, n) \subseteq Drawn(q, n - 1) \cup {q[n].by}
    BY <1>1, LiveBy DEF Drawn
  <1>5. IsFiniteSet(Drawn(q, n))
    <2> DEFINE D == {k \in Live(q) : k <= n}
               f == [k \in D |-> q[k].by]
    <2>1. D \in SUBSET (1..n)
      BY <1>1, LiveBy
    <2>2. IsFiniteSet(D)
      <3>1. 1 \in Int /\ n \in Int
        BY <1>1
      <3>2. IsFiniteSet(1..n)
        BY <3>1, FS_Interval, Zenon
      <3>. QED
        BY <2>1, <3>2, FS_Subset, Zenon
    <2>3. f \in [D -> Drawn(q, n)] /\ \A u \in Drawn(q, n) : \E k \in D : f[k] = u
      <3>1. Drawn(q, n) = {q[k].by : k \in D}
        BY DEF Drawn
      <3> HIDE DEF D
      <3>. QED
        BY <3>1
    <2>4. f \in Surjection(D, Drawn(q, n))
      BY <2>3, Zenon DEF Surjection
    <2>. QED
      BY <2>2, <2>4, FS_Surjection
  <1>. QED
    BY <1>2, <1>3, <1>4, <1>5

-----------------------------------------------------------------------------
(* What a step leaves of a request that does not make it.                  *)

LEMMA QueueTypes ==
    ASSUME TypeOK, NEW c \in Chan, NEW d \in Dir
    PROVE  /\ Queue(c, d) \in Seq(Waiting) /\ DOMAIN Queue(c, d) = 1..Len(Queue(c, d))
           /\ \A k \in DOMAIN Queue(c, d) : Queue(c, d)[k] \in Waiting
  <1>1. Queue(c, d) \in Seq(Waiting)
    BY DEF TypeOK, Queue
  <1>. QED
    BY <1>1, LenProperties

LEMMA OpTypes ==
    ASSUME TypeOK, NEW t \in Thread
    PROVE  /\ ops[t] \in Seq(OpType) /\ Len(ops[t]) \in Nat
           /\ Indices(t) = 1..Len(ops[t]) /\ IsFiniteSet(Indices(t))
           /\ \A i \in Indices(t) : ChanOf(t, i) \in Chan /\ DirOf(t, i) \in Dir
                                    /\ ops[t][i] = [chan |-> ChanOf(t, i), dir |-> DirOf(t, i)]
  <1>1. ops[t] \in Seq(OpType)
    BY DEF TypeOK
  <1>2. /\ Len(ops[t]) \in Nat /\ Indices(t) = 1..Len(ops[t])
        /\ \A i \in 1..Len(ops[t]) : ops[t][i] \in OpType
    BY <1>1, LenProperties DEF Indices
  <1>3. IsFiniteSet(Indices(t))
    BY <1>2, FS_Interval
  <1>. QED
    BY <1>1, <1>2, <1>3 DEF OpType, ChanOf, DirOf, Dir

\* An operation that waits is one of a request that is registered, with an open channel.
LEMMA QueuedRegistered ==
    ASSUME IInv, NEW t \in Thread, NEW i \in Queued(t)
    PROVE  i \in Registered(t) /\ i \in Indices(t) /\ open[ChanOf(t, i)]
  <1>1. i \in Indices(t) /\ ChanOf(t, i) \in Chan /\ DirOf(t, i) \in Dir
    BY OpTypes DEF IInv, Queued
  <1>2. PICK k \in DOMAIN Queue(ChanOf(t, i), DirOf(t, i)) :
            Queue(ChanOf(t, i), DirOf(t, i))[k] = Op(t, i)
    BY DEF Queued, In
  <1>3. i \in Registered(t)
    <2>1. Entry(Op(t, i), ChanOf(t, i), DirOf(t, i))
      BY <1>1, <1>2 DEF IInv, ChanInv
    <2>. QED
      BY <2>1 DEF Entry, Op
  <1>4. open[ChanOf(t, i)]
    BY <1>1, <1>2 DEF IInv, ChanInv, Queue
  <1>. QED
    BY <1>1, <1>3, <1>4

\* Whoever waits in a queue is registered there.
LEMMA WaiterRegistered ==
    ASSUME IInv, NEW c \in Chan, NEW d \in Dir, NEW u, By(Queue(c, d), u)
    PROVE  /\ u \in Thread /\ open[c]
           /\ \E i \in Registered(u) : i \in Queued(u) /\ ChanOf(u, i) = c /\ DirOf(u, i) = d
  <1>1. PICK k \in DOMAIN Queue(c, d) : Queue(c, d)[k].by = u
    BY DEF By
  <1>2. PICK w : w = Queue(c, d)[k]
    OBVIOUS
  <1>3. w \in Waiting /\ w.by = u /\ Entry(w, c, d)
    BY <1>1, <1>2, QueueTypes DEF IInv, ChanInv
  <1>4. u \in Thread /\ w = Op(u, w.op) /\ w.op \in Registered(u)
        /\ ChanOf(u, w.op) = c /\ DirOf(u, w.op) = d
    BY <1>3 DEF Entry, Waiting, Op, ChanOf, DirOf
  <1>5. w.op \in Indices(u)
    BY <1>4, OpTypes DEF IInv, ThreadInv, CallOf, Registered
  <1>6. w.op \in Queued(u)
    BY <1>1, <1>2, <1>4, <1>5 DEF Queued, In
  <1>7. open[c]
    BY <1>4, <1>6, QueuedRegistered
  <1>. QED
    BY <1>4, <1>6, <1>7

Spares(u) ==
    /\ pc'[u] = pc[u] /\ todo'[u] = todo[u] /\ status'[u] = status[u]
    /\ ops'[u] = ops[u] /\ wait'[u] = wait[u] /\ calls'[u] = calls[u]
    /\ \/ matched'[u] = matched[u] /\ ran'[u] = ran[u]
       \/ /\ ~matched[u] /\ matched'[u] /\ ran'[u] = ran[u] + 1
          /\ pc[u] # "enlist" /\ Queued(u) # {}
    /\ \A e \in Chan : mutex[e] = u =>
          /\ mutex'[e] = u /\ open'[e] = open[e] /\ buffer'[e] = buffer[e]
          /\ \A v \in Thread : ~matched'[v] => /\ By(pops'[e], v) => By(pops[e], v) /\ ~matched[v]
                                               /\ By(pushes'[e], v) => By(pushes[e], v) /\ ~matched[v]
    /\ \A e \in Chan : ~open[e] => ~open'[e] /\ (buffer[e] = <<>> => buffer'[e] = <<>>)
    /\ \A i \in Indices(u) :
          /\ i \in Queued(u)' => i \in Queued(u)
          /\ i \in Queued(u) /\ ~matched'[u] =>
                IF open'[ChanOf(u, i)] THEN i \in Queued(u)'
                ELSE DirOf(u, i) = "pop" => buffer'[ChanOf(u, i)] = <<>>
    /\ openOps'[u] = openOps[u] \/ CountOf(u)'
    /\ \A n \in 1..MaxCalls[u] :
          <<u, n>> \in used' /\ <<u, n>> # Unit => <<u, n>> \in used \/ (n = calls[u] /\ ran'[u] >= 1)

LEMMA Spared ==
    ASSUME IInv, TypeOK', NEW u \in Thread, Spares(u)
    PROVE  ThreadInv(u)'
  <1>0. TypeOK /\ ThreadInv(u) /\ ran[u] \in Nat /\ calls[u] \in Nat
    BY DEF IInv, TypeOK
  <1>1. /\ Indices(u)' = Indices(u) /\ Registered(u)' = Registered(u)
        /\ \A i : ChanOf(u, i)' = ChanOf(u, i) /\ DirOf(u, i)' = DirOf(u, i)
    BY DEF Spares, Indices, Registered, ChanOf, DirOf
  <1>2. \A i \in Indices(u) : ChanOf(u, i) \in Chan
    BY <1>0, OpTypes
  <1>3. \A i \in Indices(u) : Over(u, i) => Over(u, i)'
    BY <1>1, <1>2 DEF Spares, Over
  <1>4. Queued(u) # {} => /\ pc[u] \in {"enlist", "wait", "leave"}
                          /\ \E i \in Indices(u) : ~Over(u, i)
    BY QueuedRegistered DEF Registered, Over
  <1>5. CallOf(u)'
    BY <1>0, <1>1 DEF Spares, ThreadInv, CallOf
  <1>6. RanOf(u)'
    BY <1>0, <1>4 DEF Spares, ThreadInv, RanOf, TypeOK
  <1>7. LockedOf(u)'
    <2>1. SUFFICES ASSUME NEW i \in Indices(u),
                          (pc[u] = "lock" /\ i \notin todo[u]) \/ pc[u] = "enlist"
                   PROVE  (mutex[ChanOf(u, i)] = u)' /\ Missed(u, i)'
      BY <1>1 DEF Spares, LockedOf
    <2>2. mutex[ChanOf(u, i)] = u /\ Missed(u, i) /\ ChanOf(u, i) \in Chan
      BY <1>0, <1>2, <2>1 DEF ThreadInv, LockedOf
    <2>. QED
      BY <1>1, <2>2 DEF Spares, Missed
  <1>8. PassOf(u)'
    BY <1>0, <1>1, <1>3 DEF Spares, ThreadInv, PassOf
  <1>9. WaitOf(u)'
    <2>1. SUFFICES ASSUME ~matched'[u] PROVE WaitOf(u)'
      BY DEF WaitOf
    <2>2. ~matched[u]
      BY <2>1 DEF Spares
    <2>3. \A i \in Registered(u) : open'[ChanOf(u, i)] => i \in Queued(u)'
      <3>1. SUFFICES ASSUME NEW i \in Registered(u), open'[ChanOf(u, i)]
                     PROVE  i \in Queued(u)'
        OBVIOUS
      <3>2. i \in Indices(u)
        BY <1>0 DEF ThreadInv, CallOf, Registered
      <3>3. open[ChanOf(u, i)]
        BY <1>2, <3>1, <3>2 DEF Spares
      <3>4. i \in Queued(u)
        BY <1>0, <2>2, <3>1, <3>3 DEF ThreadInv, WaitOf
      <3>. QED
        BY <2>1, <3>1, <3>2, <3>4 DEF Spares
    <2>4. ASSUME pc[u] = "wait", NEW i \in Indices(u)
          PROVE  open'[ChanOf(u, i)] \/ Over(u, i)'
      <3>1. CASE open[ChanOf(u, i)]
        <4>1. i \in Queued(u)
          BY <1>0, <2>2, <2>4, <3>1 DEF ThreadInv, WaitOf, Registered
        <4>. QED
          BY <1>1, <2>1, <4>1 DEF Spares, Over
      <3>2. CASE ~open[ChanOf(u, i)]
        BY <1>0, <1>3, <2>2, <2>4, <3>2 DEF ThreadInv, WaitOf
      <3>. QED
        BY <3>1, <3>2
    <2>. QED
      BY <1>1, <2>3, <2>4 DEF Spares, WaitOf
  <1>10. CountOf(u)'
    <2>1. CASE openOps'[u] = openOps[u]
      <3>1. Queued(u)' \subseteq Queued(u) /\ Queued(u) \subseteq Indices(u)
        BY <1>1 DEF Spares, Queued
      <3>2. IsFiniteSet(Queued(u))
        BY <1>0, <3>1, OpTypes, FS_Subset
      <3>3. Cardinality(Queued(u)') <= Cardinality(Queued(u)) /\ Cardinality(Queued(u)) \in Nat
            /\ IsFiniteSet(Queued(u)')
        BY <3>1, <3>2, FS_Subset, FS_CardinalityType
      <3>4. Cardinality(Queued(u)') \in Nat /\ openOps[u] \in Nat
        BY <1>0, <3>3, FS_CardinalityType DEF TypeOK
      <3>. QED
        BY <1>0, <2>1, <3>3, <3>4 DEF ThreadInv, CountOf
    <2>. QED
      BY <2>1 DEF Spares
  <1>11. LeaveOf(u)'
    BY <1>0, <1>1, <1>3, <1>4 DEF Spares, ThreadInv, LeaveOf
  <1>12. StatusOf(u)'
    BY <1>0, <1>1, <1>3, <1>4 DEF Spares, ThreadInv, StatusOf
  <1>13. UsedOf(u)'
    BY <1>0 DEF Spares, ThreadInv, UsedOf
  <1>. QED
    BY <1>5, <1>6, <1>7, <1>8, <1>9, <1>10, <1>11, <1>12, <1>13 DEF ThreadInv

-----------------------------------------------------------------------------
(* The steps that go through the queues of one channel: a try that hits, a *)
(* try that misses, and clear().                                           *)

\* The queues of c lose their first operations; those of us are matched.
Take(c, us) ==
    /\ \E n \in 0..Len(pops[c]) :
          /\ pops' = [pops EXCEPT ![c] = Suffix(pops[c], n)]
          /\ \A k \in 1..n : matched[pops[c][k].by] \/ pops[c][k].by \in us
    /\ \E n \in 0..Len(pushes[c]) :
          /\ pushes' = [pushes EXCEPT ![c] = Suffix(pushes[c], n)]
          /\ \A k \in 1..n : matched[pushes[c][k].by] \/ pushes[c][k].by \in us
    /\ matched' = [u \in Thread |-> matched[u] \/ u \in us]
    /\ \A u \in us : u \in Thread /\ ~matched[u] /\ (By(pops[c], u) \/ By(pushes[c], u))

\* And operations of ts run: values move.
Deal(c, us, ts) ==
    /\ Take(c, us) /\ us \subseteq ts
    /\ ran' = [u \in Thread |-> IF u \in ts THEN ran[u] + 1 ELSE ran[u]]
    /\ used' \subseteq used \cup {Datum(u, c) : u \in ts}
    /\ \A e \in Chan \ {c} : buffer'[e] = buffer[e] /\ (e \in cleared => e \in cleared')
    /\ ~open[c] /\ buffer[c] = <<>> => buffer'[c] = <<>>
    /\ \A u \in Thread : open[c] /\ By(pops'[c], u) /\ ~matched'[u] => buffer'[c] = <<>>
    /\ \A u \in Thread : open[c] /\ By(pushes'[c], u) /\ ~matched'[u] =>
          Len(buffer'[c]) >= Cap[c] \/ c \in cleared'
    /\ buffer' \in [Chan -> Seq(Value)] /\ last' \in [Chan -> Value]
    /\ asleep' \subseteq Thread /\ used' \subseteq Value /\ cleared' \subseteq Chan
    /\ UNCHANGED <<open, ops, wait, openOps, calls>>

LEMMA TakeQueues ==
    ASSUME TypeOK, NEW c \in Chan, NEW us, Take(c, us), NEW e \in Chan, NEW d \in Dir
    PROVE  /\ Queue(e, d)' \in Seq(Waiting)
           /\ \A w : In(Queue(e, d)', w) => In(Queue(e, d), w)
           /\ \A u : By(Queue(e, d)', u) => By(Queue(e, d), u)
           /\ \A w \in Waiting : In(Queue(e, d), w) /\ ~matched'[w.by] => In(Queue(e, d)', w)
           /\ NoDup(Queue(e, d)) => NoDup(Queue(e, d)')
           /\ Queue(e, d) = <<>> => Queue(e, d)' = <<>>
  <1>1. pops \in [Chan -> Seq(Waiting)] /\ pushes \in [Chan -> Seq(Waiting)]
    BY DEF TypeOK
  <1>2. \E n \in 0..Len(Queue(e, d)) :
           /\ Queue(e, d)' = Suffix(Queue(e, d), n)
           /\ \A k \in 1..n : matched[Queue(e, d)[k].by] \/ Queue(e, d)[k].by \in us
    <2>1. CASE e = c
      BY <1>1, <2>1 DEF Take, Queue
    <2>2. CASE e # c
      <3>1. Queue(e, d)' = Queue(e, d)
        BY <1>1, <2>2 DEF Take, Queue
      <3>2. Queue(e, d) \in Seq(Waiting)
        BY QueueTypes
      <3>3. Queue(e, d)' = Suffix(Queue(e, d), 0) /\ Len(Queue(e, d)) \in Nat
        BY <3>1, <3>2, SuffixAll
      <3>4. 0 \in 0..Len(Queue(e, d)) /\ 1..0 = {}
        BY <3>3
      <3>. QED
        BY <3>3, <3>4
    <2>. QED
      BY <2>1, <2>2
  <1>3. PICK n \in 0..Len(Queue(e, d)) :
           /\ Queue(e, d)' = Suffix(Queue(e, d), n)
           /\ \A k \in 1..n : matched[Queue(e, d)[k].by] \/ Queue(e, d)[k].by \in us
    BY <1>2
  <1>4. PICK q : q = Queue(e, d)
    OBVIOUS
  <1>5. q \in Seq(Waiting) /\ Len(q) \in Nat
    BY <1>4, QueueTypes, LenProperties
  <1>6. PICK p : p = Queue(e, d)'
    OBVIOUS
  <1>7. p = Suffix(q, n) /\ n \in 0..Len(q)
    BY <1>3, <1>4, <1>6
  <1>8. /\ p \in Seq(Waiting)
        /\ \A w : In(p, w) => In(q, w)
        /\ \A u : By(p, u) => By(q, u)
        /\ \A w : In(q, w) => In(p, w) \/ \E k \in 1..n : q[k] = w
        /\ NoDup(q) => NoDup(p)
    BY <1>5, <1>7, SuffixProperties
  <1>9. ASSUME NEW w \in Waiting, In(q, w), ~matched'[w.by]
        PROVE  In(p, w)
    <2>1. ASSUME NEW k \in 1..n, q[k] = w
          PROVE  FALSE
      <3>1. w.by \in Thread
        BY DEF Waiting
      <3>2. matched[w.by] \/ w.by \in us
        BY <1>3, <1>4, <2>1
      <3>. QED
        BY <1>9, <3>1, <3>2 DEF Take
    <2>. QED
      BY <1>8, <1>9, <2>1
  <1>10. q = <<>> => p = <<>>
    <2>1. SUFFICES ASSUME q = <<>> PROVE p = <<>>
      OBVIOUS
    <2>2. Len(q) = 0
      BY <2>1
    <2>3. n = 0
      BY <1>7, <2>2
    <2>. QED
      BY <1>5, <1>7, <2>1, <2>3, SuffixAll
  <1>. QED
    BY <1>4, <1>6, <1>8, <1>9, <1>10

LEMMA TakeMatched ==
    ASSUME TypeOK, NEW c \in Chan, NEW us, Take(c, us)
    PROVE  /\ \A u \in Thread : matched'[u] \in BOOLEAN /\ (matched[u] => matched'[u])
           /\ \A u \in Thread : matched'[u] /\ ~matched[u] => u \in us
           /\ \A u \in us : u \in Thread /\ ~matched[u] /\ matched'[u]
  BY DEF Take, TypeOK

LEMMA DealTypes ==
    ASSUME TypeOK, NEW c \in Chan, NEW us, NEW ts, Deal(c, us, ts)
    PROVE  /\ open' \in [Chan -> BOOLEAN] /\ buffer' \in [Chan -> Seq(Value)]
           /\ pops' \in [Chan -> Seq(Waiting)] /\ pushes' \in [Chan -> Seq(Waiting)]
           /\ ops' \in [Thread -> Seq(OpType)] /\ wait' \in [Thread -> WaitType]
           /\ matched' \in [Thread -> BOOLEAN] /\ openOps' \in [Thread -> Nat]
           /\ asleep' \in SUBSET Thread /\ calls' \in [Thread -> Nat]
           /\ ran' \in [Thread -> Nat] /\ last' \in [Chan -> Value]
           /\ used' \in SUBSET Value /\ cleared' \in SUBSET Chan
  <1>1. \A e \in Chan, d \in Dir : Queue(e, d)' \in Seq(Waiting)
    BY TakeQueues DEF Deal
  <1>2. pops' \in [Chan -> Seq(Waiting)] /\ pushes' \in [Chan -> Seq(Waiting)]
    <2>1. \A e \in Chan : pops'[e] \in Seq(Waiting) /\ pushes'[e] \in Seq(Waiting)
      BY <1>1 DEF Dir, Queue
    <2>2. pops' = [e \in Chan |-> pops'[e]] /\ pushes' = [e \in Chan |-> pushes'[e]]
      BY DEF Deal, Take, TypeOK
    <2>. QED
      BY <2>1, <2>2
  <1>3. matched' \in [Thread -> BOOLEAN]
    BY DEF Deal, Take, TypeOK
  <1>4. ran' \in [Thread -> Nat]
    BY DEF Deal, TypeOK
  <1>. QED
    BY <1>2, <1>3, <1>4 DEF Deal, TypeOK

LEMMA DealChan ==
    ASSUME IInv, NEW c \in Chan, NEW us, NEW ts, Deal(c, us, ts),
           \A u \in Thread : Registered(u) # {} => Registered(u)' = Registered(u)
    PROVE  \A e \in Chan : ChanInv(e)'
  <1>1. SUFFICES ASSUME NEW e \in Chan PROVE ChanInv(e)'
    OBVIOUS
  <1>2. TypeOK /\ Take(c, us) /\ ChanInv(e)
    BY DEF IInv, Deal
  <1>3. open' = open /\ ops' = ops
    BY DEF Deal
  <1>4. \A d \in Dir : NoDup(Queue(e, d)')
    BY <1>2, TakeQueues DEF ChanInv
  <1>5. ~open[e] => pops'[e] = <<>> /\ pushes'[e] = <<>>
    <2>1. ~open[e] => \A d \in Dir : Queue(e, d)' = <<>>
      BY <1>2, TakeQueues DEF ChanInv, Queue
    <2>. QED
      BY <2>1 DEF Dir, Queue
  <1>6. ASSUME NEW d \in Dir, NEW k \in DOMAIN Queue(e, d)'
        PROVE  Entry(Queue(e, d)[k], e, d)'
    <2>1. PICK w : w = Queue(e, d)'[k]
      OBVIOUS
    <2>2. In(Queue(e, d), w)
      <3>1. In(Queue(e, d)', w)
        BY <2>1 DEF In
      <3>. QED
        BY <1>2, <3>1, TakeQueues
    <2>3. PICK j \in DOMAIN Queue(e, d) : Queue(e, d)[j] = w
      BY <2>2 DEF In
    <2>4. Entry(w, e, d) /\ w.by \in Thread
      BY <1>2, <2>3, QueueTypes DEF ChanInv, Waiting
    <2>5. Registered(w.by)' = Registered(w.by)
      BY <2>4 DEF Entry
    <2>. QED
      BY <1>3, <2>1, <2>4, <2>5 DEF Entry
  <1>7. \A u \in Thread : ~matched'[u] => ~matched[u]
    BY <1>2, TakeMatched
  <1>8. \A u : (By(pops'[e], u) => By(pops[e], u)) /\ (By(pushes'[e], u) => By(pushes[e], u))
    <2>1. \A d \in Dir : \A u : By(Queue(e, d)', u) => By(Queue(e, d), u)
      BY <1>2, TakeQueues
    <2>. QED
      BY <2>1 DEF Dir, Queue
  <1>9. ASSUME NEW u \in Thread, open[e], By(pops'[e], u), ~matched'[u]
        PROVE  /\ buffer'[e] = <<>>
               /\ \A v \in Thread : By(pushes'[e], v) /\ ~matched'[v] => v = u
    BY <1>2, <1>7, <1>8, <1>9 DEF ChanInv, Deal
  <1>10. ASSUME NEW u \in Thread, open[e], By(pushes'[e], u), ~matched'[u]
         PROVE  Len(buffer'[e]) >= Cap[e] \/ e \in cleared'
    BY <1>2, <1>7, <1>8, <1>10 DEF ChanInv, Deal
  <1>. QED
    BY <1>3, <1>4, <1>5, <1>6, <1>9, <1>10 DEF ChanInv

LEMMA DealSpares ==
    ASSUME IInv, NEW c \in Chan, NEW us, NEW ts, Deal(c, us, ts), NEW u \in Thread,
           u \in ts => u \in us, mutex[c] # u,
           pc'[u] = pc[u], todo'[u] = todo[u], status'[u] = status[u],
           \A e \in Chan : mutex[e] = u => mutex'[e] = u
    PROVE  Spares(u)
  <1>1. TypeOK /\ Take(c, us) /\ ThreadInv(u)
    BY DEF IInv, Deal
  <1>2. /\ open' = open /\ ops' = ops /\ wait' = wait /\ calls' = calls /\ openOps' = openOps
        /\ Indices(u)' = Indices(u)
        /\ \A i : ChanOf(u, i)' = ChanOf(u, i) /\ DirOf(u, i)' = DirOf(u, i)
    BY DEF Deal, Indices, ChanOf, DirOf
  <1>3. \A e \in Chan : \A v :
            (By(pops'[e], v) => By(pops[e], v)) /\ (By(pushes'[e], v) => By(pushes[e], v))
    <2>1. \A e \in Chan, d \in Dir : \A v : By(Queue(e, d)', v) => By(Queue(e, d), v)
      BY <1>1, TakeQueues
    <2>. QED
      BY <2>1 DEF Dir, Queue
  <1>4. \A v \in Thread : ~matched'[v] => ~matched[v]
    BY <1>1, TakeMatched
  <1>5. \/ matched'[u] = matched[u] /\ ran'[u] = ran[u]
        \/ /\ ~matched[u] /\ matched'[u] /\ ran'[u] = ran[u] + 1
           /\ pc[u] # "enlist" /\ Queued(u) # {}
    <2>1. CASE u \in us
      <3>1. ~matched[u] /\ matched'[u] /\ ran'[u] = ran[u] + 1
        BY <1>1, <2>1, TakeMatched DEF Deal
      <3>2. \E d \in Dir : By(Queue(c, d), u)
        BY <2>1 DEF Deal, Take, Dir, Queue
      <3>3. PICK i \in Registered(u) : i \in Queued(u) /\ ChanOf(u, i) = c
        BY <3>2, WaiterRegistered
      <3>4. pc[u] # "enlist"
        BY <1>1, <3>3 DEF ThreadInv, LockedOf, Queued
      <3>. QED
        BY <3>1, <3>3, <3>4
    <2>2. CASE u \notin us
      BY <1>1, <2>2 DEF Deal, Take, TypeOK
    <2>. QED
      BY <2>1, <2>2
  <1>6. ASSUME NEW i \in Indices(u)
        PROVE  /\ i \in Queued(u)' => i \in Queued(u)
               /\ i \in Queued(u) /\ ~matched'[u] =>
                    IF open'[ChanOf(u, i)] THEN i \in Queued(u)'
                    ELSE DirOf(u, i) = "pop" => buffer'[ChanOf(u, i)] = <<>>
    <2>1. ChanOf(u, i) \in Chan /\ DirOf(u, i) \in Dir /\ i \in Nat
      <3>1. Len(ops[u]) \in Nat /\ i \in 1..Len(ops[u])
        BY <1>1, OpTypes
      <3>2. i \in Nat
        BY <3>1
      <3>. QED
        BY <1>1, <3>2, OpTypes
    <2>2. Op(u, i) \in Waiting /\ Op(u, i).by = u
      BY <2>1 DEF Op, Waiting
    <2>3. PICK e \in Chan, d \in Dir : e = ChanOf(u, i) /\ d = DirOf(u, i)
      BY <2>1
    <2>4. \A w : In(Queue(e, d)', w) => In(Queue(e, d), w)
      BY <1>1, TakeQueues
    <2>5. \A w \in Waiting : In(Queue(e, d), w) /\ ~matched'[w.by] => In(Queue(e, d)', w)
      BY <1>1, TakeQueues
    <2>6. i \in Queued(u) <=> In(Queue(e, d), Op(u, i))
      BY <2>3 DEF Queued
    <2>7. i \in Queued(u)' <=> In(Queue(e, d)', Op(u, i))
      BY <1>2, <2>3 DEF Queued
    <2>8. i \in Queued(u) => open[ChanOf(u, i)]
      BY QueuedRegistered
    <2>. QED
      BY <1>2, <2>2, <2>4, <2>5, <2>6, <2>7, <2>8
  <1>7. ASSUME NEW n \in 1..MaxCalls[u], <<u, n>> \in used', <<u, n>> # Unit
        PROVE  <<u, n>> \in used \/ (n = calls[u] /\ ran'[u] >= 1)
    <2>1. SUFFICES ASSUME <<u, n>> \notin used
                   PROVE  n = calls[u] /\ ran'[u] >= 1
      OBVIOUS
    <2>2. PICK v \in ts : <<u, n>> = Datum(v, c)
      BY <1>7, <2>1 DEF Deal
    <2>3. v = u /\ n = calls[u]
      BY <1>7, <2>2 DEF Datum
    <2>4. ran'[u] = ran[u] + 1 /\ ran[u] \in Nat
      BY <1>1, <2>2, <2>3 DEF Deal, TypeOK
    <2>. QED
      BY <2>3, <2>4
  <1>8. \A e \in Chan : mutex[e] = u =>
          /\ mutex'[e] = u /\ open'[e] = open[e] /\ buffer'[e] = buffer[e]
          /\ \A v \in Thread : ~matched'[v] => /\ By(pops'[e], v) => By(pops[e], v) /\ ~matched[v]
                                               /\ By(pushes'[e], v) => By(pushes[e], v) /\ ~matched[v]
    BY <1>2, <1>3, <1>4 DEF Deal
  <1>9. \A e \in Chan : ~open[e] => ~open'[e] /\ (buffer[e] = <<>> => buffer'[e] = <<>>)
    BY <1>2 DEF Deal
  <1>. QED
    BY <1>2, <1>5, <1>6, <1>7, <1>8, <1>9 DEF Spares

LEMMA DataProperties ==
    ASSUME IInv, NEW c \in Chan, NEW u \in Thread, pc[u] # "idle"
    PROVE  /\ Datum(u, c) \in Value /\ Data({}, c) = <<>> /\ Data({u}, c) = <<Datum(u, c)>>
           /\ Data({u}, c) \in Seq(Value) /\ Data({u}, c)[1] = Datum(u, c)
  <1>1. calls[u] \in 1..MaxCalls[u]
    <2>1. MaxCalls[u] \in Nat /\ calls[u] \in Nat
      BY CopperAssumption DEF IInv, TypeOK
    <2>. QED
      BY <2>1 DEF IInv, ThreadInv, CallOf
  <1>2. Datum(u, c) \in Value
    BY <1>1 DEF Datum, Value
  <1>3. Data({u}, c) = <<Datum(u, c)>> /\ Data({}, c) = <<>>
    BY DEF Data
  <1>4. <<Datum(u, c)>> \in Seq(Value) /\ <<Datum(u, c)>>[1] = Datum(u, c)
    BY <1>2
  <1>. QED
    BY <1>2, <1>3, <1>4, Zenon

\* What the loops leave: Rest, of a queue whose partners are matched.
Trim(c, us) ==
    /\ pops' = pops \/ (pops' = [pops EXCEPT ![c] = Rest(@)] /\ Partner(pops[c]) \subseteq us)
    /\ \/ pushes' = pushes
       \/ pushes' = [pushes EXCEPT ![c] = Rest(@)] /\ Partner(pushes[c]) \subseteq us
    /\ us \subseteq Partner(pops[c]) \cup Partner(pushes[c])
    /\ matched' = [u \in Thread |-> matched[u] \/ u \in us]

LEMMA Taken ==
    ASSUME TypeOK, NEW c \in Chan, NEW us, Trim(c, us)
    PROVE  Take(c, us)
  <1>1. /\ pops \in [Chan -> Seq(Waiting)] /\ pushes \in [Chan -> Seq(Waiting)]
        /\ matched \in [Thread -> BOOLEAN]
    BY DEF TypeOK
  <1>2. ASSUME NEW f \in [Chan -> Seq(Waiting)], NEW g,
               g = f \/ (g = [f EXCEPT ![c] = Rest(@)] /\ Partner(f[c]) \subseteq us)
        PROVE  \E n \in 0..Len(f[c]) :
                  /\ g = [f EXCEPT ![c] = Suffix(f[c], n)]
                  /\ \A k \in 1..n : matched[f[c][k].by] \/ f[c][k].by \in us
    <2>1. f[c] \in Seq(Waiting)
      OBVIOUS
    <2>2. CASE g = f
      <3>1. f[c] = Suffix(f[c], 0) /\ Len(f[c]) \in Nat
        BY <2>1, SuffixAll
      <3>2. 0 \in 0..Len(f[c]) /\ 1..0 = {}
        BY <3>1
      <3>3. g = [f EXCEPT ![c] = Suffix(f[c], 0)]
        BY <2>2, <3>1
      <3>. QED
        BY <3>2, <3>3
    <2>3. CASE g = [f EXCEPT ![c] = Rest(@)] /\ Partner(f[c]) \subseteq us
      <3>1. PICK n \in 0..Len(f[c]) :
                /\ Rest(f[c]) = Suffix(f[c], n)
                /\ \A k \in 1..n : matched[f[c][k].by] \/ f[c][k].by \in Partner(f[c])
        BY <1>1, <2>1, PartnerProperties
      <3>2. g = [f EXCEPT ![c] = Suffix(f[c], n)]
        BY <2>3, <3>1
      <3>3. \A k \in 1..n : matched[f[c][k].by] \/ f[c][k].by \in us
        BY <2>3, <3>1
      <3>. QED
        BY <3>2, <3>3
    <2>. QED
      BY <1>2, <2>2, <2>3
  <1>3. \A u \in us : u \in Thread /\ ~matched[u] /\ (By(pops[c], u) \/ By(pushes[c], u))
    <2>1. pops[c] \in Seq(Waiting) /\ pushes[c] \in Seq(Waiting)
      BY <1>1
    <2>. QED
      BY <1>1, <2>1, PartnerProperties DEF Trim
  <1>4. \E n \in 0..Len(pops[c]) :
          /\ pops' = [pops EXCEPT ![c] = Suffix(pops[c], n)]
          /\ \A k \in 1..n : matched[pops[c][k].by] \/ pops[c][k].by \in us
    BY <1>1, <1>2 DEF Trim
  <1>5. \E n \in 0..Len(pushes[c]) :
          /\ pushes' = [pushes EXCEPT ![c] = Suffix(pushes[c], n)]
          /\ \A k \in 1..n : matched[pushes[c][k].by] \/ pushes[c][k].by \in us
    BY <1>1, <1>2 DEF Trim
  <1>. QED
    BY <1>3, <1>4, <1>5 DEF Take, Trim

LEMMA PopBufferedDeals ==
    ASSUME IInv, NEW t \in Thread, NEW c \in Chan, pc[t] # "idle", PopBuffered(t, c),
           UNCHANGED <<open, ops, wait, openOps, calls>>,
           cleared' = IF pushes'[c] = <<>> THEN cleared \ {c} ELSE cleared
    PROVE  \E us : Deal(c, us, us \cup {t}) /\ us \subseteq Partner(pushes[c])
  <1>1. TypeOK /\ ChanInv(c)
    BY DEF IInv
  <1>2. /\ pushes[c] \in Seq(Waiting) /\ pops[c] \in Seq(Waiting) /\ matched \in [Thread -> BOOLEAN]
        /\ buffer[c] \in Seq(Value) /\ buffer[c] # <<>> /\ Cap[c] \in Nat
    BY <1>1, CopperAssumption DEF TypeOK, PopBuffered
  <1>3. PICK us : us = IF open[c] THEN Partner(pushes[c]) ELSE {}
    OBVIOUS
  <1>4. /\ last' = [last EXCEPT ![c] = Head(buffer[c])]
        /\ buffer' = [buffer EXCEPT ![c] = Tail(@) \o Data(us, c)]
        /\ pushes' = [pushes EXCEPT ![c] = IF open[c] THEN Rest(@) ELSE @]
        /\ matched' = [u \in Thread |-> matched[u] \/ u \in us]
        /\ asleep' = asleep \ us
        /\ ran' = [u \in Thread |-> IF u \in {t} \cup us THEN ran[u] + 1 ELSE ran[u]]
        /\ used' = used \cup {Datum(u, c) : u \in us}
        /\ pops' = pops
    BY <1>3 DEF PopBuffered, Match, Ran
  <1>5. Take(c, us)
    <2>1. pushes' = pushes \/ (pushes' = [pushes EXCEPT ![c] = Rest(@)] /\ Partner(pushes[c]) \subseteq us)
      BY <1>1, <1>3, <1>4 DEF TypeOK
    <2>2. Trim(c, us)
      BY <1>3, <1>4, <2>1 DEF Trim
    <2>. QED
      BY <1>1, <2>2, Taken
  <1>6. /\ us = {} \/ \E u \in Thread : us = {u} /\ pc[u] # "idle"
    <2>1. \A u \in us : \E d \in Dir : By(Queue(c, d), u)
      BY <1>5 DEF Take, Dir, Queue
    <2>2. \A u \in us : pc[u] # "idle"
      BY <2>1, WaiterRegistered DEF Registered
    <2>3. us = {} \/ \E u \in Thread : us = {u}
      BY <1>2, <1>3, PartnerProperties
    <2>. QED
      BY <2>2, <2>3
  <1>7. /\ Data(us, c) \in Seq(Value) /\ Len(Data(us, c)) = (IF us = {} THEN 0 ELSE 1)
        /\ \A u \in us : Datum(u, c) \in Value
    <2>1. CASE us = {}
      BY <2>1 DEF Data
    <2>2. CASE us # {}
      <3>1. PICK u \in Thread : us = {u} /\ pc[u] # "idle"
        BY <1>6, <2>2
      <3>2. Data(us, c) \in Seq(Value) /\ Data(us, c) = <<Datum(u, c)>> /\ Datum(u, c) \in Value
        BY <3>1, DataProperties
      <3>. QED
        BY <2>2, <3>1, <3>2
    <2>. QED
      BY <2>1, <2>2
  <1>8. /\ Tail(buffer[c]) \in Seq(Value) /\ Head(buffer[c]) \in Value
        /\ Len(Tail(buffer[c])) = Len(buffer[c]) - 1 /\ Len(buffer[c]) \in Nat
    BY <1>2, HeadTailProperties, LenProperties
  <1>9. /\ Tail(buffer[c]) \o Data(us, c) \in Seq(Value)
        /\ us # {} => Len(Tail(buffer[c]) \o Data(us, c)) = Len(buffer[c])
    <2>1. /\ Tail(buffer[c]) \o Data(us, c) \in Seq(Value)
          /\ Len(Tail(buffer[c]) \o Data(us, c)) = Len(Tail(buffer[c])) + Len(Data(us, c))
      BY <1>7, <1>8, ConcatProperties, Zenon
    <2>2. us # {} => Len(Data(us, c)) = 1
      BY <1>7
    <2>3. Len(buffer[c]) - 1 + 1 = Len(buffer[c])
      BY <1>8
    <2>. QED
      BY <1>8, <2>1, <2>2, <2>3, Zenon
  <1>10. /\ buffer' \in [Chan -> Seq(Value)] /\ last' \in [Chan -> Value]
         /\ asleep' \subseteq Thread /\ used' \subseteq Value /\ cleared' \subseteq Chan
         /\ buffer'[c] = Tail(buffer[c]) \o Data(us, c)
         /\ \A e \in Chan \ {c} : buffer'[e] = buffer[e] /\ (e \in cleared => e \in cleared')
    BY <1>1, <1>4, <1>7, <1>8, <1>9 DEF TypeOK
  <1>11. \A u \in Thread : open[c] /\ By(pops'[c], u) /\ ~matched'[u] => buffer'[c] = <<>>
    BY <1>1, <1>2, <1>4 DEF ChanInv
  <1>12. ASSUME NEW u \in Thread, open[c], By(pushes'[c], u), ~matched'[u]
         PROVE  Len(buffer'[c]) >= Cap[c] \/ c \in cleared'
    <2>1. pushes'[c] = Rest(pushes[c])
      BY <1>1, <1>4, <1>12 DEF TypeOK
    <2>2. pushes'[c] # <<>> /\ us # {}
      BY <1>2, <1>3, <1>12, <2>1, PartnerProperties DEF By
    <2>3. By(pushes[c], u) /\ ~matched[u]
      <3>1. By(Queue(c, "push")', u) => By(Queue(c, "push"), u)
        BY <1>1, <1>5, TakeQueues DEF Dir
      <3>. QED
        BY <1>4, <1>12, <3>1 DEF Queue
    <2>4. Len(buffer[c]) >= Cap[c] \/ c \in cleared
      BY <1>1, <1>12, <2>3 DEF ChanInv
    <2>. QED
      <3>1. Len(buffer'[c]) = Len(buffer[c])
        BY <1>8, <1>9, <1>10, <2>2
      <3>2. cleared' = cleared
        BY <2>2, Zenon
      <3>. QED
        BY <2>4, <3>1, <3>2
  <1>13. /\ used' \subseteq used \cup {Datum(u, c) : u \in us \cup {t}}
         /\ ran' = [u \in Thread |-> IF u \in us \cup {t} THEN ran[u] + 1 ELSE ran[u]]
         /\ us \subseteq us \cup {t}
    BY <1>4
  <1>14. Deal(c, us, us \cup {t})
    BY <1>2, <1>5, <1>10, <1>11, <1>12, <1>13 DEF Deal
  <1>. QED
    BY <1>3, <1>14

\* Who waits after such a step waited before.
LEMMA StillWaits ==
    ASSUME TypeOK, NEW c \in Chan, NEW us, Take(c, us), NEW e \in Chan, NEW u \in Thread, ~matched'[u]
    PROVE  /\ By(pops'[e], u) => By(pops[e], u) /\ ~matched[u]
           /\ By(pushes'[e], u) => By(pushes[e], u) /\ ~matched[u]
  <1>1. \A d \in Dir : By(Queue(e, d)', u) => By(Queue(e, d), u)
    BY TakeQueues
  <1>2. ~matched[u]
    BY TakeMatched
  <1>. QED
    BY <1>1, <1>2 DEF Dir, Queue

\* Who is matched has an operation that runs.
LEMMA TakenWait ==
    ASSUME IInv, NEW c \in Chan, NEW us, Take(c, us)
    PROVE  \A u \in us : u \in Thread /\ pc[u] # "idle" /\ Registered(u) # {} /\ Datum(u, c) \in Value
  <1>1. SUFFICES ASSUME NEW u \in us
                 PROVE  u \in Thread /\ pc[u] # "idle" /\ Registered(u) # {} /\ Datum(u, c) \in Value
    OBVIOUS
  <1>2. u \in Thread /\ \E d \in Dir : By(Queue(c, d), u)
    BY DEF Take, Dir, Queue
  <1>3. Registered(u) # {}
    BY <1>2, WaiterRegistered
  <1>4. pc[u] # "idle"
    BY <1>3 DEF Registered
  <1>. QED
    BY <1>2, <1>3, <1>4, DataProperties

LEMMA PopHandedDeals ==
    ASSUME IInv, NEW t \in Thread, NEW c \in Chan, PopHanded(t, c),
           UNCHANGED <<open, ops, wait, openOps, calls>>,
           cleared' = IF pushes'[c] = <<>> THEN cleared \ {c} ELSE cleared
    PROVE  \E us : Deal(c, us, us \cup {t}) /\ us \subseteq Partner(pushes[c])
  <1>1. TypeOK /\ ChanInv(c) /\ pushes[c] \in Seq(Waiting) /\ matched \in [Thread -> BOOLEAN]
    BY DEF IInv, TypeOK
  <1>2. PICK us : us = Partner(pushes[c])
    OBVIOUS
  <1>3. /\ open[c] /\ buffer[c] = <<>> /\ us # {}
        /\ pushes' = [pushes EXCEPT ![c] = Rest(@)]
        /\ last' = [last EXCEPT ![c] = Data(us, c)[1]]
        /\ matched' = [u \in Thread |-> matched[u] \/ u \in us]
        /\ asleep' = asleep \ us
        /\ ran' = [u \in Thread |-> IF u \in {t} \cup us THEN ran[u] + 1 ELSE ran[u]]
        /\ used' = used \cup {Datum(u, c) : u \in us}
        /\ pops' = pops /\ buffer' = buffer
    BY <1>2 DEF PopHanded, Match, Ran
  <1>4. Take(c, us)
    <2>1. Trim(c, us)
      BY <1>2, <1>3 DEF Trim
    <2>. QED
      BY <1>1, <2>1, Taken
  <1>5. PICK u \in Thread : us = {u}
    BY <1>1, <1>2, <1>3, PartnerProperties
  <1>6. Datum(u, c) \in Value /\ Data(us, c)[1] = Datum(u, c)
    BY <1>4, <1>5, TakenWait, DataProperties
  <1>7. /\ buffer' \in [Chan -> Seq(Value)] /\ last' \in [Chan -> Value]
        /\ asleep' \subseteq Thread /\ used' \subseteq Value /\ cleared' \subseteq Chan
        /\ \A e \in Chan \ {c} : buffer'[e] = buffer[e] /\ (e \in cleared => e \in cleared')
    BY <1>1, <1>3, <1>5, <1>6 DEF TypeOK
  <1>8. ASSUME NEW v \in Thread, open[c], By(pushes'[c], v), ~matched'[v]
        PROVE  Len(buffer'[c]) >= Cap[c] \/ c \in cleared'
    <2>1. Len(buffer[c]) >= Cap[c] \/ c \in cleared
      BY <1>1, <1>4, <1>8, StillWaits DEF ChanInv
    <2>2. pushes'[c] # <<>>
      BY <1>8 DEF By
    <2>3. cleared' = cleared
      BY <2>2
    <2>. QED
      BY <1>3, <2>1, <2>3
  <1>9. /\ used' \subseteq used \cup {Datum(v, c) : v \in us \cup {t}}
        /\ ran' = [v \in Thread |-> IF v \in us \cup {t} THEN ran[v] + 1 ELSE ran[v]]
    BY <1>3
  <1>10. Deal(c, us, us \cup {t})
    BY <1>3, <1>4, <1>7, <1>8, <1>9 DEF Deal
  <1>. QED
    BY <1>2, <1>10

LEMMA PushHandedDeals ==
    ASSUME IInv, NEW t \in Thread, NEW c \in Chan, pc[t] # "idle", PushHanded(t, c),
           UNCHANGED <<open, ops, wait, openOps, calls>>,
           cleared' = IF pushes'[c] = <<>> THEN cleared \ {c} ELSE cleared
    PROVE  \E us : Deal(c, us, us \cup {t}) /\ us \subseteq Partner(pops[c])
  <1>1. TypeOK /\ ChanInv(c) /\ pops[c] \in Seq(Waiting) /\ matched \in [Thread -> BOOLEAN]
    BY DEF IInv, TypeOK
  <1>2. PICK us : us = Partner(pops[c])
    OBVIOUS
  <1>3. /\ open[c] /\ us # {}
        /\ pops' = [pops EXCEPT ![c] = Rest(@)]
        /\ last' = [last EXCEPT ![c] = Datum(t, c)]
        /\ matched' = [u \in Thread |-> matched[u] \/ u \in us]
        /\ asleep' = asleep \ us
        /\ ran' = [u \in Thread |-> IF u \in {t} \cup us THEN ran[u] + 1 ELSE ran[u]]
        /\ used' = used \cup {Datum(t, c)}
        /\ pushes' = pushes /\ buffer' = buffer
    BY <1>2 DEF PushHanded, Match, Ran
  <1>4. Take(c, us)
    <2>1. Trim(c, us)
      BY <1>2, <1>3 DEF Trim
    <2>. QED
      BY <1>1, <2>1, Taken
  <1>5. buffer[c] = <<>>
    <2>1. PICK u \in Thread : By(pops[c], u) /\ ~matched[u]
      BY <1>1, <1>2, <1>3, PartnerProperties
    <2>. QED
      BY <1>1, <1>3, <2>1 DEF ChanInv
  <1>6. Datum(t, c) \in Value
    BY DataProperties
  <1>7. /\ buffer' \in [Chan -> Seq(Value)] /\ last' \in [Chan -> Value]
        /\ asleep' \subseteq Thread /\ used' \subseteq Value /\ cleared' \subseteq Chan
        /\ \A e \in Chan \ {c} : buffer'[e] = buffer[e] /\ (e \in cleared => e \in cleared')
    BY <1>1, <1>3, <1>6 DEF TypeOK
  <1>8. ASSUME NEW v \in Thread, open[c], By(pushes'[c], v), ~matched'[v]
        PROVE  Len(buffer'[c]) >= Cap[c] \/ c \in cleared'
    <2>1. Len(buffer[c]) >= Cap[c] \/ c \in cleared
      BY <1>1, <1>4, <1>8, StillWaits DEF ChanInv
    <2>2. pushes'[c] # <<>>
      BY <1>8 DEF By
    <2>3. cleared' = cleared
      BY <2>2
    <2>. QED
      BY <1>3, <2>1, <2>3
  <1>9. /\ used' \subseteq used \cup {Datum(v, c) : v \in us \cup {t}}
        /\ ran' = [v \in Thread |-> IF v \in us \cup {t} THEN ran[v] + 1 ELSE ran[v]]
    BY <1>3
  <1>10. Deal(c, us, us \cup {t})
    BY <1>3, <1>4, <1>5, <1>7, <1>8, <1>9 DEF Deal
  <1>. QED
    BY <1>2, <1>10

LEMMA PushBufferedDeals ==
    ASSUME IInv, NEW t \in Thread, NEW c \in Chan, pc[t] # "idle", PushBuffered(t, c),
           UNCHANGED <<open, ops, wait, openOps, calls>>,
           cleared' = IF pushes'[c] = <<>> THEN cleared \ {c} ELSE cleared
    PROVE  Deal(c, {}, {} \cup {t})
  <1>1. TypeOK /\ ChanInv(c) /\ pops[c] \in Seq(Waiting) /\ matched \in [Thread -> BOOLEAN]
        /\ buffer[c] \in Seq(Value)
    BY DEF IInv, TypeOK
  <1>2. /\ open[c] /\ Partner(pops[c]) = {}
        /\ pops' = [pops EXCEPT ![c] = <<>>]
        /\ buffer' = [buffer EXCEPT ![c] = Append(@, Datum(t, c))]
        /\ matched' = [u \in Thread |-> matched[u] \/ u \in {}]
        /\ asleep' = asleep \ {}
        /\ ran' = [u \in Thread |-> IF u \in {t} THEN ran[u] + 1 ELSE ran[u]]
        /\ used' = used \cup {Datum(t, c)}
        /\ pushes' = pushes /\ last' = last
    BY DEF PushBuffered, Match, Ran
  <1>3. Rest(pops[c]) = <<>>
    BY <1>1, <1>2, PartnerProperties
  <1>4. Take(c, {})
    <2>1. Trim(c, {})
      BY <1>2, <1>3 DEF Trim
    <2>. QED
      BY <1>1, <2>1, Taken
  <1>5. Datum(t, c) \in Value
    BY DataProperties
  <1>6. /\ Append(buffer[c], Datum(t, c)) \in Seq(Value)
        /\ Len(Append(buffer[c], Datum(t, c))) = Len(buffer[c]) + 1 /\ Len(buffer[c]) \in Nat
    BY <1>1, <1>5, AppendProperties, LenProperties
  <1>7. /\ buffer' \in [Chan -> Seq(Value)] /\ last' \in [Chan -> Value]
        /\ asleep' \subseteq Thread /\ used' \subseteq Value /\ cleared' \subseteq Chan
        /\ \A e \in Chan \ {c} : buffer'[e] = buffer[e] /\ (e \in cleared => e \in cleared')
        /\ buffer'[c] = Append(buffer[c], Datum(t, c)) /\ Cap[c] \in Nat
    BY <1>1, <1>2, <1>5, <1>6, CopperAssumption DEF TypeOK
  <1>8. \A v \in Thread : ~By(pops'[c], v)
    BY <1>1, <1>2 DEF By, TypeOK
  <1>9. ASSUME NEW v \in Thread, open[c], By(pushes'[c], v), ~matched'[v]
        PROVE  Len(buffer'[c]) >= Cap[c] \/ c \in cleared'
    <2>1. Len(buffer[c]) >= Cap[c] \/ c \in cleared
      BY <1>1, <1>4, <1>9, StillWaits DEF ChanInv
    <2>2. pushes'[c] # <<>>
      BY <1>9 DEF By
    <2>3. cleared' = cleared
      BY <2>2
    <2>4. Len(buffer'[c]) = Len(buffer[c]) + 1
      BY <1>6, <1>7
    <2>. QED
      BY <1>6, <1>7, <2>1, <2>3, <2>4
  <1>10. /\ used' \subseteq used \cup {Datum(v, c) : v \in {} \cup {t}}
         /\ ran' = [v \in Thread |-> IF v \in {} \cup {t} THEN ran[v] + 1 ELSE ran[v]]
    BY <1>2
  <1>. QED
    BY <1>2, <1>4, <1>7, <1>8, <1>9, <1>10 DEF Deal

LEMMA HitDeals ==
    ASSUME IInv, NEW t \in Thread, NEW i \in Indices(t), Registered(t) = {}, pc[t] # "idle",
           Hit(t, i), UNCHANGED <<ops, wait, openOps, calls>>
    PROVE  \E us : Deal(ChanOf(t, i), us, us \cup {t}) /\ t \notin us
  <1>1. PICK c \in Chan : c = ChanOf(t, i)
    BY OpTypes DEF IInv
  <1>2. /\ cleared' = IF pushes'[c] = <<>> THEN cleared \ {c} ELSE cleared
        /\ UNCHANGED <<open, ops, wait, openOps, calls>>
        /\ PopBuffered(t, c) \/ PopHanded(t, c) \/ PushHanded(t, c) \/ PushBuffered(t, c)
    BY <1>1 DEF Hit
  <1>3. \E us : Deal(c, us, us \cup {t})
    <2>1. CASE PopBuffered(t, c)
      BY <1>2, <2>1, PopBufferedDeals
    <2>2. CASE PopHanded(t, c)
      BY <1>2, <2>2, PopHandedDeals
    <2>3. CASE PushHanded(t, c)
      BY <1>2, <2>3, PushHandedDeals
    <2>4. CASE PushBuffered(t, c)
      BY <1>2, <2>4, PushBufferedDeals
    <2>. QED
      BY <1>2, <2>1, <2>2, <2>3, <2>4
  <1>4. PICK us : Deal(c, us, us \cup {t})
    BY <1>3
  <1>5. t \notin us
    BY <1>4, TakenWait DEF Deal
  <1>. QED
    BY <1>1, <1>4, <1>5

LEMMA MissDeals ==
    ASSUME IInv, NEW t \in Thread, NEW i \in Indices(t),
           Miss(t, i), UNCHANGED <<ops, wait, openOps, calls>>
    PROVE  /\ Deal(ChanOf(t, i), {}, {})
           /\ Missed(t, i)' /\ (~open[ChanOf(t, i)] => Over(t, i))
           /\ \A j \in Indices(t) : /\ Missed(t, j) => Missed(t, j)'
                                    /\ Over(t, j) => Over(t, j)'
  <1>1. PICK c \in Chan : c = ChanOf(t, i)
    BY OpTypes DEF IInv
  <1>2. /\ TypeOK /\ ChanInv(c) /\ pops[c] \in Seq(Waiting) /\ pushes[c] \in Seq(Waiting)
        /\ matched \in [Thread -> BOOLEAN] /\ ran \in [Thread -> Nat]
    BY DEF IInv, TypeOK
  <1>3. UNCHANGED <<open, buffer, matched, asleep, ran, last, used, cleared, ops, wait, openOps, calls>>
    BY DEF Miss, history
  <1>4. Take(c, {})
    <2>1. \/ pops' = pops /\ pushes' = pushes
          \/ /\ DirOf(t, i) = "pop" /\ Partner(pushes[c]) = {}
             /\ pushes' = [pushes EXCEPT ![c] = <<>>] /\ pops' = pops
          \/ /\ Partner(pops[c]) = {}
             /\ pops' = [pops EXCEPT ![c] = <<>>] /\ pushes' = pushes
      BY <1>1, <1>2 DEF Miss, TypeOK
    <2>2. /\ Partner(pops[c]) = {} => Rest(pops[c]) = <<>>
          /\ Partner(pushes[c]) = {} => Rest(pushes[c]) = <<>>
      BY <1>2, PartnerProperties
    <2>3. matched' = [u \in Thread |-> matched[u] \/ u \in {}]
      BY <1>2, <1>3
    <2>4. Trim(c, {})
      BY <2>1, <2>2, <2>3 DEF Trim
    <2>. QED
      BY <1>2, <2>4, Taken
  <1>5. ASSUME NEW e \in Chan, NEW v \in Thread, ~matched[v]
        PROVE  (By(pops'[e], v) => By(pops[e], v)) /\ (By(pushes'[e], v) => By(pushes[e], v))
    BY <1>2, <1>3, <1>4, <1>5, StillWaits
  <1>6. Deal(c, {}, {})
    <2>1. ran' = [u \in Thread |-> IF u \in {} THEN ran[u] + 1 ELSE ran[u]]
      BY <1>2, <1>3
    <2>2. \A u \in Thread : open[c] /\ By(pops'[c], u) /\ ~matched'[u] => buffer'[c] = <<>>
      BY <1>2, <1>3, <1>5 DEF ChanInv
    <2>3. \A u \in Thread : open[c] /\ By(pushes'[c], u) /\ ~matched'[u] =>
             Len(buffer'[c]) >= Cap[c] \/ c \in cleared'
      BY <1>2, <1>3, <1>5 DEF ChanInv
    <2>. QED
      BY <1>2, <1>3, <1>4, <2>1, <2>2, <2>3 DEF Deal, TypeOK
  <1>7. \A j : ChanOf(t, j)' = ChanOf(t, j) /\ DirOf(t, j)' = DirOf(t, j)
    BY <1>3 DEF ChanOf, DirOf
  <1>8. Missed(t, i)'
    <2>1. \A v : ~By(<<>>, v)
      BY DEF By
    <2>2. CASE DirOf(t, i) = "pop"
      <3>1. buffer[c] = <<>> /\ (open[c] => pushes'[c] = <<>>)
        BY <1>1, <1>2, <2>2 DEF Miss, TypeOK
      <3>. QED
        BY <1>1, <1>3, <1>7, <2>1, <2>2, <3>1 DEF Missed
    <2>3. CASE DirOf(t, i) # "pop"
      <3>1. open[c] => Len(buffer[c]) >= Cap[c] /\ pops'[c] = <<>>
        BY <1>1, <1>2, <2>3 DEF Miss, TypeOK
      <3>. QED
        BY <1>1, <1>3, <1>7, <2>1, <2>3, <3>1 DEF Missed
    <2>. QED
      BY <2>2, <2>3
  <1>9. ~open[ChanOf(t, i)] => Over(t, i)
    BY DEF Miss, Over
  <1>10. ASSUME NEW j \in Indices(t)
         PROVE  (Missed(t, j) => Missed(t, j)') /\ (Over(t, j) => Over(t, j)')
    <2>1. ChanOf(t, j) \in Chan
      BY <1>2, OpTypes
    <2>. QED
      BY <1>3, <1>5, <1>7, <2>1 DEF Missed, Over
  <1>. QED
    BY <1>1, <1>6, <1>8, <1>9, <1>10

-----------------------------------------------------------------------------
(* The tries.                                                              *)

\* Only t goes on.
Alone(t) ==
    /\ \E l \in {"idle", "pass", "lock", "enlist", "wait", "leave"}, S \in SUBSET Nat :
          pc' = [pc EXCEPT ![t] = l] /\ todo' = [todo EXCEPT ![t] = S]
    /\ \E s \in {"success", "unavailable", "closed"} : status' = [status EXCEPT ![t] = s]
    /\ mutex' \in [Chan -> Thread \cup {NoThread}]
    /\ \A e \in Chan, u \in Thread \ {t} : mutex[e] = u => mutex'[e] = u

LEMMA AloneTypes ==
    ASSUME TypeOK, NEW t \in Thread, Alone(t)
    PROVE  /\ pc' \in [Thread -> {"idle", "pass", "lock", "enlist", "wait", "leave"}]
           /\ todo' \in [Thread -> SUBSET Nat]
           /\ status' \in [Thread -> {"success", "unavailable", "closed"}]
           /\ mutex' \in [Chan -> Thread \cup {NoThread}]
           /\ \A u \in Thread \ {t} : pc'[u] = pc[u] /\ todo'[u] = todo[u] /\ status'[u] = status[u]
  BY DEF Alone, TypeOK

LEMMA UnlockedKeeps ==
    ASSUME TypeOK, NEW t \in Thread, mutex' = Unlocked(t) \/ mutex' = mutex
    PROVE  /\ mutex' \in [Chan -> Thread \cup {NoThread}]
           /\ \A e \in Chan, u \in Thread \ {t} : mutex[e] = u => mutex'[e] = u
  BY DEF TypeOK, Unlocked

LEMMA TryKeeps ==
    ASSUME IInv, NEW t \in Thread, NEW c \in Chan, NEW us, NEW ts, Deal(c, us, ts),
           ts \subseteq us \cup {t}, Free(t, c), Registered(t) = {}, Alone(t), ThreadInv(t)'
    PROVE  IInv'
  <1>1. TypeOK
    BY DEF IInv
  <1>2. TypeOK'
    BY <1>1, AloneTypes, DealTypes DEF TypeOK
  <1>3. \A u \in Thread : Registered(u) # {} => Registered(u)' = Registered(u)
    <2>1. \A u \in Thread \ {t} : Registered(u)' = Registered(u)
      BY <1>1, AloneTypes DEF Deal, Registered, Indices
    <2>. QED
      BY <2>1
  <1>4. \A e \in Chan : ChanInv(e)'
    BY <1>3, DealChan
  <1>5. ASSUME NEW u \in Thread, u # t
        PROVE  ThreadInv(u)'
    <2>1. mutex[c] # u
      BY <1>5, CopperAssumption DEF Free
    <2>2. \A e \in Chan : mutex[e] = u => mutex'[e] = u
      BY <1>5 DEF Alone
    <2>3. Spares(u)
      BY <1>1, <1>5, <2>1, <2>2, AloneTypes, DealSpares
    <2>. QED
      BY <1>2, <2>3, Spared
  <1>. QED
    BY <1>2, <1>4, <1>5 DEF IInv

\* None of the operations of t waits.
LEMMA NoneQueued ==
    ASSUME IInv, NEW t \in Thread, Registered(t) = {}
    PROVE  Queued(t) = {} /\ \A e \in Chan, d \in Dir : ~By(Queue(e, d), t)
  BY QueuedRegistered, WaiterRegistered

LEMMA StillNoneQueued ==
    ASSUME IInv, NEW t \in Thread, Registered(t) = {},
           NEW c \in Chan, NEW us, NEW ts, Deal(c, us, ts)
    PROVE  Queued(t)' = {} /\ CountOf(t)'
  <1>1. \A e \in Chan, d \in Dir : ~By(Queue(e, d)', t)
    BY NoneQueued, TakeQueues DEF IInv, Deal
  <1>2. ops' = ops /\ openOps' = openOps /\ openOps[t] \in Nat /\ Indices(t)' = Indices(t)
        /\ \A i : ChanOf(t, i)' = ChanOf(t, i) /\ DirOf(t, i)' = DirOf(t, i)
    BY DEF IInv, TypeOK, Deal, ChanOf, DirOf, Indices
  <1>3. \A i \in Indices(t) : ChanOf(t, i) \in Chan /\ DirOf(t, i) \in Dir
    BY OpTypes DEF IInv
  <1>4. \A e \in Chan, d \in Dir : \A i : ~In(Queue(e, d)', Op(t, i))
    BY <1>1 DEF In, By, Op
  <1>5. ASSUME NEW i \in Queued(t)'
        PROVE  FALSE
    <2>1. PICK e \in Chan, d \in Dir : e = ChanOf(t, i) /\ d = DirOf(t, i)
      BY <1>2, <1>3 DEF Queued
    <2>2. In(Queue(e, d)', Op(t, i))
      BY <1>2, <2>1 DEF Queued
    <2>. QED
      BY <1>4, <2>2
  <1>6. Queued(t)' = {}
    BY <1>5
  <1>7. Cardinality(Queued(t)') = 0
    BY <1>6, FS_EmptySet
  <1>. QED
    BY <1>2, <1>6, <1>7 DEF CountOf

LEMMA HitKeeps ==
    ASSUME IInv, NEW t \in Thread, NEW i \in Indices(t), pc[t] \in {"pass", "lock"},
           Free(t, ChanOf(t, i)), Hit(t, i), Succeed(t), UNCHANGED callsOnly
    PROVE  IInv'
  <1>1. TypeOK /\ ThreadInv(t) /\ Registered(t) = {} /\ ChanOf(t, i) \in Chan
    BY OpTypes DEF IInv, Registered
  <1>2. UNCHANGED <<ops, wait, openOps, calls>>
    BY DEF callsOnly
  <1>3. PICK c \in Chan : c = ChanOf(t, i)
    BY <1>1
  <1>4. PICK us : Deal(c, us, us \cup {t}) /\ t \notin us
    BY <1>1, <1>2, <1>3, HitDeals
  <1>5. /\ pc' = [pc EXCEPT ![t] = "idle"] /\ todo' = [todo EXCEPT ![t] = {}]
        /\ status' = [status EXCEPT ![t] = "success"] /\ mutex' = Unlocked(t)
    BY DEF Succeed, Goto
  <1>6. Alone(t)
    BY <1>1, <1>5, UnlockedKeeps DEF Alone
  <1>7. pc'[t] = "idle" /\ todo'[t] = {} /\ status'[t] = "success"
    BY <1>1, <1>5 DEF TypeOK
  <1>8. ran[t] = 0 /\ ran'[t] = 1
    BY <1>1, <1>4 DEF ThreadInv, RanOf, Deal, TypeOK
  <1>9. /\ Indices(t)' = Indices(t) /\ Registered(t)' = {}
    BY <1>2, <1>7 DEF Indices, Registered
  <1>10. UsedOf(t)'
    <2>1. SUFFICES ASSUME NEW n \in 1..MaxCalls[t], <<t, n>> \in used', <<t, n>> # Unit
                   PROVE  n <= calls[t] /\ (n = calls[t] => ran'[t] >= 1)
      BY <1>2 DEF UsedOf
    <2>2. calls[t] \in Nat
      BY <1>1 DEF TypeOK
    <2>3. CASE <<t, n>> \in used
      BY <1>1, <1>8, <2>1, <2>3 DEF ThreadInv, UsedOf
    <2>4. CASE <<t, n>> \notin used
      <3>1. PICK v \in us \cup {t} : <<t, n>> = Datum(v, c)
        BY <1>4, <2>1, <2>4 DEF Deal
      <3>2. n = calls[t]
        BY <2>1, <3>1 DEF Datum
      <3>. QED
        BY <1>8, <2>2, <3>2
    <2>. QED
      BY <2>3, <2>4
  <1>11. CountOf(t)'
    BY <1>1, <1>4, StillNoneQueued
  <1>12. ThreadInv(t)'
    BY <1>1, <1>2, <1>7, <1>8, <1>9, <1>10, <1>11
       DEF ThreadInv, CallOf, RanOf, LockedOf, PassOf, WaitOf, LeaveOf, StatusOf
  <1>. QED
    BY <1>1, <1>3, <1>4, <1>6, <1>12, TryKeeps

\* After a miss t has ended, goes on trying, or goes on to enlist.
LEMMA MissKeeps ==
    ASSUME IInv, NEW t \in Thread, NEW i \in Indices(t), pc[t] \in {"pass", "lock"},
           Free(t, ChanOf(t, i)), Miss(t, i), UNCHANGED callsOnly, Alone(t),
           CallOf(t)', pc'[t] \in {"idle", "pass", "lock", "enlist"},
           pc'[t] = "enlist" => todo'[t] = Indices(t),
           LockedOf(t)', PassOf(t)', StatusOf(t)'
    PROVE  IInv'
  <1>1. TypeOK /\ ThreadInv(t) /\ Registered(t) = {} /\ ChanOf(t, i) \in Chan
    BY OpTypes DEF IInv, Registered
  <1>2. UNCHANGED <<ops, wait, openOps, calls, matched, ran, used>>
    BY DEF callsOnly, Miss, history
  <1>3. PICK c \in Chan : c = ChanOf(t, i)
    BY <1>1
  <1>4. Deal(c, {}, {})
    BY <1>2, <1>3, MissDeals
  <1>5. Registered(t)' = {}
    BY <1>1, <1>2 DEF Registered, Indices
  <1>6. ran[t] = 0 /\ ~matched[t]
    BY <1>1 DEF ThreadInv, RanOf
  <1>7. RanOf(t)' /\ WaitOf(t)' /\ LeaveOf(t)' /\ UsedOf(t)'
    BY <1>1, <1>2, <1>5, <1>6 DEF ThreadInv, RanOf, WaitOf, LeaveOf, UsedOf
  <1>8. CountOf(t)'
    BY <1>1, <1>4, StillNoneQueued
  <1>9. ThreadInv(t)'
    BY <1>7, <1>8 DEF ThreadInv
  <1>. QED
    BY <1>1, <1>3, <1>4, <1>9, TryKeeps

LEMMA PassMissesKeeps ==
    ASSUME IInv, NEW t \in Thread, PassMisses(t)
    PROVE  IInv'
  <1>1. TypeOK /\ ThreadInv(t) /\ CallOf(t) /\ PassOf(t) /\ RanOf(t)
    BY DEF IInv, ThreadInv
  <1>2. PICK i \in todo[t] :
          /\ Free(t, ChanOf(t, i)) /\ Miss(t, i)
          /\ status' = [status EXCEPT ![t] = IF open[ChanOf(t, i)] THEN "unavailable" ELSE @]
          /\ IF todo[t] # {i} THEN Goto(t, "pass", todo[t] \ {i})
             ELSE IF wait[t] = "none" THEN Goto(t, "idle", {})
             ELSE Goto(t, "lock", Indices(t))
    BY DEF PassMisses
  <1>3. pc[t] = "pass" /\ UNCHANGED callsOnly /\ UNCHANGED <<ops, wait, openOps, calls>>
        /\ mutex' = mutex
    BY DEF PassMisses, callsOnly
  <1>4. i \in Indices(t) /\ Indices(t) \in SUBSET Nat /\ todo[t] \in SUBSET Nat
    <2>1. Len(ops[t]) \in Nat /\ Indices(t) = 1..Len(ops[t])
      BY <1>1, OpTypes
    <2>2. Indices(t) \in SUBSET Nat
      BY <2>1
    <2>. QED
      BY <1>1, <2>2 DEF CallOf, TypeOK
  <1>5. \/ pc'[t] = "pass" /\ todo'[t] = todo[t] \ {i} /\ todo[t] # {i}
        \/ pc'[t] = "idle" /\ todo'[t] = {} /\ todo[t] = {i} /\ wait[t] = "none"
        \/ pc'[t] = "lock" /\ todo'[t] = Indices(t) /\ todo[t] = {i} /\ wait[t] # "none"
    BY <1>1, <1>2 DEF Goto, TypeOK
  <1>6. status'[t] = IF open[ChanOf(t, i)] THEN "unavailable" ELSE status[t]
    BY <1>1, <1>2 DEF TypeOK
  <1>7. Alone(t)
    <2>1. \E l \in {"idle", "pass", "lock", "enlist", "wait", "leave"}, S \in SUBSET Nat :
             pc' = [pc EXCEPT ![t] = l] /\ todo' = [todo EXCEPT ![t] = S]
      <3>1. todo[t] \ {i} \in SUBSET Nat /\ {} \in SUBSET Nat
        BY <1>4
      <3>. QED
        BY <1>2, <1>4, <3>1 DEF Goto
    <2>2. \E s \in {"success", "unavailable", "closed"} : status' = [status EXCEPT ![t] = s]
      <3>1. status[t] \in {"success", "unavailable", "closed"}
        BY <1>1 DEF TypeOK
      <3>. QED
        BY <1>2, <3>1
    <2>. QED
      BY <1>1, <1>3, <2>1, <2>2, UnlockedKeeps DEF Alone
  <1>8. /\ (~open[ChanOf(t, i)] => Over(t, i)')
        /\ \A j \in Indices(t) : Over(t, j) => Over(t, j)'
    BY <1>2, <1>3, <1>4, MissDeals
  <1>9. Indices(t)' = Indices(t) /\ ran'[t] = ran[t]
    BY <1>2, <1>3 DEF Indices, Miss, history
  <1>10. status'[t] \in {"closed", "unavailable"}
         /\ (status'[t] = "closed" => \A j \in Indices(t) \ (todo[t] \ {i}) : Over(t, j)')
    BY <1>1, <1>3, <1>6, <1>8 DEF PassOf
  <1>11. CallOf(t)'
    BY <1>1, <1>3, <1>4, <1>5, <1>9 DEF CallOf
  <1>12. LockedOf(t)'
    BY <1>5, <1>9 DEF LockedOf
  <1>13. PassOf(t)'
    BY <1>5, <1>9, <1>10 DEF PassOf
  <1>14. StatusOf(t)'
    <2>1. ran[t] = 0
      BY <1>1, <1>3 DEF RanOf
    <2>. QED
      BY <1>5, <1>9, <1>10, <2>1 DEF StatusOf
  <1>. QED
    BY <1>2, <1>3, <1>4, <1>5, <1>7, <1>11, <1>12, <1>13, <1>14, MissKeeps

LEMMA LockMissesKeeps ==
    ASSUME IInv, NEW t \in Thread, LockMisses(t)
    PROVE  IInv'
  <1>1. TypeOK /\ ThreadInv(t) /\ CallOf(t) /\ LockedOf(t) /\ RanOf(t)
    BY DEF IInv, ThreadInv
  <1>2. PICK i : i = Min(todo[t])
    OBVIOUS
  <1>3. i \in todo[t] /\ i \in Indices(t) /\ Indices(t) \in SUBSET Nat /\ todo[t] \in SUBSET Nat
    <2>1. todo[t] \in SUBSET Nat /\ todo[t] # {}
      BY <1>1 DEF LockMisses, CallOf, TypeOK
    <2>2. Len(ops[t]) \in Nat /\ Indices(t) = 1..Len(ops[t])
      BY <1>1, OpTypes
    <2>3. Indices(t) \in SUBSET Nat
      BY <2>2
    <2>. QED
      BY <1>1, <1>2, <2>1, <2>3, MinProperties DEF CallOf
  <1>4. PICK c \in Chan : c = ChanOf(t, i)
    BY <1>1, <1>3, OpTypes
  <1>5. PICK s : s = IF open[c] THEN "unavailable" ELSE "closed"
    OBVIOUS
  <1>6. /\ pc[t] = "lock" /\ Free(t, c) /\ Miss(t, i)
        /\ UNCHANGED callsOnly /\ UNCHANGED <<ops, wait, openOps, calls>>
        /\ IF Len(ops[t]) = 1 /\ (wait[t] = "none" \/ s = "closed")
           THEN /\ Goto(t, "idle", {})
                /\ status' = [status EXCEPT ![t] = s]
                /\ UNCHANGED mutex
           ELSE /\ IF todo[t] = {i} THEN Goto(t, "enlist", Indices(t))
                                    ELSE Goto(t, "lock", todo[t] \ {i})
                /\ mutex' = [mutex EXCEPT ![c] = t]
                /\ UNCHANGED status
    BY <1>2, <1>4, <1>5 DEF LockMisses, callsOnly
  <1>7. \/ /\ pc'[t] = "idle" /\ todo'[t] = {} /\ status'[t] = s /\ Len(ops[t]) = 1
        \/ /\ pc'[t] = "enlist" /\ todo'[t] = Indices(t) /\ todo[t] = {i}
           /\ mutex' = [mutex EXCEPT ![c] = t]
           /\ ~(Len(ops[t]) = 1 /\ wait[t] = "none")
        \/ /\ pc'[t] = "lock" /\ todo'[t] = todo[t] \ {i} /\ todo[t] # {i}
           /\ mutex' = [mutex EXCEPT ![c] = t]
    BY <1>1, <1>6 DEF Goto, TypeOK
  <1>8. /\ Missed(t, i)' /\ (~open[c] => Over(t, i)')
        /\ \A j \in Indices(t) : Missed(t, j) => Missed(t, j)'
    BY <1>3, <1>4, <1>6, MissDeals
  <1>9. /\ Indices(t)' = Indices(t) /\ ran'[t] = ran[t]
        /\ \A j : ChanOf(t, j)' = ChanOf(t, j)
    BY <1>6 DEF Indices, ChanOf, Miss, history
  <1>10. Alone(t)
    <2>1. \E l \in {"idle", "pass", "lock", "enlist", "wait", "leave"}, S \in SUBSET Nat :
             pc' = [pc EXCEPT ![t] = l] /\ todo' = [todo EXCEPT ![t] = S]
      <3>1. todo[t] \ {i} \in SUBSET Nat /\ {} \in SUBSET Nat
        BY <1>3
      <3>. QED
        BY <1>3, <1>6, <3>1 DEF Goto
    <2>2. \E x \in {"success", "unavailable", "closed"} : status' = [status EXCEPT ![t] = x]
      <3>1. status[t] \in {"success", "unavailable", "closed"} /\ s \in {"unavailable", "closed"}
            /\ status = [status EXCEPT ![t] = status[t]]
        BY <1>1, <1>5 DEF TypeOK
      <3>2. status' = status \/ status' = [status EXCEPT ![t] = s]
        BY <1>6
      <3>. QED
        BY <3>1, <3>2
    <2>3. /\ mutex' \in [Chan -> Thread \cup {NoThread}]
          /\ \A e \in Chan, u \in Thread \ {t} : mutex[e] = u => mutex'[e] = u
      <3>1. mutex' = mutex \/ mutex' = [mutex EXCEPT ![c] = t]
        BY <1>6
      <3>2. mutex \in [Chan -> Thread \cup {NoThread}] /\ mutex[c] \in {NoThread, t}
        BY <1>1, <1>6 DEF TypeOK, Free
      <3>3. NoThread \notin Thread
        BY CopperAssumption
      <3>. QED
        BY <3>1, <3>2, <3>3
    <2>. QED
      BY <2>1, <2>2, <2>3 DEF Alone
  <1>11. CallOf(t)'
    <2>1. pc'[t] = "lock" => pc[t] = "lock"
      BY <1>6
    <2>2. CASE pc'[t] = "enlist"
      BY <1>1, <1>3, <1>6, <1>7, <1>9, <2>2 DEF CallOf
    <2>3. CASE pc'[t] # "enlist"
      BY <1>1, <1>3, <1>6, <1>7, <1>9, <2>3 DEF CallOf
    <2>. QED
      BY <2>2, <2>3
  <1>12. LockedOf(t)'
    <2>1. SUFFICES ASSUME NEW j \in Indices(t),
                          (pc'[t] = "lock" /\ j \notin todo'[t]) \/ pc'[t] = "enlist"
                   PROVE  mutex'[ChanOf(t, j)] = t /\ Missed(t, j)'
      BY <1>9 DEF LockedOf
    <2>2. mutex' = [mutex EXCEPT ![c] = t] /\ (j = i \/ j \notin todo[t])
      BY <1>7, <2>1
    <2>3. CASE j = i
      BY <1>1, <1>4, <1>8, <2>2, <2>3 DEF TypeOK
    <2>4. CASE j # i
      <3>1. mutex[ChanOf(t, j)] = t /\ Missed(t, j)
        BY <1>1, <1>6, <2>1, <2>2, <2>4 DEF LockedOf
      <3>2. ChanOf(t, j) \in Chan
        BY <1>1, OpTypes
      <3>. QED
        BY <1>1, <1>8, <2>2, <3>1, <3>2 DEF TypeOK
    <2>. QED
      BY <2>3, <2>4
  <1>13. PassOf(t)'
    BY <1>7 DEF PassOf
  <1>14. StatusOf(t)'
    <2>1. SUFFICES ASSUME pc'[t] = "idle" PROVE StatusOf(t)'
      BY DEF StatusOf
    <2>2. ran[t] = 0 /\ status'[t] = s /\ Len(ops[t]) = 1
      BY <1>1, <1>6, <1>7, <2>1 DEF RanOf
    <2>3. \A j \in Indices(t) : j = i
      <3>1. Indices(t) = 1..Len(ops[t])
        BY <1>1, OpTypes
      <3>2. Indices(t) = 1..1
        BY <2>2, <3>1
      <3>. QED
        BY <1>3, <3>2
    <2>. QED
      BY <1>5, <1>8, <1>9, <2>2, <2>3 DEF StatusOf
  <1>. QED
    BY <1>3, <1>4, <1>6, <1>7, <1>10, <1>11, <1>12, <1>13, <1>14, MissKeeps

-----------------------------------------------------------------------------
(* The begin of a request, and its wait.                                   *)

\* A step of t that leaves the queues and the values.
LEMMA QuietSpares ==
    ASSUME IInv, NEW t \in Thread, NEW u \in Thread \ {t}, UNCHANGED <<chanVars, mutex, used>>,
           pc'[u] = pc[u], todo'[u] = todo[u], status'[u] = status[u], ops'[u] = ops[u],
           wait'[u] = wait[u], calls'[u] = calls[u], matched'[u] = matched[u], ran'[u] = ran[u],
           openOps'[u] = openOps[u],
           \A v \in Thread : matched'[v] = matched[v] \/ \A e \in Chan, d \in Dir : ~By(Queue(e, d), v)
    PROVE  Spares(u)
  <1>1. open' = open /\ buffer' = buffer /\ pops' = pops /\ pushes' = pushes
        /\ mutex' = mutex /\ used' = used
    BY DEF chanVars
  <1>2. Indices(u)' = Indices(u) /\ \A i : ChanOf(u, i)' = ChanOf(u, i) /\ DirOf(u, i)' = DirOf(u, i)
    BY DEF Indices, ChanOf, DirOf
  <1>3. Queued(u)' = Queued(u)
    BY <1>1, <1>2 DEF Queued, Queue
  <1>4. ASSUME NEW e \in Chan, NEW v \in Thread, ~matched'[v]
        PROVE  /\ By(pops[e], v) => ~matched[v]
               /\ By(pushes[e], v) => ~matched[v]
    <2>1. \/ matched'[v] = matched[v]
          \/ ~By(Queue(e, "pop"), v) /\ ~By(Queue(e, "push"), v)
      BY DEF Dir
    <2>. QED
      BY <1>4, <2>1 DEF Queue
  <1>5. \A e \in Chan : mutex[e] = u =>
          /\ mutex'[e] = u /\ open'[e] = open[e] /\ buffer'[e] = buffer[e]
          /\ \A v \in Thread : ~matched'[v] => /\ By(pops'[e], v) => By(pops[e], v) /\ ~matched[v]
                                               /\ By(pushes'[e], v) => By(pushes[e], v) /\ ~matched[v]
    BY <1>1, <1>4
  <1>6. \A i \in Queued(u) : open'[ChanOf(u, i)]
    BY <1>1, QueuedRegistered
  <1>7. \A i \in Indices(u) :
          /\ i \in Queued(u)' => i \in Queued(u)
          /\ i \in Queued(u) /\ ~matched'[u] =>
                IF open'[ChanOf(u, i)] THEN i \in Queued(u)'
                ELSE DirOf(u, i) = "pop" => buffer'[ChanOf(u, i)] = <<>>
    BY <1>3, <1>6
  <1>. QED
    BY <1>1, <1>5, <1>7 DEF Spares

LEMMA QuietChan ==
    ASSUME IInv, UNCHANGED <<chanVars, cleared>>,
           \A u \in Thread : Registered(u) # {} => /\ Registered(u) \subseteq Registered(u)'
                                                   /\ ops'[u] = ops[u] /\ matched'[u] = matched[u]
    PROVE  \A e \in Chan : ChanInv(e)'
  <1>1. SUFFICES ASSUME NEW e \in Chan PROVE ChanInv(e)'
    OBVIOUS
  <1>2. /\ open' = open /\ buffer' = buffer /\ pops' = pops /\ pushes' = pushes
        /\ cleared' = cleared /\ TypeOK /\ ChanInv(e)
    BY DEF chanVars, IInv
  <1>3. \A d : Queue(e, d)' = Queue(e, d)
    BY <1>2 DEF Queue
  <1>4. \A u \in Thread : By(pops[e], u) \/ By(pushes[e], u) => Registered(u) # {}
    <2>1. \A d \in Dir : \A u \in Thread : By(Queue(e, d), u) => Registered(u) # {}
      BY WaiterRegistered
    <2>. QED
      BY <2>1 DEF Dir, Queue
  <1>5. \A u \in Thread : By(pops[e], u) \/ By(pushes[e], u) => matched'[u] = matched[u]
    BY <1>4
  <1>6. ASSUME NEW d \in Dir, NEW k \in DOMAIN Queue(e, d)
        PROVE  Entry(Queue(e, d)[k], e, d)'
    <2>1. PICK w : w = Queue(e, d)[k]
      OBVIOUS
    <2>2. Entry(w, e, d) /\ w.by \in Thread
      BY <1>2, <2>1, QueueTypes DEF ChanInv, Waiting
    <2>3. w.op \in Registered(w.by)' /\ ops'[w.by] = ops[w.by]
      BY <2>2 DEF Entry
    <2>4. w = Queue(e, d)'[k]
      BY <1>3, <2>1
    <2>. QED
      BY <2>2, <2>3, <2>4 DEF Entry
  <1>7. \A d \in Dir : NoDup(Queue(e, d)') /\ \A k \in DOMAIN Queue(e, d)' : Entry(Queue(e, d)[k], e, d)'
    BY <1>2, <1>3, <1>6 DEF ChanInv
  <1>. QED
    BY <1>2, <1>5, <1>7 DEF ChanInv

LEMMA BeginKeeps ==
    ASSUME IInv, NEW t \in Thread, NEW r \in Requests[t], Begin(t, r)
    PROVE  IInv'
  <1>1. TypeOK /\ ThreadInv(t) /\ pc[t] = "idle" /\ Registered(t) = {}
    BY DEF IInv, Begin, Registered
  <1>2. r[1] \in Seq(OpType) /\ r[2] \in WaitType /\ r[1] # <<>>
    BY CopperAssumption
  <1>3. PICK q, w : q = r[1] /\ w = r[2]
    OBVIOUS
  <1>4. q \in Seq(OpType) /\ w \in WaitType /\ Len(q) \in Nat /\ DOMAIN q = 1..Len(q) /\ Len(q) # 0
    BY <1>2, <1>3, LenProperties, EmptySeq
  <1>5. PICK l : l = IF Len(q) = 1 THEN "lock" ELSE "pass"
    OBVIOUS
  <1>6. /\ ops' = [ops EXCEPT ![t] = q] /\ wait' = [wait EXCEPT ![t] = w]
        /\ pc' = [pc EXCEPT ![t] = l] /\ todo' = [todo EXCEPT ![t] = DOMAIN q]
        /\ status' = [status EXCEPT ![t] = "closed"]
        /\ matched' = [matched EXCEPT ![t] = FALSE] /\ openOps' = [openOps EXCEPT ![t] = 0]
        /\ calls' = [calls EXCEPT ![t] = @ + 1] /\ ran' = [ran EXCEPT ![t] = 0]
        /\ UNCHANGED <<chanVars, mutex, asleep, last, used, cleared>>
        /\ calls[t] < MaxCalls[t]
    BY <1>3, <1>5 DEF Begin, Goto
  <1>7. open' = open /\ buffer' = buffer /\ pops' = pops /\ pushes' = pushes
    BY <1>6 DEF chanVars
  <1>8. l \in {"lock", "pass"} /\ DOMAIN q \in SUBSET Nat
    BY <1>4, <1>5
  <1>9. /\ ops'[t] = q /\ wait'[t] = w /\ pc'[t] = l /\ todo'[t] = DOMAIN q
        /\ status'[t] = "closed" /\ ~matched'[t] /\ openOps'[t] = 0
        /\ calls'[t] = calls[t] + 1 /\ ran'[t] = 0 /\ calls[t] \in Nat /\ MaxCalls[t] \in Nat
    BY <1>1, <1>6, CopperAssumption DEF TypeOK
  <1>10. TypeOK'
    BY <1>1, <1>4, <1>6, <1>7, <1>8 DEF TypeOK
  <1>11. \A u \in Thread \ {t} :
            /\ pc'[u] = pc[u] /\ todo'[u] = todo[u] /\ status'[u] = status[u] /\ ops'[u] = ops[u]
            /\ wait'[u] = wait[u] /\ calls'[u] = calls[u] /\ matched'[u] = matched[u]
            /\ ran'[u] = ran[u] /\ openOps'[u] = openOps[u]
    BY <1>1, <1>6 DEF TypeOK
  <1>12. \A e \in Chan, d \in Dir : ~By(Queue(e, d), t)
    BY <1>1, NoneQueued
  <1>13. ASSUME NEW u \in Thread, u # t
         PROVE  ThreadInv(u)'
    <2>1. Spares(u)
      BY <1>6, <1>11, <1>12, <1>13, QuietSpares
    <2>. QED
      BY <1>10, <2>1, Spared
  <1>14. \A e \in Chan : ChanInv(e)'
    <2>1. \A u \in Thread : Registered(u) # {} => /\ Registered(u) \subseteq Registered(u)'
                                                  /\ ops'[u] = ops[u] /\ matched'[u] = matched[u]
      BY <1>1, <1>11 DEF Registered, Indices
    <2>. QED
      BY <1>6, <2>1, QuietChan
  <1>15. Indices(t)' = DOMAIN q /\ Registered(t)' = {}
    BY <1>8, <1>9 DEF Indices, Registered
  <1>16. Queued(t)' = {}
    <2>1. SUFFICES ASSUME NEW i \in Queued(t)'
                   PROVE  FALSE
      OBVIOUS
    <2>2. i \in DOMAIN q
      BY <1>15, <2>1 DEF Queued
    <2>3. q[i] \in OpType
      BY <1>4, <2>2
    <2>4. PICK e \in Chan, d \in Dir : e = q[i].chan /\ d = q[i].dir
      BY <2>3 DEF OpType, Dir
    <2>5. In(Queue(e, d), Op(t, i))
      BY <1>7, <1>9, <2>1, <2>4 DEF Queued, ChanOf, DirOf, Queue
    <2>. QED
      BY <1>12, <2>5 DEF In, By, Op
  <1>17. CountOf(t)'
    BY <1>9, <1>16, FS_EmptySet DEF CountOf
  <1>18. CallOf(t)'
    <2>1. 1 \in DOMAIN q
      <3>1. PICK n \in Nat : n = Len(q)
        BY <1>4
      <3>2. n # 0 /\ DOMAIN q = 1..n
        BY <1>4, <3>1
      <3>3. 1 \in 1..n
        BY <3>2
      <3>. QED
        BY <3>2, <3>3
    <2>2. pc'[t] = "lock" => Len(ops'[t]) = 1
      BY <1>5, <1>9
    <2>3. calls'[t] <= MaxCalls[t] /\ calls'[t] >= 1
      BY <1>6, <1>9
    <2>4. todo'[t] # {} /\ todo'[t] \subseteq Indices(t)'
      BY <1>9, <1>15, <2>1
    <2>. QED
      BY <1>8, <1>9, <2>2, <2>3, <2>4 DEF CallOf
  <1>19. UsedOf(t)'
    <2>1. SUFFICES ASSUME NEW n \in 1..MaxCalls[t], <<t, n>> \in used, <<t, n>> # Unit
                   PROVE  n <= calls[t] + 1 /\ n # calls[t] + 1
      BY <1>6, <1>9 DEF UsedOf
    <2>2. n <= calls[t]
      BY <1>1, <2>1 DEF ThreadInv, UsedOf
    <2>. QED
      BY <1>9, <2>2
  <1>20. RanOf(t)' /\ LockedOf(t)' /\ PassOf(t)' /\ WaitOf(t)' /\ LeaveOf(t)' /\ StatusOf(t)'
    BY <1>8, <1>9, <1>15 DEF RanOf, LockedOf, PassOf, WaitOf, LeaveOf, StatusOf
  <1>21. ThreadInv(t)'
    BY <1>17, <1>18, <1>19, <1>20 DEF ThreadInv
  <1>. QED
    BY <1>10, <1>13, <1>14, <1>21 DEF IInv

\* Who sleeps is no part of what is known.
LEMMA SleepKeeps ==
    ASSUME IInv, asleep' \in SUBSET Thread,
           UNCHANGED <<chanVars, mutex, callVars, ops, wait, matched, openOps, calls, history>>
    PROVE  IInv'
  <1>1. /\ open' = open /\ buffer' = buffer /\ pops' = pops /\ pushes' = pushes /\ mutex' = mutex
        /\ pc' = pc /\ todo' = todo /\ status' = status /\ ops' = ops /\ wait' = wait
        /\ matched' = matched /\ openOps' = openOps /\ calls' = calls
        /\ ran' = ran /\ last' = last /\ used' = used /\ cleared' = cleared
    BY DEF chanVars, callVars, history
  <1>2. TypeOK'
    BY <1>1 DEF IInv, TypeOK
  <1>3. \A u \in Thread : Registered(u)' = Registered(u) /\ Queued(u)' = Queued(u)
                          /\ Indices(u)' = Indices(u)
    BY <1>1 DEF Registered, Queued, Queue, Indices, ChanOf, DirOf
  <1>4. \A e \in Chan : ChanInv(e)'
    BY <1>1, <1>3, QuietChan
  <1>5. ASSUME NEW u \in Thread
        PROVE  ThreadInv(u)'
    <2>1. ThreadInv(u)
      BY DEF IInv
    <2>2. \A i : Missed(u, i)' = Missed(u, i) /\ Over(u, i)' = Over(u, i) /\ ChanOf(u, i)' = ChanOf(u, i)
      BY <1>1 DEF Missed, Over, ChanOf, DirOf
    <2>3. CallOf(u)' /\ RanOf(u)' /\ PassOf(u)' /\ LeaveOf(u)' /\ StatusOf(u)' /\ UsedOf(u)'
      BY <1>1, <1>3, <2>1, <2>2 DEF ThreadInv, CallOf, RanOf, PassOf, LeaveOf, StatusOf, UsedOf
    <2>4. LockedOf(u)'
      BY <1>1, <1>3, <2>1, <2>2 DEF ThreadInv, LockedOf
    <2>5. WaitOf(u)' /\ CountOf(u)'
      BY <1>1, <1>3, <2>1, <2>2 DEF ThreadInv, WaitOf, CountOf
    <2>. QED
      BY <2>3, <2>4, <2>5 DEF ThreadInv
  <1>. QED
    BY <1>2, <1>4, <1>5 DEF IInv

LEMMA EndWaitKeeps ==
    ASSUME IInv, NEW t \in Thread, pc[t] = "wait", EndWait(t),
           UNCHANGED <<chanVars, mutex, ops, wait, matched, openOps, calls, history>>
    PROVE  IInv'
  <1>1. TypeOK /\ ThreadInv(t)
    BY DEF IInv
  <1>2. /\ open' = open /\ buffer' = buffer /\ pops' = pops /\ pushes' = pushes /\ mutex' = mutex
        /\ ops' = ops /\ wait' = wait /\ matched' = matched /\ openOps' = openOps /\ calls' = calls
        /\ ran' = ran /\ last' = last /\ used' = used /\ cleared' = cleared
    BY DEF chanVars, history
  <1>3. PICK s : s = Outcome(t)
    OBVIOUS
  <1>4. /\ status' = [status EXCEPT ![t] = s] /\ asleep' = asleep \ {t}
        /\ pc' = [pc EXCEPT ![t] = "leave"] /\ todo' = [todo EXCEPT ![t] = Indices(t)]
    BY <1>3 DEF EndWait, Goto
  <1>5. Indices(t) \in SUBSET Nat /\ IsFiniteSet(Indices(t))
        /\ \A i \in Indices(t) : ChanOf(t, i) \in Chan
    <2>1. Len(ops[t]) \in Nat /\ Indices(t) = 1..Len(ops[t])
      BY <1>1, OpTypes
    <2>2. Indices(t) \in SUBSET Nat
      BY <2>1
    <2>. QED
      BY <1>1, <2>2, OpTypes
  <1>6. s \in {"success", "unavailable", "closed"}
    BY <1>3 DEF Outcome
  <1>7. pc'[t] = "leave" /\ todo'[t] = Indices(t) /\ status'[t] = s
    BY <1>1, <1>4 DEF TypeOK
  <1>8. TypeOK'
    BY <1>1, <1>2, <1>4, <1>5, <1>6 DEF TypeOK
  <1>9. \A u \in Thread \ {t} : pc'[u] = pc[u] /\ todo'[u] = todo[u] /\ status'[u] = status[u]
    BY <1>1, <1>4 DEF TypeOK
  <1>10. \A u \in Thread : Indices(u)' = Indices(u) /\ Queued(u)' = Queued(u)
                           /\ Registered(u)' = Registered(u)
    <2>1. \A u \in Thread : Indices(u)' = Indices(u) /\ Queued(u)' = Queued(u)
      BY <1>2 DEF Queued, Queue, Indices, ChanOf, DirOf
    <2>2. Registered(t) = Indices(t) /\ Registered(t)' = Indices(t)
      BY <1>7 DEF Registered
    <2>3. \A u \in Thread \ {t} : Registered(u)' = Registered(u)
      BY <1>9, <2>1 DEF Registered
    <2>. QED
      BY <2>1, <2>2, <2>3
  <1>11. \A e \in Chan : ChanInv(e)'
    BY <1>2, <1>10, QuietChan
  <1>12. ASSUME NEW u \in Thread, u # t
         PROVE  ThreadInv(u)'
    <2>1. Spares(u)
      BY <1>2, <1>9, <1>12, QuietSpares
    <2>. QED
      BY <1>8, <2>1, Spared
  <1>13. \A i : Over(t, i)' = Over(t, i) /\ ChanOf(t, i)' = ChanOf(t, i)
    BY <1>2 DEF Over, ChanOf, DirOf
  <1>14. LeaveOf(t)'
    <2>1. s = "success" => matched[t]
      BY <1>3 DEF Outcome
    <2>2. ASSUME s = "closed"
          PROVE  ~matched[t] /\ \A i \in Indices(t) : Over(t, i)
      <3>1. ~matched[t] /\ openOps[t] = 0
        BY <1>3, <2>2 DEF Outcome
      <3>2. IsFiniteSet(Queued(t))
        <4>1. Queued(t) \subseteq Indices(t)
          BY DEF Queued
        <4>. QED
          BY <1>5, <4>1, FS_Subset
      <3>3. Queued(t) = {}
        <4>1. Cardinality(Queued(t)) \in Nat /\ Cardinality(Queued(t)) <= 0
          BY <1>1, <3>1, <3>2, FS_CardinalityType DEF ThreadInv, CountOf
        <4>2. Cardinality(Queued(t)) = 0
          BY <4>1
        <4>. QED
          BY <3>2, <4>2, FS_EmptySet
      <3>4. \A i \in Indices(t) : ~open[ChanOf(t, i)]
        BY <1>1, <3>1, <3>3 DEF ThreadInv, WaitOf, Registered
      <3>. QED
        BY <1>1, <3>1, <3>4 DEF ThreadInv, WaitOf
    <2>. QED
      BY <1>2, <1>7, <1>10, <1>13, <2>1, <2>2 DEF LeaveOf
  <1>15. CallOf(t)'
    BY <1>1, <1>2, <1>7, <1>10 DEF ThreadInv, CallOf
  <1>16. RanOf(t)' /\ UsedOf(t)' /\ CountOf(t)' /\ LockedOf(t)' /\ PassOf(t)' /\ StatusOf(t)'
    BY <1>1, <1>2, <1>7, <1>10
       DEF ThreadInv, RanOf, UsedOf, CountOf, LockedOf, PassOf, StatusOf
  <1>17. WaitOf(t)'
    BY <1>1, <1>2, <1>7, <1>10, <1>13 DEF ThreadInv, WaitOf
  <1>18. ThreadInv(t)'
    BY <1>14, <1>15, <1>16, <1>17 DEF ThreadInv
  <1>. QED
    BY <1>8, <1>11, <1>12, <1>18 DEF IInv

-----------------------------------------------------------------------------
(* An operation enlists.                                                   *)

\* Operation i of t joins its queue, if its channel is open.
Joins(t, i, c, d) ==
    /\ i \in todo[t] /\ i \in Indices(t) /\ c = ChanOf(t, i) /\ d = DirOf(t, i)
    /\ pops' = [pops EXCEPT ![c] = IF open[c] /\ d = "pop" THEN Append(@, Op(t, i)) ELSE @]
    /\ pushes' = [pushes EXCEPT ![c] = IF open[c] /\ d = "push" THEN Append(@, Op(t, i)) ELSE @]

LEMMA JoinsQueues ==
    ASSUME IInv, NEW t \in Thread, NEW i, NEW c \in Chan, NEW d \in Dir, Joins(t, i, c, d),
           pc[t] = "enlist", NEW e \in Chan, NEW x \in Dir
    PROVE  /\ Queue(e, x)' \in Seq(Waiting) /\ NoDup(Queue(e, x)')
           /\ \A w : In(Queue(e, x)', w)
                        <=> In(Queue(e, x), w) \/ (w = Op(t, i) /\ e = c /\ x = d /\ open[c])
           /\ \A u : By(Queue(e, x)', u)
                        <=> By(Queue(e, x), u) \/ (u = t /\ e = c /\ x = d /\ open[c])
  <1>1. TypeOK /\ NoDup(Queue(e, x)) /\ Queue(e, x) \in Seq(Waiting)
    BY QueueTypes DEF IInv, ChanInv
  <1>2. Op(t, i) \in Waiting
    <2>1. i \in Nat
      BY <1>1 DEF Joins, TypeOK
    <2>. QED
      BY <2>1 DEF Op, Waiting
  <1>3. CASE e = c /\ x = d /\ open[c]
    <2>1. Queue(e, x)' = Append(Queue(e, x), Op(t, i))
      BY <1>1, <1>3 DEF Joins, Queue, Dir, TypeOK
    <2>2. ~In(Queue(e, x), Op(t, i))
      <3>1. i \notin Queued(t)
        BY QueuedRegistered DEF Registered, Joins
      <3>. QED
        BY <1>3, <3>1 DEF Queued, Joins
    <2>3. PICK q : q = Queue(e, x)
      OBVIOUS
    <2>4. PICK p : p = Queue(e, x)'
      OBVIOUS
    <2>5. q \in Seq(Waiting) /\ NoDup(q) /\ ~In(q, Op(t, i)) /\ p = Append(q, Op(t, i))
      BY <1>1, <2>1, <2>2, <2>3, <2>4
    <2>6. /\ p \in Seq(Waiting) /\ NoDup(p)
          /\ \A w : In(p, w) <=> In(q, w) \/ w = Op(t, i)
          /\ \A u : By(p, u) <=> By(q, u) \/ Op(t, i).by = u
      BY <1>2, <2>5, AppendIn
    <2>7. Op(t, i).by = t
      BY DEF Op
    <2>. QED
      BY <1>3, <2>3, <2>4, <2>6, <2>7
  <1>4. CASE ~(e = c /\ x = d /\ open[c])
    <2>1. Queue(e, x)' = Queue(e, x)
      BY <1>1, <1>4 DEF Joins, Queue, Dir, TypeOK
    <2>. QED
      BY <1>1, <1>4, <2>1
  <1>. QED
    BY <1>3, <1>4

\* Whoever waits in a channel where t has a failed operation, waits so that t may
\* join the queue of that operation.
LEMMA JoinsChan ==
    ASSUME IInv, NEW t \in Thread, NEW i, NEW c \in Chan, NEW d \in Dir, Joins(t, i, c, d),
           pc[t] = "enlist", UNCHANGED <<open, buffer, matched, cleared, ops>>,
           Registered(t)' = Registered(t) \cup {i},
           \A u \in Thread \ {t} : Registered(u)' = Registered(u)
    PROVE  \A e \in Chan : ChanInv(e)'
  <1>1. SUFFICES ASSUME NEW e \in Chan PROVE ChanInv(e)'
    OBVIOUS
  <1>2. TypeOK /\ ChanInv(e) /\ Missed(t, i) /\ ops[t][i] = [chan |-> c, dir |-> d]
    BY OpTypes DEF IInv, ThreadInv, LockedOf, Joins
  <1>3. /\ \A x \in Dir : Queue(e, x)' \in Seq(Waiting) /\ NoDup(Queue(e, x)')
        /\ \A x \in Dir : \A w : In(Queue(e, x)', w)
              <=> In(Queue(e, x), w) \/ (w = Op(t, i) /\ e = c /\ x = d /\ open[c])
        /\ \A x \in Dir : \A u : By(Queue(e, x)', u)
              <=> By(Queue(e, x), u) \/ (u = t /\ e = c /\ x = d /\ open[c])
    BY JoinsQueues
  <1>4. ASSUME NEW x \in Dir, NEW k \in DOMAIN Queue(e, x)'
        PROVE  Entry(Queue(e, x)[k], e, x)'
    <2>1. PICK w : w = Queue(e, x)'[k]
      OBVIOUS
    <2>2. In(Queue(e, x)', w)
      BY <2>1 DEF In
    <2>3. CASE In(Queue(e, x), w)
      <3>1. PICK j \in DOMAIN Queue(e, x) : Queue(e, x)[j] = w
        BY <2>3 DEF In
      <3>2. Entry(w, e, x) /\ w.by \in Thread
        BY <1>2, <3>1, QueueTypes DEF ChanInv, Waiting
      <3>3. w.op \in Registered(w.by)'
        BY <3>2 DEF Entry
      <3>. QED
        BY <2>1, <3>2, <3>3 DEF Entry
    <2>4. CASE w = Op(t, i) /\ e = c /\ x = d
      <3>1. w.by = t /\ w.op = i /\ i \in Registered(t)'
        BY <2>4 DEF Op
      <3>. QED
        BY <1>2, <2>1, <2>4, <3>1 DEF Entry
    <2>. QED
      BY <1>3, <2>2, <2>3, <2>4
  <1>5. /\ \A u : By(pops'[e], u) <=> By(pops[e], u) \/ (u = t /\ e = c /\ d = "pop" /\ open[c])
        /\ \A u : By(pushes'[e], u) <=> By(pushes[e], u) \/ (u = t /\ e = c /\ d = "push" /\ open[c])
    <2>1. "pop" \in Dir /\ "push" \in Dir
      BY DEF Dir
    <2>2. /\ \A u : By(Queue(e, "pop")', u) <=> By(Queue(e, "pop"), u) \/ (u = t /\ e = c /\ "pop" = d /\ open[c])
          /\ \A u : By(Queue(e, "push")', u) <=> By(Queue(e, "push"), u) \/ (u = t /\ e = c /\ "push" = d /\ open[c])
      BY <1>3, <2>1
    <2>. QED
      BY <2>2 DEF Queue
  <1>6. ~open[e] => pops'[e] = <<>> /\ pushes'[e] = <<>>
    BY <1>2 DEF ChanInv, Joins, TypeOK
  <1>7. /\ d = "pop" => /\ buffer[c] = <<>>
                        /\ open[c] => \A v \in Thread : By(pushes[c], v) /\ ~matched[v] => v = t
        /\ d = "push" => (open[c] => /\ Len(buffer[c]) >= Cap[c]
                                     /\ \A v \in Thread : By(pops[c], v) /\ ~matched[v] => v = t)
    BY <1>2 DEF Missed, Joins
  <1>8. ASSUME NEW u \in Thread, open[e], By(pops'[e], u), ~matched[u]
        PROVE  buffer[e] = <<>>
    BY <1>2, <1>5, <1>7, <1>8 DEF ChanInv
  <1>9. ASSUME NEW u \in Thread, open[e], By(pops'[e], u), ~matched[u],
               NEW v \in Thread, By(pushes'[e], v), ~matched[v]
        PROVE  v = u
    <2>1. CASE By(pops[e], u) /\ By(pushes[e], v)
      BY <1>2, <1>9, <2>1 DEF ChanInv
    <2>2. CASE u = t /\ e = c /\ d = "pop"
      <3>1. By(pushes[e], v)
        BY <1>5, <1>9, <2>2
      <3>. QED
        BY <1>7, <1>9, <2>2, <3>1
    <2>3. CASE v = t /\ e = c /\ d = "push"
      <3>1. By(pops[e], u)
        BY <1>5, <1>9, <2>3
      <3>. QED
        BY <1>7, <1>9, <2>3, <3>1
    <2>. QED
      BY <1>5, <1>9, <2>1, <2>2, <2>3
  <1>10. ASSUME NEW u \in Thread, open[e], By(pushes'[e], u), ~matched[u]
         PROVE  Len(buffer[e]) >= Cap[e] \/ e \in cleared
    BY <1>2, <1>5, <1>7, <1>10 DEF ChanInv
  <1>. QED
    BY <1>3, <1>4, <1>6, <1>8, <1>9, <1>10 DEF ChanInv

LEMMA EnlistKeeps ==
    ASSUME IInv, NEW t \in Thread, Enlist(t)
    PROVE  IInv'
  <1>1. TypeOK /\ ThreadInv(t) /\ CallOf(t) /\ LockedOf(t) /\ RanOf(t) /\ pc[t] = "enlist"
    BY DEF IInv, ThreadInv, Enlist
  <1>2. PICK i : i = Min(todo[t])
    OBVIOUS
  <1>3. i \in todo[t] /\ i \in Indices(t) /\ todo[t] \in SUBSET Nat /\ todo[t] \subseteq Indices(t)
        /\ IsFiniteSet(Indices(t))
    <2>1. todo[t] \in SUBSET Nat /\ todo[t] # {} /\ todo[t] \subseteq Indices(t)
      BY <1>1 DEF CallOf, TypeOK
    <2>. QED
      BY <1>1, <1>2, <2>1, MinProperties, OpTypes
  <1>4. PICK c \in Chan, d \in Dir : c = ChanOf(t, i) /\ d = DirOf(t, i)
    BY <1>1, <1>3, OpTypes
  <1>5. Joins(t, i, c, d)
    BY <1>2, <1>3, <1>4 DEF Enlist, Joins, Op
  <1>6. /\ openOps' = [openOps EXCEPT ![t] = IF open[c] THEN @ + 1 ELSE @]
        /\ UNCHANGED <<open, buffer, status, ops, wait, matched, asleep, calls>>
        /\ UNCHANGED <<ran, last, used, cleared>>
    BY <1>2, <1>4 DEF Enlist, history
  <1>7. \/ /\ pc' = [pc EXCEPT ![t] = "wait"] /\ todo' = [todo EXCEPT ![t] = {}]
           /\ todo[t] = {i} /\ mutex' = Unlocked(t)
        \/ /\ pc' = [pc EXCEPT ![t] = "enlist"] /\ todo' = [todo EXCEPT ![t] = todo[t] \ {i}]
           /\ todo[t] # {i} /\ mutex' = mutex
    BY <1>2 DEF Enlist, Goto
  <1>8. Alone(t)
    <2>1. todo[t] \ {i} \in SUBSET Nat /\ {} \in SUBSET Nat
      BY <1>3
    <2>2. status[t] \in {"success", "unavailable", "closed"}
          /\ status' = [status EXCEPT ![t] = status[t]]
      BY <1>1, <1>6 DEF TypeOK
    <2>3. \E l \in {"idle", "pass", "lock", "enlist", "wait", "leave"}, S \in SUBSET Nat :
             pc' = [pc EXCEPT ![t] = l] /\ todo' = [todo EXCEPT ![t] = S]
      BY <1>7, <2>1
    <2>. QED
      BY <1>1, <1>7, <2>2, <2>3, UnlockedKeeps DEF Alone
  <1>9. /\ \A e \in Chan, x \in Dir : Queue(e, x)' \in Seq(Waiting)
        /\ \A e \in Chan, x \in Dir : \A w : In(Queue(e, x)', w)
              <=> In(Queue(e, x), w) \/ (w = Op(t, i) /\ e = c /\ x = d /\ open[c])
    BY <1>1, <1>5, JoinsQueues
  <1>10. TypeOK'
    <2>1. pops' \in [Chan -> Seq(Waiting)] /\ pushes' \in [Chan -> Seq(Waiting)]
      <3>1. \A e \in Chan : pops'[e] \in Seq(Waiting) /\ pushes'[e] \in Seq(Waiting)
        BY <1>9 DEF Dir, Queue
      <3>2. pops' = [e \in Chan |-> pops'[e]] /\ pushes' = [e \in Chan |-> pushes'[e]]
        BY <1>1, <1>5 DEF Joins, TypeOK
      <3>. QED
        BY <3>1, <3>2
    <2>2. openOps' \in [Thread -> Nat]
      BY <1>1, <1>6 DEF TypeOK
    <2>. QED
      BY <1>1, <1>6, <1>8, <2>1, <2>2, AloneTypes DEF TypeOK
  <1>11. \/ pc'[t] = "wait" /\ todo'[t] = {} /\ todo[t] = {i}
         \/ pc'[t] = "enlist" /\ todo'[t] = todo[t] \ {i} /\ todo[t] # {i} /\ mutex' = mutex
    BY <1>1, <1>7 DEF TypeOK
  <1>12. /\ \A u \in Thread : Indices(u)' = Indices(u)
         /\ \A u \in Thread : \A j : ChanOf(u, j)' = ChanOf(u, j) /\ DirOf(u, j)' = DirOf(u, j)
    BY <1>6 DEF Indices, ChanOf, DirOf
  <1>13. Registered(t)' = Registered(t) \cup {i}
    BY <1>1, <1>3, <1>11, <1>12 DEF Registered
  <1>14. \A u \in Thread \ {t} : /\ pc'[u] = pc[u] /\ todo'[u] = todo[u] /\ openOps'[u] = openOps[u]
                                 /\ Registered(u)' = Registered(u)
    BY <1>1, <1>6, <1>8, <1>12, AloneTypes DEF TypeOK, Registered
  <1>15. \A e \in Chan : ChanInv(e)'
    BY <1>1, <1>5, <1>6, <1>13, <1>14, JoinsChan
  <1>16. \A u \in Thread \ {t} : Queued(u)' = Queued(u)
    <2>1. SUFFICES ASSUME NEW u \in Thread \ {t}, NEW j \in Indices(u)
                   PROVE  j \in Queued(u)' <=> j \in Queued(u)
      BY <1>12 DEF Queued
    <2>2. PICK e \in Chan, x \in Dir : e = ChanOf(u, j) /\ x = DirOf(u, j)
      BY <1>1, OpTypes
    <2>3. In(Queue(e, x)', Op(u, j)) <=> In(Queue(e, x), Op(u, j))
      BY <1>9 DEF Op
    <2>. QED
      BY <1>12, <2>2, <2>3 DEF Queued
  <1>17. \A j \in Indices(t) : j \in Queued(t)' <=> j \in Queued(t) \/ (j = i /\ open[c])
    <2>1. SUFFICES ASSUME NEW j \in Indices(t)
                   PROVE  j \in Queued(t)' <=> j \in Queued(t) \/ (j = i /\ open[c])
      OBVIOUS
    <2>2. PICK e \in Chan, x \in Dir : e = ChanOf(t, j) /\ x = DirOf(t, j)
      BY <1>1, OpTypes
    <2>3. In(Queue(e, x)', Op(t, j)) <=> In(Queue(e, x), Op(t, j)) \/ (j = i /\ e = c /\ x = d /\ open[c])
      BY <1>9 DEF Op
    <2>. QED
      BY <1>4, <1>12, <2>2, <2>3 DEF Queued
  <1>18. ASSUME NEW u \in Thread, u # t
         PROVE  ThreadInv(u)'
    <2>1. mutex[c] # u
      BY <1>1, <1>3, <1>4, <1>18 DEF LockedOf
    <2>2. \A e \in Chan \ {c} : pops'[e] = pops[e] /\ pushes'[e] = pushes[e]
      BY <1>1, <1>5 DEF Joins, TypeOK
    <2>3. \A e \in Chan : mutex[e] = u =>
            /\ mutex'[e] = u /\ open'[e] = open[e] /\ buffer'[e] = buffer[e]
            /\ \A v \in Thread : ~matched'[v] => /\ By(pops'[e], v) => By(pops[e], v) /\ ~matched[v]
                                                 /\ By(pushes'[e], v) => By(pushes[e], v) /\ ~matched[v]
      BY <1>6, <1>8, <1>18, <2>1, <2>2 DEF Alone
    <2>4. \A j \in Indices(u) :
            /\ j \in Queued(u)' => j \in Queued(u)
            /\ j \in Queued(u) /\ ~matched'[u] =>
                  IF open'[ChanOf(u, j)] THEN j \in Queued(u)'
                  ELSE DirOf(u, j) = "pop" => buffer'[ChanOf(u, j)] = <<>>
      BY <1>6, <1>16, <1>18, QueuedRegistered
    <2>5. Spares(u)
      BY <1>6, <1>14, <1>18, <2>3, <2>4 DEF Spares
    <2>. QED
      BY <1>10, <2>5, Spared
  <1>19. \A j \in Indices(t) : mutex[ChanOf(t, j)] = t /\ Missed(t, j)
    BY <1>1 DEF LockedOf
  <1>20. CallOf(t)'
    BY <1>1, <1>3, <1>6, <1>11, <1>12 DEF CallOf
  <1>21. RanOf(t)'
    BY <1>1, <1>6, <1>11 DEF RanOf
  <1>22. LockedOf(t)'
    <2>1. SUFFICES ASSUME NEW j \in Indices(t), pc'[t] = "enlist"
                   PROVE  mutex'[ChanOf(t, j)] = t /\ Missed(t, j)'
      BY <1>11, <1>12 DEF LockedOf
    <2>2. PICK e \in Chan : e = ChanOf(t, j)
      BY <1>1, OpTypes
    <2>3. \A v \in Thread : (By(pops'[e], v) => By(pops[e], v) \/ v = t)
                            /\ (By(pushes'[e], v) => By(pushes[e], v) \/ v = t)
      <3>1. \A x \in Dir : \A v : By(Queue(e, x)', v) => By(Queue(e, x), v) \/ v = t
        BY <1>1, <1>5, JoinsQueues
      <3>. QED
        BY <3>1 DEF Dir, Queue
    <2>4. Missed(t, j) /\ mutex[e] = t
      BY <1>19, <2>2
    <2>5. Missed(t, j)'
      BY <1>6, <1>12, <2>2, <2>3, <2>4 DEF Missed
    <2>. QED
      BY <1>11, <2>1, <2>2, <2>4, <2>5
  <1>23. PassOf(t)' /\ LeaveOf(t)' /\ StatusOf(t)'
    BY <1>11 DEF PassOf, LeaveOf, StatusOf
  <1>24. WaitOf(t)'
    <2>1. ~matched[t] /\ \A j \in Registered(t) : open[ChanOf(t, j)] => j \in Queued(t)
      BY <1>1 DEF RanOf, ThreadInv, WaitOf
    <2>2. Registered(t) \subseteq Indices(t)
      BY <1>1 DEF Registered
    <2>3. \A j \in Registered(t)' : open[ChanOf(t, j)] => j \in Queued(t)'
      BY <1>3, <1>4, <1>13, <1>17, <2>1, <2>2
    <2>4. \A j \in Indices(t) : open[ChanOf(t, j)] \/ Over(t, j)'
      BY <1>6, <1>12, <1>19 DEF Missed, Over
    <2>. QED
      BY <1>6, <1>12, <2>3, <2>4 DEF WaitOf
  <1>25. CountOf(t)'
    <2>1. Queued(t) \subseteq Indices(t) /\ Queued(t)' \subseteq Indices(t)
      BY <1>12 DEF Queued
    <2>2. IsFiniteSet(Queued(t)) /\ Cardinality(Queued(t)) \in Nat /\ openOps[t] \in Nat
          /\ Cardinality(Queued(t)) <= openOps[t]
      BY <1>1, <1>3, <2>1, FS_Subset, FS_CardinalityType DEF TypeOK, ThreadInv, CountOf
    <2>3. CASE open[c]
      <3>1. Queued(t)' = Queued(t) \cup {i}
        BY <1>3, <1>17, <2>1, <2>3
      <3>2. Cardinality(Queued(t)') = Cardinality(Queued(t))
            \/ Cardinality(Queued(t)') = Cardinality(Queued(t)) + 1
        BY <2>2, <3>1, FS_AddElement
      <3>3. openOps'[t] = openOps[t] + 1
        BY <1>1, <1>6, <2>3 DEF TypeOK
      <3>. QED
        BY <2>2, <3>2, <3>3 DEF CountOf
    <2>4. CASE ~open[c]
      <3>1. Queued(t)' = Queued(t)
        BY <1>17, <2>1, <2>4
      <3>2. openOps'[t] = openOps[t]
        BY <1>1, <1>6, <2>4 DEF TypeOK
      <3>. QED
        BY <2>2, <3>1, <3>2 DEF CountOf
    <2>. QED
      BY <2>3, <2>4
  <1>26. UsedOf(t)'
    BY <1>1, <1>6 DEF ThreadInv, UsedOf
  <1>27. ThreadInv(t)'
    BY <1>20, <1>21, <1>22, <1>23, <1>24, <1>25, <1>26 DEF ThreadInv
  <1>. QED
    BY <1>10, <1>15, <1>18, <1>27 DEF IInv

-----------------------------------------------------------------------------
(* An operation is taken back.                                             *)

LEMMA LeaveQueues ==
    ASSUME IInv, NEW t \in Thread, NEW i, NEW c \in Chan,
           pops' = [pops EXCEPT ![c] = Without(@, Op(t, i))],
           pushes' = [pushes EXCEPT ![c] = Without(@, Op(t, i))],
           NEW e \in Chan, NEW x \in Dir
    PROVE  /\ Queue(e, x)' \in Seq(Waiting) /\ NoDup(Queue(e, x)')
           /\ \A w : In(Queue(e, x)', w) <=> In(Queue(e, x), w) /\ ~(w = Op(t, i) /\ e = c)
           /\ \A u : By(Queue(e, x)', u) => By(Queue(e, x), u)
  <1>1. TypeOK /\ NoDup(Queue(e, x)) /\ Queue(e, x) \in Seq(Waiting)
    BY QueueTypes DEF IInv, ChanInv
  <1>2. PICK q : q = Queue(e, x)
    OBVIOUS
  <1>3. PICK p : p = Queue(e, x)'
    OBVIOUS
  <1>4. p \in Seq(Waiting) /\ NoDup(p) /\ \A w : In(p, w) <=> In(q, w) /\ ~(w = Op(t, i) /\ e = c)
    <2>1. CASE e = c
      <3>1. p = Without(q, Op(t, i))
        BY <1>1, <1>2, <1>3, <2>1 DEF Queue, Dir, TypeOK
      <3>. QED
        BY <1>1, <1>2, <2>1, <3>1, WithoutIn
    <2>2. CASE e # c
      <3>1. p = q
        BY <1>1, <1>2, <1>3, <2>2 DEF Queue, Dir, TypeOK
      <3>. QED
        BY <1>1, <1>2, <2>2, <3>1
    <2>. QED
      BY <2>1, <2>2
  <1>5. \A u : By(p, u) => By(q, u)
    BY <1>4 DEF By, In
  <1>. QED
    BY <1>2, <1>3, <1>4, <1>5

LEMMA LeaveKeeps ==
    ASSUME IInv, NEW t \in Thread, Leave(t)
    PROVE  IInv'
  <1>1. TypeOK /\ ThreadInv(t) /\ CallOf(t) /\ RanOf(t) /\ LeaveOf(t) /\ pc[t] = "leave"
    BY DEF IInv, ThreadInv, Leave
  <1>2. PICK i : i = Min(todo[t])
    OBVIOUS
  <1>3. i \in todo[t] /\ i \in Indices(t) /\ todo[t] \in SUBSET Nat /\ todo[t] \subseteq Indices(t)
        /\ IsFiniteSet(Indices(t))
    <2>1. todo[t] \in SUBSET Nat /\ todo[t] # {} /\ todo[t] \subseteq Indices(t)
      BY <1>1 DEF CallOf, TypeOK
    <2>. QED
      BY <1>1, <1>2, <2>1, MinProperties, OpTypes
  <1>4. PICK c \in Chan : c = ChanOf(t, i)
    BY <1>1, <1>3, OpTypes
  <1>5. PICK l : l = IF todo[t] = {i} THEN "idle" ELSE "leave"
    OBVIOUS
  <1>6. /\ pops' = [pops EXCEPT ![c] = Without(@, Op(t, i))]
        /\ pushes' = [pushes EXCEPT ![c] = Without(@, Op(t, i))]
        /\ pc' = [pc EXCEPT ![t] = l] /\ todo' = [todo EXCEPT ![t] = todo[t] \ {i}]
        /\ Free(t, c)
        /\ UNCHANGED <<open, buffer, mutex, status, ops, wait, matched, openOps, asleep, calls>>
        /\ UNCHANGED <<ran, last, used, cleared>>
    BY <1>2, <1>4, <1>5 DEF Leave, Goto, Op, history
  <1>7. /\ \A e \in Chan, x \in Dir : Queue(e, x)' \in Seq(Waiting) /\ NoDup(Queue(e, x)')
        /\ \A e \in Chan, x \in Dir : \A w :
              In(Queue(e, x)', w) <=> In(Queue(e, x), w) /\ ~(w = Op(t, i) /\ e = c)
        /\ \A e \in Chan, x \in Dir : \A u : By(Queue(e, x)', u) => By(Queue(e, x), u)
    BY <1>6, LeaveQueues
  <1>8. pc'[t] = l /\ todo'[t] = todo[t] \ {i} /\ l \in {"idle", "leave"}
        /\ (l = "idle" <=> todo'[t] = {})
    BY <1>1, <1>3, <1>5, <1>6 DEF TypeOK
  <1>9. TypeOK'
    <2>1. pops' \in [Chan -> Seq(Waiting)] /\ pushes' \in [Chan -> Seq(Waiting)]
      <3>1. \A e \in Chan : pops'[e] \in Seq(Waiting) /\ pushes'[e] \in Seq(Waiting)
        BY <1>7 DEF Dir, Queue
      <3>2. pops' = [e \in Chan |-> pops'[e]] /\ pushes' = [e \in Chan |-> pushes'[e]]
        BY <1>1, <1>6 DEF TypeOK
      <3>. QED
        BY <3>1, <3>2
    <2>2. pc' \in [Thread -> {"idle", "pass", "lock", "enlist", "wait", "leave"}]
          /\ todo' \in [Thread -> SUBSET Nat]
      BY <1>1, <1>5, <1>6 DEF TypeOK
    <2>. QED
      BY <1>1, <1>6, <2>1, <2>2 DEF TypeOK
  <1>10. /\ \A u \in Thread : Indices(u)' = Indices(u)
         /\ \A u \in Thread : \A j : ChanOf(u, j)' = ChanOf(u, j) /\ DirOf(u, j)' = DirOf(u, j)
    BY <1>6 DEF Indices, ChanOf, DirOf
  <1>11. Registered(t)' = Registered(t) \ {i}
    BY <1>1, <1>8 DEF Registered
  <1>12. \A u \in Thread \ {t} : pc'[u] = pc[u] /\ todo'[u] = todo[u] /\ Registered(u)' = Registered(u)
    BY <1>1, <1>6, <1>10 DEF TypeOK, Registered
  <1>13. \A u \in Thread : \A j \in Indices(u) :
            j \in Queued(u)' <=> j \in Queued(u) /\ ~(u = t /\ j = i)
    <2>1. SUFFICES ASSUME NEW u \in Thread, NEW j \in Indices(u)
                   PROVE  j \in Queued(u)' <=> j \in Queued(u) /\ ~(u = t /\ j = i)
      OBVIOUS
    <2>2. PICK e \in Chan, x \in Dir : e = ChanOf(u, j) /\ x = DirOf(u, j)
      BY <1>1, OpTypes
    <2>3. In(Queue(e, x)', Op(u, j)) <=> In(Queue(e, x), Op(u, j)) /\ ~(u = t /\ j = i /\ e = c)
      BY <1>7 DEF Op
    <2>. QED
      BY <1>4, <1>10, <2>2, <2>3 DEF Queued
  <1>14. ASSUME NEW e \in Chan
         PROVE  ChanInv(e)'
    <2>1. ChanInv(e)
      BY DEF IInv
    <2>2. ASSUME NEW x \in Dir, NEW k \in DOMAIN Queue(e, x)'
          PROVE  Entry(Queue(e, x)[k], e, x)'
      <3>1. PICK w : w = Queue(e, x)'[k]
        OBVIOUS
      <3>2. In(Queue(e, x), w) /\ ~(w = Op(t, i) /\ e = c)
        <4>1. In(Queue(e, x)', w)
          BY <3>1 DEF In
        <4>. QED
          BY <1>7, <4>1
      <3>3. PICK j \in DOMAIN Queue(e, x) : Queue(e, x)[j] = w
        BY <3>2 DEF In
      <3>4. Entry(w, e, x) /\ w \in Waiting
        BY <1>1, <2>1, <3>3, QueueTypes DEF ChanInv
      <3>5. w.by \in Thread /\ w = Op(w.by, w.op)
        BY <3>4 DEF Waiting, Op
      <3>6. w.op \in Registered(w.by)'
        <4>1. CASE w.by # t
          BY <1>12, <3>4, <3>5, <4>1 DEF Entry
        <4>2. CASE w.by = t
          <5>1. w.op # i
            BY <1>4, <3>2, <3>4, <3>5, <4>2 DEF Entry, ChanOf
          <5>. QED
            BY <1>11, <3>4, <4>2, <5>1 DEF Entry
        <4>. QED
          BY <4>1, <4>2
      <3>. QED
        BY <1>6, <3>1, <3>4, <3>6 DEF Entry
    <2>3. /\ \A u : By(pops'[e], u) => By(pops[e], u)
          /\ \A u : By(pushes'[e], u) => By(pushes[e], u)
      BY <1>7 DEF Dir, Queue
    <2>4. ~open[e] => pops'[e] = <<>> /\ pushes'[e] = <<>>
      <3>1. \A w : Without(<<>>, w) = <<>>
        BY DEF Without
      <3>. QED
        BY <1>1, <1>6, <2>1, <3>1 DEF ChanInv, TypeOK
    <2>. QED
      BY <1>6, <1>7, <2>1, <2>2, <2>3, <2>4 DEF ChanInv
  <1>15. ASSUME NEW u \in Thread, u # t
         PROVE  ThreadInv(u)'
    <2>1. mutex[c] # u
      BY <1>6, <1>15, CopperAssumption DEF Free
    <2>2. \A e \in Chan \ {c} : pops'[e] = pops[e] /\ pushes'[e] = pushes[e]
      BY <1>1, <1>6 DEF TypeOK
    <2>3. \A e \in Chan : mutex[e] = u =>
            /\ mutex'[e] = u /\ open'[e] = open[e] /\ buffer'[e] = buffer[e]
            /\ \A v \in Thread : ~matched'[v] => /\ By(pops'[e], v) => By(pops[e], v) /\ ~matched[v]
                                                 /\ By(pushes'[e], v) => By(pushes[e], v) /\ ~matched[v]
      BY <1>6, <2>1, <2>2
    <2>4. \A j \in Indices(u) :
            /\ j \in Queued(u)' => j \in Queued(u)
            /\ j \in Queued(u) /\ ~matched'[u] =>
                  IF open'[ChanOf(u, j)] THEN j \in Queued(u)'
                  ELSE DirOf(u, j) = "pop" => buffer'[ChanOf(u, j)] = <<>>
      BY <1>6, <1>13, <1>15, QueuedRegistered
    <2>5. Spares(u)
      BY <1>6, <1>12, <1>15, <2>3, <2>4 DEF Spares
    <2>. QED
      BY <1>9, <2>5, Spared
  <1>16. \A j : Over(t, j)' = Over(t, j)
    BY <1>6, <1>10 DEF Over
  <1>17. CallOf(t)'
    <2>1. todo'[t] \subseteq Indices(t) /\ (pc'[t] = "leave" => todo'[t] # {})
      BY <1>3, <1>8
    <2>. QED
      BY <1>1, <1>6, <1>8, <1>10, <2>1 DEF CallOf
  <1>18. RanOf(t)' /\ LockedOf(t)' /\ PassOf(t)' /\ UsedOf(t)'
    BY <1>1, <1>6, <1>8 DEF ThreadInv, RanOf, LockedOf, PassOf, UsedOf
  <1>19. WaitOf(t)'
    <2>1. SUFFICES ASSUME ~matched[t], NEW j \in Registered(t)', open[ChanOf(t, j)]
                   PROVE  j \in Queued(t)'
      BY <1>6, <1>8, <1>10 DEF WaitOf
    <2>2. j \in Registered(t) /\ j # i /\ j \in Indices(t)
      BY <1>1, <1>3, <1>11, <2>1 DEF Registered
    <2>3. j \in Queued(t)
      BY <1>1, <2>1, <2>2 DEF ThreadInv, WaitOf
    <2>. QED
      BY <1>13, <2>2, <2>3
  <1>20. CountOf(t)'
    <2>1. Queued(t) \subseteq Indices(t) /\ Queued(t)' \subseteq Queued(t)
      BY <1>10, <1>13 DEF Queued
    <2>2. IsFiniteSet(Queued(t)) /\ Cardinality(Queued(t)) \in Nat /\ openOps[t] \in Nat
          /\ Cardinality(Queued(t)) <= openOps[t]
      BY <1>1, <1>3, <2>1, FS_Subset, FS_CardinalityType DEF TypeOK, ThreadInv, CountOf
    <2>3. IsFiniteSet(Queued(t)') /\ Cardinality(Queued(t)') <= Cardinality(Queued(t))
      BY <2>1, <2>2, FS_Subset
    <2>4. Cardinality(Queued(t)') \in Nat
      BY <2>3, FS_CardinalityType
    <2>. QED
      BY <1>6, <2>2, <2>3, <2>4 DEF CountOf
  <1>21. LeaveOf(t)'
    BY <1>1, <1>6, <1>10, <1>16 DEF LeaveOf
  <1>22. StatusOf(t)'
    <2>1. wait[t] # "none" /\ ran[t] = IF matched[t] THEN 1 ELSE 0
      BY <1>1 DEF CallOf, RanOf
    <2>. QED
      BY <1>1, <1>6, <1>10, <1>16, <2>1 DEF LeaveOf, StatusOf
  <1>23. ThreadInv(t)'
    BY <1>17, <1>18, <1>19, <1>20, <1>21, <1>22 DEF ThreadInv
  <1>. QED
    BY <1>9, <1>14, <1>15, <1>23 DEF IInv

-----------------------------------------------------------------------------
(* A channel is closed.                                                    *)

LEMMA EntriesCount ==
    ASSUME NEW q \in Seq(Waiting), NoDup(q), NEW u, NEW S, IsFiniteSet(S),
           \A k \in DOMAIN q : q[k].by = u => q[k].op \in S
    PROVE  /\ Cardinality({k \in DOMAIN q : q[k].by = u}) \in Nat
           /\ Cardinality({k \in DOMAIN q : q[k].by = u}) <= Cardinality(S)
  <1> DEFINE D == {k \in DOMAIN q : q[k].by = u}
             f == [k \in D |-> q[k].op]
  <1>1. \A k \in DOMAIN q : q[k] \in Waiting
    BY LenProperties
  <1>2. \A j, k \in D : q[j].op = q[k].op => j = k
    <2>1. SUFFICES ASSUME NEW j \in D, NEW k \in D, q[j].op = q[k].op
                   PROVE  j = k
      OBVIOUS
    <2>2. q[j] = Op(u, q[j].op) /\ q[k] = Op(u, q[k].op)
      BY <1>1 DEF Waiting, Op
    <2>3. q[j] = q[k]
      BY <2>1, <2>2, Zenon
    <2>. QED
      BY <2>3 DEF NoDup
  <1>3. f \in [D -> S] /\ \A j, k \in D : f[j] = f[k] => j = k
    BY <1>2
  <1>4. f \in Injection(D, S)
    BY <1>3, Zenon DEF Injection, IsInjective
  <1>5. IsFiniteSet(D) /\ Cardinality(D) <= Cardinality(S)
    BY <1>4, FS_Injection
  <1>. QED
    BY <1>5, FS_CardinalityType

\* The operations of u that wait in c, and those that wait elsewhere.
LEMMA EnrolledCount ==
    ASSUME IInv, NEW u \in Thread, NEW c \in Chan
    PROVE  LET E == {i \in Queued(u) : ChanOf(u, i) # c}
           IN  Enrolled(u, c) \in Nat /\ Cardinality(E) \in Nat
               /\ Cardinality(E) + Enrolled(u, c) <= Cardinality(Queued(u))
               /\ Cardinality(Queued(u)) \in Nat
  <1> DEFINE R(d) == {i \in Queued(u) : ChanOf(u, i) = c /\ DirOf(u, i) = d}
             E == {i \in Queued(u) : ChanOf(u, i) # c}
             N(d) == Cardinality({k \in DOMAIN Queue(c, d) : Queue(c, d)[k].by = u})
  <1>1. TypeOK /\ ThreadInv(u) /\ ChanInv(c)
    BY DEF IInv
  <1>2. IsFiniteSet(Queued(u))
    <2>1. Queued(u) \subseteq Indices(u) /\ IsFiniteSet(Indices(u))
      BY <1>1, OpTypes DEF Queued
    <2>. QED
      BY <2>1, FS_Subset
  <1>3. \A d \in Dir : IsFiniteSet(R(d))
    <2>1. \A d \in Dir : R(d) \in SUBSET Queued(u)
      OBVIOUS
    <2>. QED
      BY <1>2, <2>1, FS_Subset, Zenon
  <1>4. IsFiniteSet(E)
    <2>1. E \in SUBSET Queued(u)
      OBVIOUS
    <2>. QED
      BY <1>2, <2>1, FS_Subset, Zenon
  <1>5. ASSUME NEW d \in Dir
        PROVE  N(d) \in Nat /\ N(d) <= Cardinality(R(d))
    <2>1. PICK q : q = Queue(c, d)
      OBVIOUS
    <2>2. q \in Seq(Waiting) /\ NoDup(q)
      BY <1>1, <2>1, QueueTypes DEF ChanInv
    <2>3. \A k \in DOMAIN q : q[k].by = u => q[k].op \in R(d)
      <3>1. SUFFICES ASSUME NEW k \in DOMAIN q, q[k].by = u
                     PROVE  q[k].op \in R(d)
        OBVIOUS
      <3>2. PICK w : w = q[k]
        OBVIOUS
      <3>3. w \in Waiting /\ Entry(w, c, d) /\ w.by = u
        BY <1>1, <2>1, <3>1, <3>2, QueueTypes DEF ChanInv
      <3>4. w = Op(u, w.op) /\ w.op \in Registered(u) /\ ChanOf(u, w.op) = c /\ DirOf(u, w.op) = d
        BY <3>3 DEF Entry, Waiting, Op, ChanOf, DirOf
      <3>5. w.op \in Indices(u)
        BY <1>1, <3>4 DEF ThreadInv, CallOf, Registered
      <3>6. In(Queue(c, d), Op(u, w.op))
        BY <2>1, <3>1, <3>2, <3>4 DEF In
      <3>. QED
        BY <3>2, <3>4, <3>5, <3>6 DEF Queued
    <2>4. IsFiniteSet(R(d))
      BY <1>3
    <2> HIDE DEF R
    <2>. QED
      BY <2>1, <2>2, <2>3, <2>4, EntriesCount
  <1>6. Enrolled(u, c) = N("pop") + N("push")
    BY DEF Enrolled, Queue
  <1>7. /\ R("pop") \cap R("push") = {} /\ E \cap (R("pop") \cup R("push")) = {}
        /\ E \cup (R("pop") \cup R("push")) = Queued(u)
    <2>1. \A i \in Queued(u) : DirOf(u, i) \in Dir
      BY <1>1, OpTypes DEF Queued
    <2>. QED
      BY <2>1 DEF Dir
  <1>8. IsFiniteSet(R("pop")) /\ IsFiniteSet(R("push"))
    BY <1>3 DEF Dir
  <1> HIDE DEF R, E, N
  <1>9. /\ IsFiniteSet(R("pop") \cup R("push"))
        /\ Cardinality(R("pop") \cup R("push")) = Cardinality(R("pop")) + Cardinality(R("push"))
    <2>1. /\ IsFiniteSet(R("pop") \cup R("push"))
          /\ Cardinality(R("pop") \cup R("push")) = Cardinality(R("pop")) + Cardinality(R("push"))
                                                    - Cardinality(R("pop") \cap R("push"))
      BY <1>8, FS_Union
    <2>2. Cardinality(R("pop") \cap R("push")) = 0
      BY <1>7, FS_EmptySet
    <2>3. Cardinality(R("pop")) \in Nat /\ Cardinality(R("push")) \in Nat
      BY <1>8, FS_CardinalityType
    <2>. QED
      BY <2>1, <2>2, <2>3
  <1>10. Cardinality(Queued(u)) = Cardinality(E) + Cardinality(R("pop") \cup R("push"))
    <2>1. Cardinality(E \cup (R("pop") \cup R("push")))
            = Cardinality(E) + Cardinality(R("pop") \cup R("push"))
              - Cardinality(E \cap (R("pop") \cup R("push")))
      BY <1>4, <1>9, FS_Union
    <2>2. Cardinality(E \cap (R("pop") \cup R("push"))) = 0
      BY <1>7, FS_EmptySet
    <2>3. Cardinality(E) \in Nat /\ Cardinality(R("pop") \cup R("push")) \in Nat
      BY <1>4, <1>9, FS_CardinalityType
    <2>4. Cardinality(E \cup (R("pop") \cup R("push")))
            = Cardinality(E) + Cardinality(R("pop") \cup R("push"))
      BY <2>1, <2>2, <2>3
    <2>. QED
      BY <1>7, <2>4, Zenon
  <1>11. /\ Cardinality(E) \in Nat /\ Cardinality(R("pop")) \in Nat /\ Cardinality(R("push")) \in Nat
         /\ Cardinality(Queued(u)) \in Nat
    BY <1>2, <1>4, <1>8, FS_CardinalityType
  <1>12. /\ N("pop") \in Nat /\ N("pop") <= Cardinality(R("pop"))
         /\ N("push") \in Nat /\ N("push") <= Cardinality(R("push"))
    BY <1>5 DEF Dir
  <1>13. /\ Enrolled(u, c) \in Nat
         /\ Cardinality(E) + Enrolled(u, c) <= Cardinality(Queued(u))
    BY <1>6, <1>9, <1>10, <1>11, <1>12
  <1>. QED
    BY <1>11, <1>13 DEF E

LEMMA CloseKeeps ==
    ASSUME IInv, NEW c \in Chan, Close(c)
    PROVE  IInv'
  <1>1. TypeOK
    BY DEF IInv
  <1>2. /\ open[c] /\ mutex[c] = NoThread
        /\ open' = [open EXCEPT ![c] = FALSE]
        /\ pops' = [pops EXCEPT ![c] = <<>>] /\ pushes' = [pushes EXCEPT ![c] = <<>>]
        /\ openOps' = [u \in Thread |-> openOps[u] - Enrolled(u, c)]
        /\ asleep' \in SUBSET Thread
        /\ UNCHANGED <<buffer, mutex, pc, todo, status, ops, wait, matched, calls>>
        /\ UNCHANGED <<ran, last, used, cleared>>
    BY <1>1 DEF Close, callVars, history, TypeOK
  <1>3. \A e \in Chan : /\ open'[e] = (open[e] /\ e # c)
                        /\ pops'[e] = (IF e = c THEN <<>> ELSE pops[e])
                        /\ pushes'[e] = (IF e = c THEN <<>> ELSE pushes[e])
    BY <1>1, <1>2 DEF TypeOK
  <1>4. /\ \A u \in Thread : Indices(u)' = Indices(u) /\ Registered(u)' = Registered(u)
        /\ \A u \in Thread : \A j : ChanOf(u, j)' = ChanOf(u, j) /\ DirOf(u, j)' = DirOf(u, j)
    BY <1>2 DEF Indices, Registered, ChanOf, DirOf
  <1>5. ASSUME NEW u \in Thread
        PROVE  Queued(u)' = {i \in Queued(u) : ChanOf(u, i) # c}
    <2>1. SUFFICES ASSUME NEW j \in Indices(u)
                   PROVE  j \in Queued(u)' <=> j \in Queued(u) /\ ChanOf(u, j) # c
      BY <1>4 DEF Queued
    <2>2. PICK e \in Chan, x \in Dir : e = ChanOf(u, j) /\ x = DirOf(u, j)
      BY <1>1, OpTypes
    <2>3. Queue(e, x)' = IF e = c THEN <<>> ELSE Queue(e, x)
      BY <1>3 DEF Queue
    <2>4. \A w : ~In(<<>>, w)
      BY DEF In
    <2>. QED
      BY <1>4, <2>2, <2>3, <2>4 DEF Queued
  <1>6. \A u \in Thread : openOps'[u] \in Nat /\ CountOf(u)'
    <2>1. SUFFICES ASSUME NEW u \in Thread PROVE openOps'[u] \in Nat /\ CountOf(u)'
      OBVIOUS
    <2>2. PICK E : E = {i \in Queued(u) : ChanOf(u, i) # c}
      OBVIOUS
    <2>3. /\ Enrolled(u, c) \in Nat /\ Cardinality(E) \in Nat /\ Cardinality(Queued(u)) \in Nat
          /\ Cardinality(E) + Enrolled(u, c) <= Cardinality(Queued(u))
      BY <2>2, EnrolledCount
    <2>4. Cardinality(Queued(u)) <= openOps[u] /\ openOps[u] \in Nat
      BY <1>1 DEF IInv, ThreadInv, CountOf, TypeOK
    <2>5. openOps'[u] = openOps[u] - Enrolled(u, c)
      BY <1>2
    <2>6. openOps'[u] \in Nat /\ Cardinality(E) <= openOps'[u]
      BY <2>3, <2>4, <2>5
    <2>. QED
      BY <1>5, <2>2, <2>6 DEF CountOf
  <1>7. TypeOK'
    <2>1. <<>> \in Seq(Waiting)
      BY EmptySeq
    <2>2. pops' \in [Chan -> Seq(Waiting)] /\ pushes' \in [Chan -> Seq(Waiting)]
          /\ open' \in [Chan -> BOOLEAN]
      BY <1>1, <1>2, <2>1 DEF TypeOK
    <2>3. openOps' \in [Thread -> Nat]
      BY <1>2, <1>6
    <2>. QED
      BY <1>1, <1>2, <2>2, <2>3 DEF TypeOK
  <1>8. ASSUME NEW e \in Chan
        PROVE  ChanInv(e)'
    <2>1. ChanInv(e)
      BY DEF IInv
    <2>2. CASE e = c
      <3>1. ~open'[e] /\ pops'[e] = <<>> /\ pushes'[e] = <<>>
        BY <1>3, <2>2
      <3>2. \A d \in Dir : Queue(e, d)' = <<>>
        BY <3>1 DEF Queue
      <3>3. NoDup(<<>>) /\ \A u : ~By(<<>>, u)
        BY DEF NoDup, By
      <3>. QED
        BY <3>1, <3>2, <3>3 DEF ChanInv
    <2>3. CASE e # c
      <3>1. pops'[e] = pops[e] /\ pushes'[e] = pushes[e] /\ open'[e] = open[e]
        BY <1>1, <1>3, <2>3 DEF TypeOK
      <3>2. \A d \in Dir : Queue(e, d)' = Queue(e, d)
        BY <3>1 DEF Queue
      <3>3. ASSUME NEW d \in Dir, NEW k \in DOMAIN Queue(e, d)
            PROVE  Entry(Queue(e, d)[k], e, d)'
        <4>1. PICK w : w = Queue(e, d)[k]
          OBVIOUS
        <4>2. Entry(w, e, d) /\ w.by \in Thread /\ w = Queue(e, d)'[k]
          BY <1>1, <2>1, <3>2, <4>1, QueueTypes DEF ChanInv, Waiting
        <4>. QED
          BY <1>2, <1>4, <4>2 DEF Entry
      <3>. QED
        BY <1>2, <2>1, <3>1, <3>2, <3>3 DEF ChanInv
    <2>. QED
      BY <2>2, <2>3
  <1>9. ASSUME NEW u \in Thread
        PROVE  ThreadInv(u)'
    <2>1. mutex[c] # u
      BY <1>2, CopperAssumption
    <2>2. \A e \in Chan : mutex[e] = u =>
            /\ mutex'[e] = u /\ open'[e] = open[e] /\ buffer'[e] = buffer[e]
            /\ \A v \in Thread : ~matched'[v] => /\ By(pops'[e], v) => By(pops[e], v) /\ ~matched[v]
                                                 /\ By(pushes'[e], v) => By(pushes[e], v) /\ ~matched[v]
      <3>1. \A e \in Chan : e # c => open'[e] = open[e] /\ pops'[e] = pops[e] /\ pushes'[e] = pushes[e]
        BY <1>1, <1>3 DEF TypeOK
      <3>. QED
        BY <1>2, <2>1, <3>1
    <2>3. ASSUME NEW j \in Queued(u), ~matched[u], ~open'[ChanOf(u, j)], DirOf(u, j) = "pop"
          PROVE  buffer[ChanOf(u, j)] = <<>>
      <3>1. PICK e \in Chan : e = ChanOf(u, j)
        BY <1>1, OpTypes DEF Queued
      <3>2. open[e] /\ By(pops[e], u)
        BY <2>3, <3>1, QueuedRegistered DEF Queued, Queue, In, By, Op
      <3>. QED
        BY <2>3, <3>1, <3>2 DEF IInv, ChanInv
    <2>4. \A j \in Indices(u) :
            /\ j \in Queued(u)' => j \in Queued(u)
            /\ j \in Queued(u) /\ ~matched'[u] =>
                  IF open'[ChanOf(u, j)] THEN j \in Queued(u)'
                  ELSE DirOf(u, j) = "pop" => buffer'[ChanOf(u, j)] = <<>>
      <3>1. \A j \in Indices(u) : ChanOf(u, j) \in Chan
        BY <1>1, OpTypes
      <3>. QED
        BY <1>2, <1>3, <1>5, <2>3, <3>1
    <2>5. Spares(u)
      BY <1>2, <1>3, <1>6, <2>2, <2>4 DEF Spares
    <2>. QED
      BY <1>7, <2>5, Spared
  <1>. QED
    BY <1>7, <1>8, <1>9 DEF IInv

-----------------------------------------------------------------------------
(* A channel is cleared.                                                   *)

LEMMA ClearDeals ==
    ASSUME IInv, NEW c \in Chan, Clear(c)
    PROVE  \E us : Deal(c, us, us)
  <1>1. TypeOK /\ ChanInv(c)
    BY DEF IInv
  <1>2. PICK q : q = pushes[c]
    OBVIOUS
  <1>3. PICK room : room = IF open[c] THEN Room(c) ELSE 0
    OBVIOUS
  <1>4. PICK n : n = Min({k \in 0..Len(q) : k = Len(q) \/ Cardinality(Drawn(q, k)) >= room})
    OBVIOUS
  <1>5. PICK us : us = Drawn(q, n)
    OBVIOUS
  <1>6. /\ buffer' = [buffer EXCEPT ![c] =
                        IF c \in Void THEN [k \in 1..Cardinality(us) |-> Unit] ELSE Data(us, c)]
        /\ pushes' = [pushes EXCEPT ![c] = Suffix(q, n)]
        /\ matched' = [u \in Thread |-> matched[u] \/ u \in us] /\ asleep' = asleep \ us
        /\ ran' = [u \in Thread |-> IF u \in us THEN ran[u] + 1 ELSE ran[u]]
        /\ used' = used \cup {Datum(u, c) : u \in us}
        /\ cleared' = IF pushes'[c] = <<>> THEN cleared \ {c} ELSE cleared \cup {c}
        /\ UNCHANGED <<open, pops, ops, wait, openOps, calls, last>>
    BY <1>2, <1>3, <1>4, <1>5 DEF Clear, Suffix, Match, Ran
  <1>7. q \in Seq(Waiting) /\ Len(q) \in Nat /\ matched \in [Thread -> BOOLEAN]
    BY <1>1, <1>2, LenProperties DEF TypeOK
  <1>8. n \in 0..Len(q)
    <2>1. PICK S : S = {k \in 0..Len(q) : k = Len(q) \/ Cardinality(Drawn(q, k)) >= room}
      OBVIOUS
    <2>2. Len(q) \in 0..Len(q)
      BY <1>7
    <2>3. S # {} /\ S \subseteq 0..Len(q)
      BY <2>1, <2>2
    <2>4. S \in SUBSET Nat
      BY <2>3
    <2>5. Min(S) \in S
      BY <2>3, <2>4, MinProperties
    <2>. QED
      BY <1>4, <2>1, <2>3, <2>5
  <1>9. /\ \A u \in us : u \in Thread /\ By(q, u) /\ ~matched[u]
        /\ \A k \in 1..n : matched[q[k].by] \/ q[k].by \in us
        /\ IsFiniteSet(us)
    BY <1>5, <1>7, <1>8, DrawnProperties
  <1>10. Take(c, us)
    <2>1. pops' = [pops EXCEPT ![c] = Suffix(pops[c], 0)]
      <3>1. pops[c] \in Seq(Waiting)
        BY <1>1 DEF TypeOK
      <3>2. Suffix(pops[c], 0) = pops[c]
        BY <3>1, SuffixAll
      <3>. QED
        BY <1>1, <1>6, <3>2 DEF TypeOK
    <2>2. 0 \in 0..Len(pops[c]) /\ 1..0 = {}
      <3>1. Len(pops[c]) \in Nat
        BY <1>1, LenProperties DEF TypeOK
      <3>. QED
        BY <3>1
    <2>3. \E k \in 0..Len(pops[c]) :
             /\ pops' = [pops EXCEPT ![c] = Suffix(pops[c], k)]
             /\ \A j \in 1..k : matched[pops[c][j].by] \/ pops[c][j].by \in us
      BY <2>1, <2>2
    <2>. QED
      BY <1>2, <1>6, <1>8, <1>9, <2>3 DEF Take
  <1>11. \A u \in us : Datum(u, c) \in Value
    BY <1>10, TakenWait
  <1>12. us = {} => buffer'[c] = <<>>
    <2>1. SUFFICES ASSUME us = {} PROVE buffer'[c] = <<>>
      OBVIOUS
    <2>2. Cardinality(us) = 0 /\ Data(us, c) = <<>>
      BY <2>1, FS_EmptySet DEF Data
    <2>3. [k \in 1..0 |-> Unit] = <<>>
      OBVIOUS
    <2>. QED
      BY <1>1, <1>6, <2>2, <2>3 DEF TypeOK
  <1>13. buffer' \in [Chan -> Seq(Value)] /\ \A e \in Chan \ {c} : buffer'[e] = buffer[e]
    <2>1. [k \in 1..Cardinality(us) |-> Unit] \in Seq(Value)
      <3>1. Cardinality(us) \in Nat /\ Unit \in Value
        BY <1>9, FS_CardinalityType DEF Value
      <3>. QED
        BY <3>1, SeqDef
    <2>2. Data(us, c) \in Seq(Value)
      <3>1. CASE us = {}
        BY <3>1, EmptySeq DEF Data
      <3>2. CASE us # {}
        <4>1. PICK u \in us : Data(us, c) = <<Datum(u, c)>>
          BY <3>2 DEF Data
        <4>2. Datum(u, c) \in Value
          BY <1>11
        <4>. QED
          BY <4>1, <4>2
      <3>. QED
        BY <3>1, <3>2
    <2>. QED
      BY <1>1, <1>6, <2>1, <2>2 DEF TypeOK
  <1>14. /\ asleep' \subseteq Thread /\ used' \subseteq Value /\ cleared' \subseteq Chan
         /\ last' \in [Chan -> Value]
         /\ \A e \in Chan \ {c} : e \in cleared => e \in cleared'
    BY <1>1, <1>6, <1>11 DEF TypeOK
  <1>15. ~open[c] => us = {}
    <2>1. ~open[c] => q = <<>>
      BY <1>1, <1>2 DEF ChanInv
    <2>. QED
      BY <1>9, <2>1 DEF By
  <1>16. ASSUME NEW u \in Thread, open[c], By(pops'[c], u), ~matched'[u]
         PROVE  buffer'[c] = <<>>
    <2>1. By(pops[c], u) /\ ~matched[u]
      BY <1>1, <1>10, <1>16, StillWaits
    <2>2. \A v \in us : v = u
      BY <1>1, <1>2, <1>9, <1>16, <2>1 DEF ChanInv
    <2>3. u \notin us
      BY <1>6, <1>16
    <2>. QED
      BY <1>12, <2>2, <2>3
  <1>17. ASSUME NEW u \in Thread, By(pushes'[c], u)
         PROVE  c \in cleared'
    <2>1. pushes'[c] # <<>>
      BY <1>17 DEF By
    <2>. QED
      BY <1>6, <2>1
  <1>18. Deal(c, us, us)
    BY <1>6, <1>10, <1>12, <1>13, <1>14, <1>15, <1>16, <1>17 DEF Deal
  <1>. QED
    BY <1>18

LEMMA ClearKeeps ==
    ASSUME IInv, NEW c \in Chan, Clear(c)
    PROVE  IInv'
  <1>1. TypeOK
    BY DEF IInv
  <1>2. PICK us : Deal(c, us, us)
    BY ClearDeals
  <1>3. mutex[c] = NoThread /\ mutex' = mutex /\ pc' = pc /\ todo' = todo /\ status' = status
    BY DEF Clear, callVars
  <1>4. TypeOK'
    BY <1>1, <1>2, <1>3, DealTypes DEF TypeOK
  <1>5. \A u \in Thread : Registered(u)' = Registered(u)
    BY <1>2, <1>3 DEF Deal, Registered, Indices
  <1>6. \A e \in Chan : ChanInv(e)'
    BY <1>2, <1>5, DealChan
  <1>7. ASSUME NEW u \in Thread
        PROVE  ThreadInv(u)'
    <2>1. mutex[c] # u
      BY <1>3, CopperAssumption
    <2>2. Spares(u)
      BY <1>2, <1>3, <2>1, DealSpares
    <2>. QED
      BY <1>4, <2>2, Spared
  <1>. QED
    BY <1>4, <1>6, <1>7 DEF IInv

-----------------------------------------------------------------------------
(* Every step keeps the invariant.                                         *)

LEMMA Initial == Init => IInv
  <1>1. SUFFICES ASSUME Init PROVE IInv
    OBVIOUS
  <1>2. \A S : <<>> \in Seq(S)
    BY EmptySeq
  <1>3. Unit \in Value
    BY DEF Value
  <1>4. TypeOK
    BY <1>1, <1>2, <1>3 DEF Init, TypeOK, WaitType
  <1>5. (\A d : NoDup(<<>>)) /\ \A u : ~By(<<>>, u)
    BY DEF NoDup, By
  <1>6. \A c \in Chan : ChanInv(c)
    <2>1. \A c \in Chan : pops[c] = <<>> /\ pushes[c] = <<>> /\ \A d : Queue(c, d) = <<>>
      BY <1>1 DEF Init, Queue
    <2>. QED
      BY <1>5, <2>1 DEF ChanInv
  <1>7. \A t \in Thread : ThreadInv(t)
    <2>1. SUFFICES ASSUME NEW t \in Thread PROVE ThreadInv(t)
      OBVIOUS
    <2>2. /\ pc[t] = "idle" /\ ops[t] = <<>> /\ todo[t] = {} /\ status[t] = "closed"
          /\ ~matched[t] /\ openOps[t] = 0 /\ calls[t] = 0 /\ ran[t] = 0 /\ used = {}
      BY <1>1, <2>1 DEF Init
    <2>3. Indices(t) = {} /\ Registered(t) = {} /\ Queued(t) = {}
      BY <2>2 DEF Indices, Registered, Queued
    <2>4. CountOf(t)
      BY <2>2, <2>3, FS_EmptySet DEF CountOf
    <2>5. MaxCalls[t] \in Nat
      BY CopperAssumption
    <2>6. CallOf(t) /\ RanOf(t) /\ LockedOf(t) /\ PassOf(t) /\ WaitOf(t) /\ LeaveOf(t) /\ StatusOf(t)
          /\ UsedOf(t)
      BY <2>2, <2>3, <2>5
         DEF CallOf, RanOf, LockedOf, PassOf, WaitOf, LeaveOf, StatusOf, UsedOf
    <2>. QED
      BY <2>4, <2>6 DEF ThreadInv
  <1>. QED
    BY <1>4, <1>6, <1>7 DEF IInv

LEMMA Invariance == IInv /\ [Next]_vars => IInv'
  <1>1. SUFFICES ASSUME IInv, [Next]_vars PROVE IInv'
    OBVIOUS
  <1>2. ASSUME NEW t \in Thread, Step(t)
        PROVE  IInv'
    <2>1. TypeOK /\ CallOf(t)
      BY <1>1 DEF IInv, ThreadInv
    <2>2. CASE PassHits(t)
      <3>1. PICK i \in todo[t] : Free(t, ChanOf(t, i)) /\ Hit(t, i)
        BY <2>2 DEF PassHits
      <3>2. i \in Indices(t) /\ pc[t] = "pass" /\ Succeed(t) /\ UNCHANGED callsOnly
        BY <2>1, <2>2 DEF PassHits, CallOf
      <3>. QED
        BY <1>1, <3>1, <3>2, HitKeeps
    <2>3. CASE LockHits(t)
      <3>1. PICK i : i = Min(todo[t])
        OBVIOUS
      <3>2. todo[t] \in SUBSET Nat /\ todo[t] # {} /\ todo[t] \subseteq Indices(t)
        BY <2>1, <2>3 DEF LockHits, CallOf, TypeOK
      <3>3. i \in Indices(t)
        BY <3>1, <3>2, MinProperties
      <3>. QED
        BY <1>1, <2>3, <3>1, <3>3, HitKeeps DEF LockHits
    <2>4. CASE Wait(t)
      <3>1. CASE EndWait(t)
        BY <1>1, <2>4, <3>1, EndWaitKeeps DEF Wait
      <3>2. CASE asleep' = asleep \cup {t} /\ UNCHANGED callVars
        <4>1. asleep' \in SUBSET Thread
          BY <2>1, <3>2 DEF TypeOK
        <4>. QED
          BY <1>1, <2>4, <3>2, <4>1, SleepKeeps DEF Wait
      <3>. QED
        BY <2>4, <3>1, <3>2 DEF Wait
    <2>. QED
      BY <1>1, <1>2, <2>2, <2>3, <2>4, PassMissesKeeps, LockMissesKeeps, EnlistKeeps, LeaveKeeps
         DEF Step
  <1>3. ASSUME NEW t \in Thread, TimeOut(t) \/ WakeSpuriously(t)
        PROVE  IInv'
    <2>1. CASE TimeOut(t)
      BY <1>1, <2>1, EndWaitKeeps DEF TimeOut
    <2>2. CASE WakeSpuriously(t)
      <3>1. asleep' \in SUBSET Thread
        BY <1>1, <2>2 DEF WakeSpuriously, IInv, TypeOK
      <3>. QED
        BY <1>1, <2>2, <3>1, SleepKeeps DEF WakeSpuriously
    <2>. QED
      BY <1>3, <2>1, <2>2
  <1>4. CASE UNCHANGED vars
    <2>1. asleep' \in SUBSET Thread
          /\ UNCHANGED <<chanVars, mutex, callVars, ops, wait, matched, openOps, calls, history>>
      BY <1>1, <1>4 DEF vars, IInv, TypeOK
    <2>. QED
      BY <1>1, <2>1, SleepKeeps
  <1>. QED
    BY <1>1, <1>2, <1>3, <1>4, BeginKeeps, CloseKeeps, ClearKeeps DEF Next

LEMMA Inductive == Spec => []IInv
  BY Initial, Invariance, PTL DEF Spec

-----------------------------------------------------------------------------
(* The theorems.                                                           *)

\* In every state the channels, the queues and the requests are what they are declared
\* to be; openOps, which close() counts down (copper.hpp, close), is never negative.
THEOREM TypeCorrect == Spec => []TypeOK
  <1>1. IInv => TypeOK
    BY DEF IInv
  <1>. QED
    BY <1>1, Inductive, PTL

\* At most one operation of a request is run, over all its tries, its wait and the time
\* after it, and its status tells what became of it (waiting_op_group, select).
THEOREM StatusTells == Spec => []StatusIsTrue
  <1>1. IInv => StatusIsTrue
    BY DEF IInv, ThreadInv, RanOf, StatusOf, Over, StatusIsTrue
  <1>. QED
    BY <1>1, Inductive, PTL

\* What the queues of the channels point to is an operation of a request that goes on,
\* there once, and never one on a stack that is gone (parent_destroyed).
THEOREM NothingDangles == Spec => []NoDanglingOp
  <1>1. ASSUME IInv PROVE NoDanglingOp
    <2>1. ASSUME NEW c \in Chan, NEW d \in Dir, NEW q, q = Queue(c, d), NEW k \in DOMAIN q
          PROVE  /\ \/ pc[q[k].by] = "enlist" /\ q[k].op \notin todo[q[k].by]
                    \/ pc[q[k].by] = "wait"
                    \/ pc[q[k].by] = "leave" /\ q[k].op \in todo[q[k].by]
                 /\ ops[q[k].by][q[k].op] = [chan |-> c, dir |-> d]
                 /\ \A j \in DOMAIN q : q[j] = q[k] => j = k
      <3>1. Entry(q[k], c, d) /\ NoDup(q)
        BY <1>1, <2>1 DEF IInv, ChanInv
      <3>. QED
        BY <3>1 DEF Entry, Registered, NoDup
    <2>2. \A c \in Chan, d \in Dir :
             LET q == Queue(c, d)
             IN  \A k \in DOMAIN q :
                   /\ \/ pc[q[k].by] = "enlist" /\ q[k].op \notin todo[q[k].by]
                      \/ pc[q[k].by] = "wait"
                      \/ pc[q[k].by] = "leave" /\ q[k].op \in todo[q[k].by]
                   /\ ops[q[k].by][q[k].op] = [chan |-> c, dir |-> d]
                   /\ \A j \in DOMAIN q : q[j] = q[k] => j = k
      BY <2>1
    <2>. QED
      BY <2>2, Zenon DEF NoDanglingOp, Dir, Queue
  <1>. QED
    BY <1>1, Inductive, PTL

\* Nobody waits beside what it waits for: while a pop waits in an open channel there is
\* neither an element nor a push of another, and while a push waits there the buffer is
\* full, or clear() has just made room.
THEOREM NobodyWaitsBesideIt == Spec => []NobodyWaitsInVain
  <1>1. ASSUME IInv PROVE NobodyWaitsInVain
    <2>1. TypeOK /\ matched \in [Thread -> BOOLEAN]
          /\ \A c \in Chan : pops[c] \in Seq(Waiting) /\ pushes[c] \in Seq(Waiting) /\ ChanInv(c)
      BY <1>1 DEF IInv, TypeOK
    <2>2. ASSUME NEW c \in Chan, open[c], Live(pops[c]) # {}
          PROVE  /\ buffer[c] = <<>>
                 /\ \A k \in Live(pops[c]), j \in Live(pushes[c]) : pops[c][k].by = pushes[c][j].by
      <3>1. \A k \in Live(pops[c]) :
               pops[c][k].by \in Thread /\ By(pops[c], pops[c][k].by) /\ ~matched[pops[c][k].by]
        BY <2>1, LiveBy
      <3>2. \A k \in Live(pushes[c]) :
               pushes[c][k].by \in Thread /\ By(pushes[c], pushes[c][k].by)
               /\ ~matched[pushes[c][k].by]
        BY <2>1, LiveBy
      <3>. QED
        BY <2>1, <2>2, <3>1, <3>2 DEF ChanInv
    <2>3. ASSUME NEW c \in Chan, open[c], Live(pushes[c]) # {}
          PROVE  Len(buffer[c]) >= Cap[c] \/ c \in cleared
      <3>1. \A k \in Live(pushes[c]) :
               pushes[c][k].by \in Thread /\ By(pushes[c], pushes[c][k].by)
               /\ ~matched[pushes[c][k].by]
        BY <2>1, LiveBy
      <3>. QED
        BY <2>1, <2>3, <3>1 DEF ChanInv
    <2>. QED
      BY <2>2, <2>3 DEF NobodyWaitsInVain, NobodyWaitsForAPartner, PushWaitsForRoom
  <1>. QED
    BY <1>1, Inductive, PTL

-----------------------------------------------------------------------------
(* The values in a channel: Copper implements Channel.                     *)

LEMMA AppendHeadTail ==
    ASSUME NEW S, NEW q \in Seq(S), NEW v \in S
    PROVE  /\ q = <<>> => Head(Append(q, v)) = v /\ Tail(Append(q, v)) = <<>>
           /\ q # <<>> => /\ Head(Append(q, v)) = Head(q)
                          /\ Tail(Append(q, v)) = Append(Tail(q), v)
                          /\ Tail(q) \o <<v>> = Append(Tail(q), v)
                          /\ Tail(q) \o <<>> = Tail(q)
  <1>1. q = <<>> => Head(Append(q, v)) = v /\ Tail(Append(q, v)) = <<>>
    OBVIOUS
  <1>2. ASSUME q # <<>>
        PROVE  Head(Append(q, v)) = Head(q) /\ Tail(Append(q, v)) = Append(Tail(q), v)
    BY <1>2
  <1>3. ASSUME q # <<>>
        PROVE  Tail(q) \o <<v>> = Append(Tail(q), v) /\ Tail(q) \o <<>> = Tail(q)
    BY <1>3
  <1>. QED
    BY <1>1, <1>2, <1>3

\* A value that is pushed is a new one.
LEMMA Fresh ==
    ASSUME IInv, NEW u \in Thread, NEW c, pc[u] # "idle", ~matched[u]
    PROVE  Datum(u, c) = Unit \/ Datum(u, c) \notin used
  <1>1. TypeOK /\ ThreadInv(u) /\ pc[u] \in {"idle", "pass", "lock", "enlist", "wait", "leave"}
    BY DEF IInv, TypeOK
  <1>2. ran[u] = 0
    BY <1>1 DEF ThreadInv, RanOf
  <1>3. calls[u] \in 1..MaxCalls[u]
    <2>1. MaxCalls[u] \in Nat /\ calls[u] \in Nat
      BY <1>1, CopperAssumption DEF TypeOK
    <2>. QED
      BY <1>1, <2>1 DEF ThreadInv, CallOf
  <1>4. <<u, calls[u]>> = Unit \/ <<u, calls[u]>> \notin used
    BY <1>1, <1>2, <1>3 DEF ThreadInv, UsedOf
  <1>. QED
    BY <1>4 DEF Datum

LEMMA FreshWaiter ==
    ASSUME IInv, NEW c \in Chan, NEW d \in Dir, NEW u, By(Queue(c, d), u), ~matched[u]
    PROVE  /\ u \in Thread /\ pc[u] # "idle" /\ open[c]
           /\ Datum(u, c) \in Value /\ Data({u}, c) = <<Datum(u, c)>> /\ Data({u}, c)[1] = Datum(u, c)
           /\ Datum(u, c) = Unit \/ Datum(u, c) \notin used
  <1>1. u \in Thread /\ open[c] /\ Registered(u) # {}
    BY WaiterRegistered
  <1>2. pc[u] # "idle"
    BY <1>1 DEF Registered
  <1>. QED
    BY <1>1, <1>2, Fresh, DataProperties

LEMMA PopBufferedImplements ==
    ASSUME IInv, NEW t \in Thread, NEW c \in Chan, PopBuffered(t, c), UNCHANGED open
    PROVE  Abstract!Next
  <1>1. /\ TypeOK /\ pushes[c] \in Seq(Waiting) /\ matched \in [Thread -> BOOLEAN]
        /\ buffer[c] \in Seq(Value)
    BY DEF IInv, TypeOK
  <1>2. PICK us : us = IF open[c] THEN Partner(pushes[c]) ELSE {}
    OBVIOUS
  <1>3. /\ buffer[c] # <<>>
        /\ last' = [last EXCEPT ![c] = Head(buffer[c])]
        /\ buffer' = [buffer EXCEPT ![c] = Tail(@) \o Data(us, c)]
        /\ used' = used \cup {Datum(u, c) : u \in us}
    BY <1>2 DEF PopBuffered
  <1>4. CASE us = {}
    <2>1. Data(us, c) = <<>> /\ used' = used
      BY <1>3, <1>4 DEF Data
    <2>2. Unit \in Value
      BY DEF Value
    <2>3. buffer' = [buffer EXCEPT ![c] = Tail(@)]
      BY <1>1, <1>3, <2>1, <2>2, AppendHeadTail
    <2>4. Abstract!Pop(c)
      BY <1>3, <2>1, <2>3 DEF Abstract!Pop
    <2>. QED
      BY <2>4 DEF Abstract!Next
  <1>5. CASE us # {}
    <2>1. PICK u \in Thread : us = {u} /\ By(pushes[c], u) /\ ~matched[u] /\ open[c]
      BY <1>1, <1>2, <1>5, PartnerProperties
    <2>2. By(Queue(c, "push"), u) /\ "push" \in Dir
      BY <2>1 DEF Queue, Dir
    <2>3. PICK v : v = Datum(u, c)
      OBVIOUS
    <2>4. v \in Value /\ Data(us, c) = <<v>> /\ (v = Unit \/ v \notin used)
      BY <2>1, <2>2, <2>3, FreshWaiter
    <2>5. used' = used \cup {v}
      BY <1>3, <2>1, <2>3
    <2>6. Head(Append(buffer[c], v)) = Head(buffer[c])
          /\ Tail(Append(buffer[c], v)) = Tail(buffer[c]) \o Data(us, c)
      BY <1>1, <1>3, <2>4, AppendHeadTail
    <2>7. Abstract!Exchange(c, v)
      BY <1>3, <2>1, <2>4, <2>5, <2>6 DEF Abstract!Exchange, Abstract!Enter
    <2>. QED
      BY <2>4, <2>7 DEF Abstract!Next
  <1>. QED
    BY <1>4, <1>5

LEMMA HandedImplements ==
    ASSUME IInv, NEW c \in Chan, NEW v \in Value, open[c], buffer[c] = <<>>, v = Unit \/ v \notin used,
           last' = [last EXCEPT ![c] = v], used' = used \cup {v}, UNCHANGED <<open, buffer>>
    PROVE  Abstract!Next
  <1>1. buffer \in [Chan -> Seq(Value)]
    BY DEF IInv, TypeOK
  <1>2. Head(Append(buffer[c], v)) = v /\ Tail(Append(buffer[c], v)) = buffer[c]
    BY <1>1, AppendHeadTail
  <1>3. buffer' = [buffer EXCEPT ![c] = Tail(Append(@, v))]
    BY <1>1, <1>2
  <1>4. Abstract!Exchange(c, v)
    BY <1>2, <1>3 DEF Abstract!Exchange, Abstract!Enter
  <1>. QED
    BY <1>4 DEF Abstract!Next

LEMMA HitImplements ==
    ASSUME IInv, NEW t \in Thread, NEW i \in Indices(t), pc[t] \in {"pass", "lock"}, Hit(t, i)
    PROVE  Abstract!Next
  <1>1. PICK c \in Chan : c = ChanOf(t, i)
    BY OpTypes DEF IInv
  <1>2. /\ open' = open
        /\ PopBuffered(t, c) \/ PopHanded(t, c) \/ PushHanded(t, c) \/ PushBuffered(t, c)
    BY <1>1 DEF Hit
  <1>3. /\ pushes[c] \in Seq(Waiting) /\ pops[c] \in Seq(Waiting) /\ matched \in [Thread -> BOOLEAN]
        /\ ChanInv(c) /\ pc[t] # "idle" /\ ~matched[t]
    BY DEF IInv, TypeOK, ThreadInv, RanOf
  <1>4. CASE PopBuffered(t, c)
    BY <1>2, <1>4, PopBufferedImplements
  <1>5. CASE PopHanded(t, c)
    <2>1. PICK u \in Thread : Partner(pushes[c]) = {u} /\ By(pushes[c], u) /\ ~matched[u]
      BY <1>3, <1>5, PartnerProperties DEF PopHanded
    <2>2. By(Queue(c, "push"), u) /\ "push" \in Dir
      BY <2>1 DEF Queue, Dir
    <2>3. PICK v : v = Datum(u, c)
      OBVIOUS
    <2>4. v \in Value /\ Data({u}, c)[1] = v /\ (v = Unit \/ v \notin used)
      BY <2>1, <2>2, <2>3, FreshWaiter
    <2>5. /\ open[c] /\ buffer[c] = <<>> /\ buffer' = buffer
          /\ last' = [last EXCEPT ![c] = v] /\ used' = used \cup {v}
      BY <1>5, <2>1, <2>3, <2>4 DEF PopHanded
    <2>. QED
      BY <1>2, <2>4, <2>5, HandedImplements
  <1>6. CASE PushHanded(t, c)
    <2>1. PICK u \in Thread : By(pops[c], u) /\ ~matched[u]
      BY <1>3, <1>6, PartnerProperties DEF PushHanded
    <2>2. PICK v : v = Datum(t, c)
      OBVIOUS
    <2>3. v \in Value /\ (v = Unit \/ v \notin used)
      BY <1>3, <2>2, Fresh, DataProperties
    <2>4. /\ open[c] /\ buffer' = buffer
          /\ last' = [last EXCEPT ![c] = v] /\ used' = used \cup {v}
      BY <1>6, <2>2 DEF PushHanded
    <2>5. buffer[c] = <<>>
      BY <1>3, <2>1, <2>4 DEF ChanInv
    <2>. QED
      BY <1>2, <2>3, <2>4, <2>5, HandedImplements
  <1>7. CASE PushBuffered(t, c)
    <2>1. PICK v : v = Datum(t, c)
      OBVIOUS
    <2>2. v \in Value /\ (v = Unit \/ v \notin used)
      BY <1>3, <2>1, Fresh, DataProperties
    <2>3. Abstract!Push(c, v)
      BY <1>2, <1>7, <2>1, <2>2 DEF PushBuffered, Abstract!Push, Abstract!Enter
    <2>. QED
      BY <2>2, <2>3 DEF Abstract!Next
  <1>. QED
    BY <1>2, <1>4, <1>5, <1>6, <1>7

\* clear() runs no more operations than it has room for.
LEMMA DrawnRoom ==
    ASSUME NEW q \in Seq(Waiting), matched \in [Thread -> BOOLEAN], NEW room \in Nat,
           NEW n, n = Min({k \in 0..Len(q) : k = Len(q) \/ Cardinality(Drawn(q, k)) >= room})
    PROVE  n \in 0..Len(q) /\ Cardinality(Drawn(q, n)) \in Nat /\ Cardinality(Drawn(q, n)) <= room
  <1>1. PICK S : S = {k \in 0..Len(q) : k = Len(q) \/ Cardinality(Drawn(q, k)) >= room}
    OBVIOUS
  <1>2. Len(q) \in Nat
    BY LenProperties
  <1>3. Len(q) \in S /\ S \in SUBSET Nat
    <2>1. Len(q) \in 0..Len(q)
      BY <1>2
    <2>. QED
      BY <1>1, <2>1
  <1>4. n \in S /\ \A j \in S : n <= j
    BY <1>1, <1>3, MinProperties
  <1>5. n \in 0..Len(q)
    BY <1>1, <1>4
  <1>6. IsFiniteSet(Drawn(q, n)) /\ Cardinality(Drawn(q, n)) \in Nat
    BY <1>5, DrawnProperties, FS_CardinalityType
  <1>7. CASE n = 0
    <2>1. Drawn(q, n) = {}
      BY <1>5, <1>7, DrawnProperties
    <2>2. Cardinality(Drawn(q, n)) = 0
      BY <2>1, FS_EmptySet
    <2>. QED
      BY <1>5, <2>2
  <1>8. CASE n # 0
    <2>1. PICK m : m = n - 1
      OBVIOUS
    <2>2. m \in 0..Len(q) /\ m # Len(q) /\ m < n /\ n > 0
      BY <1>2, <1>5, <1>8, <2>1
    <2>3. m \notin S
      BY <1>4, <1>5, <2>2
    <2>4. ~(Cardinality(Drawn(q, m)) >= room)
      BY <1>1, <2>2, <2>3
    <2>5. IsFiniteSet(Drawn(q, m)) /\ Cardinality(Drawn(q, m)) \in Nat
      BY <2>2, DrawnProperties, FS_CardinalityType
    <2>6. PICK T : T = Drawn(q, m) \cup {q[n].by}
      OBVIOUS
    <2>7. IsFiniteSet(T) /\ (Cardinality(T) = Cardinality(Drawn(q, m))
                             \/ Cardinality(T) = Cardinality(Drawn(q, m)) + 1)
      BY <2>5, <2>6, FS_AddElement
    <2>8. Drawn(q, n) \subseteq T
      BY <1>5, <2>1, <2>2, <2>6, DrawnProperties
    <2>9. Cardinality(Drawn(q, n)) <= Cardinality(T)
      BY <2>7, <2>8, FS_Subset
    <2>10. PICK a, b \in Nat : a = Cardinality(Drawn(q, n)) /\ b = Cardinality(Drawn(q, m))
      BY <1>6, <2>5
    <2>11. a <= b + 1 /\ ~(b >= room)
      <3>1. a <= Cardinality(T) /\ (Cardinality(T) = b \/ Cardinality(T) = b + 1)
        BY <2>7, <2>9, <2>10, Zenon
      <3>. QED
        BY <2>4, <2>10, <3>1
    <2>12. a <= room
      BY <2>11
    <2>. QED
      BY <1>5, <1>6, <2>10, <2>12, Zenon
  <1>. QED
    BY <1>5, <1>6, <1>7, <1>8

LEMMA ClearImplements ==
    ASSUME IInv, NEW c \in Chan, Clear(c)
    PROVE  Abstract!Next
  <1>1. /\ TypeOK /\ ChanInv(c) /\ pushes[c] \in Seq(Waiting) /\ matched \in [Thread -> BOOLEAN]
        /\ Cap[c] \in Nat
    BY CopperAssumption DEF IInv, TypeOK
  <1>2. PICK q : q = pushes[c]
    OBVIOUS
  <1>3. PICK room : room = IF open[c] THEN Room(c) ELSE 0
    OBVIOUS
  <1>4. PICK n : n = Min({k \in 0..Len(q) : k = Len(q) \/ Cardinality(Drawn(q, k)) >= room})
    OBVIOUS
  <1>5. PICK us : us = Drawn(q, n)
    OBVIOUS
  <1>6. PICK vs : vs = IF c \in Void THEN [k \in 1..Cardinality(us) |-> Unit] ELSE Data(us, c)
    OBVIOUS
  <1>7. /\ buffer' = [buffer EXCEPT ![c] = vs]
        /\ used' = used \cup {Datum(u, c) : u \in us}
        /\ open' = open /\ last' = last
    BY <1>2, <1>3, <1>4, <1>5, <1>6 DEF Clear
  <1>8. q \in Seq(Waiting) /\ room \in Nat
    BY <1>1, <1>2, <1>3 DEF Room
  <1>9. n \in 0..Len(q) /\ Cardinality(us) \in Nat /\ Cardinality(us) <= room
    BY <1>1, <1>4, <1>5, <1>8, DrawnRoom
  <1>10. /\ \A u \in us : u \in Thread /\ By(q, u) /\ ~matched[u]
         /\ IsFiniteSet(us)
    BY <1>1, <1>5, <1>8, <1>9, DrawnProperties
  <1>11. ASSUME NEW u \in us
         PROVE  /\ open[c] /\ Datum(u, c) \in Value /\ Data({u}, c) = <<Datum(u, c)>>
                /\ Datum(u, c) = Unit \/ Datum(u, c) \notin used
    <2>1. By(Queue(c, "push"), u) /\ "push" \in Dir /\ ~matched[u]
      BY <1>2, <1>10 DEF Queue, Dir
    <2>. QED
      BY <2>1, FreshWaiter
  <1>12. Cardinality(us) = 0 <=> us = {}
    BY <1>10, FS_EmptySet
  <1>13. \E m \in 0..Cap[c] :
            /\ vs \in [1..m -> Value]
            /\ m > 0 => open[c]
            /\ \A i, j \in 1..m : vs[i] = Unit \/ (vs[i] \notin used /\ (vs[i] = vs[j] => i = j))
            /\ {Datum(u, c) : u \in us} = {vs[i] : i \in 1..m}
    <2>1. CASE us = {}
      <3>1. vs = <<>>
        <4>1. [k \in 1..0 |-> Unit] = <<>>
          OBVIOUS
        <4>. QED
          BY <1>6, <1>12, <2>1, <4>1 DEF Data
      <3>2. vs \in [1..0 -> Value] /\ 0 \in 0..Cap[c] /\ 1..0 = {}
        BY <1>1, <3>1
      <3>. QED
        BY <2>1, <3>2
    <2>2. CASE us # {} /\ c \in Void
      <3>1. open[c] /\ \A u \in us : Datum(u, c) = Unit
        BY <1>11, <2>2 DEF Datum
      <3>2. PICK m \in Nat : m = Cardinality(us)
        BY <1>9
      <3>3. m # 0 /\ m <= Cap[c]
        BY <1>3, <1>9, <1>12, <2>2, <3>1, <3>2 DEF Room
      <3>4. vs = [k \in 1..m |-> Unit]
        BY <1>6, <2>2, <3>2
      <3>5. m \in 0..Cap[c] /\ 1 \in 1..m
        BY <1>1, <3>2, <3>3
      <3>6. Unit \in Value
        BY DEF Value
      <3>7. {Datum(u, c) : u \in us} = {Unit}
        BY <2>2, <3>1
      <3>8. {vs[i] : i \in 1..m} = {Unit}
        BY <3>4, <3>5
      <3>9. vs \in [1..m -> Value] /\ \A i \in 1..m : vs[i] = Unit
        BY <3>4, <3>6
      <3>. QED
        BY <3>1, <3>5, <3>7, <3>8, <3>9
    <2>3. CASE us # {} /\ c \notin Void
      <3>1. open[c]
        BY <1>11, <2>3
      <3>2. Cardinality(us) = 1 /\ 1 <= Cap[c]
        <4>1. Cardinality(us) # 0
          BY <1>12, <2>3
        <4>2. Cap[c] # 0 /\ room = 1
          BY <1>1, <1>3, <1>9, <2>3, <3>1, <4>1 DEF Room
        <4>. QED
          BY <1>1, <1>9, <4>1, <4>2
      <3>3. PICK u : us = {u}
        BY <1>10, <3>2, FS_Singleton
      <3>4. PICK v : v = Datum(u, c)
        OBVIOUS
      <3>5. v \in Value /\ vs = <<v>> /\ (v = Unit \/ v \notin used)
        BY <1>6, <1>11, <2>3, <3>3, <3>4
      <3>6. vs \in [1..1 -> Value] /\ (\A i \in 1..1 : vs[i] = v) /\ {vs[i] : i \in 1..1} = {v}
        BY <3>5
      <3>7. {Datum(w, c) : w \in us} = {v}
        BY <3>3, <3>4
      <3>8. 1 \in 0..Cap[c] /\ \A i, j \in 1..1 : i = j
        BY <1>1, <3>2
      <3>. QED
        BY <3>1, <3>5, <3>6, <3>7, <3>8
    <2>. QED
      BY <2>1, <2>2, <2>3
  <1>14. Abstract!Clear(c)
    <2>1. PICK m \in 0..Cap[c] :
            /\ vs \in [1..m -> Value]
            /\ m > 0 => open[c]
            /\ \A i, j \in 1..m : vs[i] = Unit \/ (vs[i] \notin used /\ (vs[i] = vs[j] => i = j))
            /\ {Datum(u, c) : u \in us} = {vs[i] : i \in 1..m}
      BY <1>13
    <2>2. used' = used \cup {vs[i] : i \in 1..m}
      BY <1>7, <2>1
    <2>. QED
      BY <1>7, <2>1, <2>2, Zenon DEF Abstract!Clear
  <1>. QED
    BY <1>14 DEF Abstract!Next

LEMMA ChannelInit == Init => Abstract!Init
  BY DEF Init, Abstract!Init

LEMMA ChannelStep == IInv /\ [Next]_vars => [Abstract!Next]_(Abstract!vars)
  <1>1. SUFFICES ASSUME IInv, [Next]_vars, ~UNCHANGED <<buffer, open, last, used>>
                 PROVE  Abstract!Next
    BY DEF Abstract!vars
  <1>2. ASSUME NEW t \in Thread, NEW i \in Indices(t), Miss(t, i)
        PROVE  FALSE
    BY <1>1, <1>2 DEF Miss, history
  <1>3. ASSUME NEW t \in Thread, Step(t)
        PROVE  Abstract!Next
    <2>1. TypeOK /\ CallOf(t)
      BY <1>1 DEF IInv, ThreadInv
    <2>2. ASSUME pc[t] = "lock"
          PROVE  Min(todo[t]) \in Indices(t)
      <3>1. todo[t] \in SUBSET Nat /\ todo[t] # {} /\ todo[t] \subseteq Indices(t)
        BY <2>1, <2>2 DEF CallOf, TypeOK
      <3>. QED
        BY <3>1, MinProperties
    <2>3. CASE PassHits(t)
      <3>1. PICK i \in todo[t] : Hit(t, i)
        BY <2>3 DEF PassHits
      <3>2. i \in Indices(t) /\ pc[t] = "pass"
        BY <2>1, <2>3 DEF PassHits, CallOf
      <3>. QED
        BY <1>1, <3>1, <3>2, HitImplements
    <2>4. CASE LockHits(t)
      <3>1. PICK i : i = Min(todo[t])
        OBVIOUS
      <3>. QED
        BY <1>1, <2>2, <2>4, <3>1, HitImplements DEF LockHits
    <2>5. CASE PassMisses(t)
      <3>1. PICK i \in todo[t] : Miss(t, i)
        BY <2>5 DEF PassMisses
      <3>. QED
        BY <1>2, <2>1, <3>1 DEF CallOf
    <2>6. CASE LockMisses(t)
      BY <1>2, <2>2, <2>6 DEF LockMisses
    <2>7. CASE Enlist(t)
      BY <1>1, <2>7 DEF Enlist, history
    <2>8. CASE Wait(t)
      BY <1>1, <2>8 DEF Wait, chanVars, history
    <2>9. CASE Leave(t)
      BY <1>1, <2>9 DEF Leave, history
    <2>. QED
      BY <1>3, <2>3, <2>4, <2>5, <2>6, <2>7, <2>8, <2>9 DEF Step
  <1>4. ASSUME NEW t \in Thread, TimeOut(t) \/ WakeSpuriously(t)
        PROVE  FALSE
    BY <1>1, <1>4 DEF TimeOut, WakeSpuriously, chanVars, history
  <1>5. ASSUME NEW t \in Thread, NEW r \in Requests[t], Begin(t, r)
        PROVE  FALSE
    BY <1>1, <1>5 DEF Begin, chanVars
  <1>6. ASSUME NEW c \in Chan, Close(c)
        PROVE  Abstract!Next
    <2>1. Abstract!Close(c)
      BY <1>6 DEF Close, Abstract!Close, history
    <2>. QED
      BY <2>1 DEF Abstract!Next
  <1>7. ASSUME UNCHANGED vars
        PROVE  FALSE
    BY <1>1, <1>7 DEF vars, chanVars, history
  <1>. QED
    BY <1>1, <1>3, <1>4, <1>5, <1>6, <1>7, ClearImplements DEF Next

\* Whatever threads, selects, buffers, waiting queues, timeouts and clear() do, each
\* channel is a bounded first-in first-out queue: between the callbacks no value is lost,
\* doubled, invented or overtaken (copper.hpp, _pop_func_with_lock_general, _push_func_with_lock_general).
THEOREM ChannelIsImplemented == Spec => ImplementsChannel
  <1>. QED
    BY ChannelInit, ChannelStep, Inductive, PTL DEF Spec, ImplementsChannel, Abstract!Spec

===============================================================================
