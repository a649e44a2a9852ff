-------------------------------- MODULE Strings --------------------------------
(***************************************************************************)
(* cpp/third/utils/utils.cpp: string_split, replace_all, str2hex, hex2str, *)
(* and parse_query of cpp/third/http_server/http_server.cpp, each called   *)
(* once with every input up to a length.                                   *)
(*                                                                         *)
(* Each iteration of the loops of string_split and replace_all is a step:  *)
(* whether they end is a question.  Positions are counted from 1.          *)
(***************************************************************************)
EXTENDS Naturals, Sequences, FiniteSetsExt, Functions

CONSTANTS
    MaxText,    \* bound: characters of a text
    MaxPattern, \* bound: characters of a pattern, and of its replacement
    MaxQuery,   \* bound: characters of a query; with escapes, MaxText - 1
    MaxLoops    \* bound: iterations of a loop

\* A loop that takes a character with every iteration ends before the bound, and so does
\* one that goes through texts of one length without coming back.
StringsAssumption ==
    /\ MaxText \in Nat /\ MaxPattern \in Nat /\ MaxQuery \in Nat /\ MaxLoops \in Nat
    /\ MaxText < MaxLoops /\ 2 ^ MaxText <= MaxLoops

Letters == {"a", "b"}
Symbols == {"k", "v", "&", "="}
\* An escape is one character here: of "&", of "=", or one that does not decode.
Escapes == {"%26", "%3D", "%"}

Texts(chars, n) == UNION {[1 .. m -> chars] : m \in 0 .. n}

VARIABLES
    job,        \* the function called, with its arguments
    status,     \* "run", "done", or "far": the bound on the iterations
    loops,      \* iterations
    at,         \* string_split: its position i
    text,       \* replace_all: cp
    pieces,     \* string_split: result; parse_query: the pieces still to come
    query,      \* parse_query: ret, and whether the query could be decoded
    touched     \* str2hex, hex2str: the bytes of the buffer written

vars == <<job, status, loops, at, text, pieces, query, touched>>

NoQuery == [ok |-> FALSE, ret |-> [k \in {} |-> <<>>]]

Jobs ==
    [f : {"split"}, str : Texts(Letters, MaxText), pattern : Texts(Letters, MaxPattern)]
      \cup [f : {"replace"}, str : Texts(Letters, MaxText), pattern : Texts(Letters, MaxPattern),
            new : Texts(Letters, MaxPattern)]
      \cup [f : {"query"}, str : (Texts(Symbols, MaxQuery) \cup Texts(Symbols \cup Escapes, MaxText - 1)) \ {<<>>}]
      \cup [f : {"str2hex", "hex2str"}, len : 0 .. MaxText, size : 0 .. MaxText]

TypeOK ==
    /\ job \in Jobs /\ status \in {"run", "done", "far"}
    /\ loops \in 0 .. MaxLoops /\ at \in 1 .. MaxText + 1
    /\ text \in Seq(Letters) /\ pieces \in Seq(Seq(Letters \cup Symbols \cup Escapes))
    /\ query.ok \in BOOLEAN /\ touched \subseteq 0 .. 2 * MaxText

Init ==
    /\ job \in Jobs
    /\ status = "run" /\ loops = 0 /\ at = 1
    /\ text = IF job.f = "replace" THEN job.str ELSE <<>>
    /\ pieces = <<>> /\ query = NoQuery /\ touched = {}

\* string::find from a position: the first match, or 0.
Matches(s, p, from) ==
    {k \in from .. Len(s) + 1 - Len(p) : SubSeq(s, k, k + Len(p) - 1) = p}
Find(s, p, from) == IF Matches(s, p, from) = {} THEN 0 ELSE Min(Matches(s, p, from))

\* The loop goes on, up to the bound.
GoesOn ==
    /\ status = "run" /\ loops < MaxLoops
    /\ loops' = loops + 1

-----------------------------------------------------------------------------
(* string_split.                                                           *)

\* Variants: one character too many is skipped; one too few.
Resume_Beyond(pos) == pos + Len(job.pattern) + 1

Resume_Inside(pos) == pos + (IF Len(job.pattern) = 0 THEN 0 ELSE Len(job.pattern) - 1)

\* i = pos + pattern.size() - 1, and the increment of the loop.
Resume(pos) == pos + Len(job.pattern)

Split ==
    /\ job.f = "split" /\ at <= Len(job.str) /\ GoesOn
    /\ LET pos == Find(job.str, job.pattern, at)
       IN  IF pos = 0
           THEN /\ pieces' = Append(pieces, SubSeq(job.str, at, Len(job.str)))
                /\ status' = "done" /\ UNCHANGED at
           ELSE /\ pieces' = Append(pieces, SubSeq(job.str, at, pos - 1))
                /\ at' = Resume(pos) /\ UNCHANGED status
    /\ UNCHANGED <<job, text, query, touched>>

SplitEnd ==
    /\ job.f = "split" /\ status = "run" /\ at > Len(job.str)
    /\ status' = "done"
    /\ UNCHANGED <<job, loops, at, text, pieces, query, touched>>

-----------------------------------------------------------------------------
(* replace_all: it looks for the pattern from the beginning every time,    *)
(* also in what it has put there.                                          *)

\* Variant: the replacement is put before the match.
Replaced_Before(pos) == SubSeq(text, 1, pos - 1) \o job.new \o SubSeq(text, pos, Len(text))

Replaced(pos) == SubSeq(text, 1, pos - 1) \o job.new \o SubSeq(text, pos + Len(job.pattern), Len(text))

\* Variant: the first character is left out.
Where_FromSecond == Find(text, job.pattern, 2)

Where == Find(text, job.pattern, 1)

Replace ==
    /\ job.f = "replace" /\ GoesOn
    /\ IF Where = 0 THEN status' = "done" /\ UNCHANGED text
       ELSE text' = Replaced(Where) /\ UNCHANGED status
    /\ UNCHANGED <<job, at, pieces, query, touched>>

\* Either loop is at the bound.
Far ==
    /\ status = "run" /\ loops = MaxLoops
    /\ status' = "far"
    /\ UNCHANGED <<job, loops, at, text, pieces, query, touched>>

-----------------------------------------------------------------------------
(* parse_query: the whole query is decoded first, then split.              *)

Decoded == [i \in DOMAIN job.str |->
               CASE job.str[i] = "%26" -> "&" [] job.str[i] = "%3D" -> "=" [] OTHER -> job.str[i]]

\* What string_split returns for a pattern that is not empty: its pieces from a position on.
PiecesFrom(s, p) ==
    LET from[i \in 1 .. Len(s) + 1] ==
            IF i > Len(s) THEN <<>>
            ELSE LET pos == Find(s, p, i)
                 IN  IF pos = 0 THEN <<SubSeq(s, i, Len(s))>>
                     ELSE <<SubSeq(s, i, pos - 1)>> \o from[pos + Len(p)]
    IN  from

PiecesOf(s, p) == PiecesFrom(s, p)[1]

Assign(map, k, v) == [x \in DOMAIN map \cup {k} |-> IF x = k THEN v ELSE map[x]]

\* Variant: the first of two values for a key stays.
Put_First(map, params) ==
    IF Len(params) # 2 \/ params[1] \in DOMAIN map THEN map ELSE Assign(map, params[1], params[2])

Put(map, params) == IF Len(params) # 2 THEN map ELSE Assign(map, params[1], params[2])

\* mg_url_decode fails at the first escape that is none.
Decode ==
    /\ job.f = "query" /\ status = "run" /\ ~query.ok
    /\ IF \E i \in DOMAIN job.str : job.str[i] = "%"
       THEN status' = "done" /\ UNCHANGED <<pieces, query>>
       ELSE /\ query' = [query EXCEPT !.ok = TRUE] /\ pieces' = PiecesOf(Decoded, <<"&">>)
            /\ UNCHANGED status
    /\ UNCHANGED <<job, loops, at, text, touched>>

\* One iteration of the loop over the pieces.
PutParameter ==
    /\ job.f = "query" /\ status = "run" /\ query.ok /\ pieces # <<>>
    /\ query' = [query EXCEPT !.ret = Put(@, PiecesOf(Head(pieces), <<"=">>))]
    /\ pieces' = Tail(pieces)
    /\ UNCHANGED <<job, status, loops, at, text, touched>>

ParseEnd ==
    /\ job.f = "query" /\ status = "run" /\ query.ok /\ pieces = <<>>
    /\ status' = "done"
    /\ UNCHANGED <<job, loops, at, text, pieces, query, touched>>

-----------------------------------------------------------------------------
(* str2hex(str, str_len, hex, buf_len), hex2str(hex, hex_len, str, buf_len) *)

\* Variant: the buffer is filled to its end.
HexLength_Full == IF job.len * 2 >= job.size THEN job.size \div 2 ELSE job.len

\* hex_len after the test; buf_len / 2 - 1 can be -1, which is 0 here as both leave
\* the loop out.
HexLength ==
    IF job.len * 2 >= job.size
    THEN IF job.size \div 2 = 0 THEN 0 ELSE job.size \div 2 - 1
    ELSE job.len

\* Two digits for each byte and the 0 after them, or the 0 alone.
Hex2Str ==
    /\ job.f = "hex2str" /\ status = "run"
    /\ touched' = 0 .. 2 * HexLength
    /\ status' = "done"
    /\ UNCHANGED <<job, loops, at, text, pieces, query>>

\* str_len after the test.
StrLength == IF job.len \div 2 > job.size THEN job.size * 2 ELSE job.len

Str2Hex ==
    /\ job.f = "str2hex" /\ status = "run"
    /\ touched' = {i \div 2 : i \in {j \in 0 .. MaxText : j < StrLength /\ j % 2 = 0}}
    /\ status' = "done"
    /\ UNCHANGED <<job, loops, at, text, pieces, query>>

Next ==
    \/ Split \/ SplitEnd \/ Replace \/ Far
    \/ Decode \/ PutParameter \/ ParseEnd
    \/ Hex2Str \/ Str2Hex

Spec == Init /\ [][Next]_vars

-----------------------------------------------------------------------------
(* Properties.                                                             *)

\* The sequences one after the other, with p between them.
Join(seqs, p) ==
    LET upTo[n \in 1 .. Len(seqs)] == IF n = 1 THEN seqs[1] ELSE upTo[n - 1] \o p \o seqs[n]
    IN  upTo[Len(seqs)]

\* The pieces of string_split, put together with the pattern between them, are the
\* text again, less one pattern at its end; none of them has the pattern in it.
\* They are what parse_query is modelled with (utils.cpp l. 135-154).
SplitLosesOnlyTheEnd ==
    job.f = "split" /\ status = "done" /\ job.str # <<>> =>
        /\ \/ Join(pieces, job.pattern) = job.str
           \/ Join(pieces, job.pattern) \o job.pattern = job.str
        /\ \A i \in DOMAIN pieces : Find(pieces[i], job.pattern, 1) = 0
        /\ pieces = PiecesOf(job.str, job.pattern)

\* string_split ends for every pattern that is not empty, and replace_all for a
\* pattern that is not empty and a different replacement that is no longer than it;
\* an empty pattern, or a replacement that brings the pattern back, keeps them going
\* (utils.cpp l. 140-151, 171-180).
LoopEnds ==
    status = "far" =>
        \/ job.pattern = <<>>
        \/ job.f = "replace" /\ (job.new = job.pattern \/ Len(job.new) > Len(job.pattern))

\* The text from a position on, with each match of p, from left to right, replaced once.
OnePass(s, p, new) ==
    LET from[k \in 1 .. Len(s) + 1] ==
            LET pos == Find(s, p, k)
            IN  IF pos = 0 THEN SubSeq(s, k, Len(s))
                ELSE SubSeq(s, k, pos - 1) \o new \o from[pos + Len(p)]
    IN  from

\* A replacement that has no letter of the pattern: what replace_all returns is the
\* text with each match, from left to right, replaced once (utils.cpp l. 171-180).
ReplaceIsOnePass ==
    /\ job.f = "replace" /\ status = "done" /\ job.pattern # <<>> /\ job.new # <<>>
    /\ Range(job.pattern) \cap Range(job.new) = {}
    => text = OnePass(job.str, job.pattern, job.new)[1]

\* The places after which a part of a query begins, those of the parts that are not empty,
\* and what a key and a value of theirs are.
Cuts(s) == {0} \cup {i \in DOMAIN s : s[i] = "&"}

Part(s, c) == SubSeq(s, c + 1, Min({d - 1 : d \in {e \in Cuts(s) : e > c}} \cup {Len(s)}))

Parts(s) == {c \in Cuts(s) : Part(s, c) # <<>>}

IsPair(p) == \E i \in 2 .. Len(p) - 1 : \A j \in DOMAIN p : p[j] = "=" <=> j = i

Key(p) == SubSeq(p, 1, Find(p, <<"=">>, 1) - 1)

Value(p) == SubSeq(p, Find(p, <<"=">>, 1) + 1, Len(p))

\* Each key of the parts at D with the value of its last one.
LastValues(s, D) ==
    [k \in {Key(Part(s, c)) : c \in D} |-> Value(Part(s, Max({c \in D : Key(Part(s, c)) = k})))]

\* In a query without escapes whose parts between "&" are empty or a key, one "=" and
\* a value, every parameter arrives: a key has the value of its last part
\* (http_server.cpp l. 13-34).
ParametersArrive ==
    /\ job.f = "query" /\ status = "done"
    /\ \A i \in DOMAIN job.str : job.str[i] \notin Escapes
    /\ \A c \in Parts(job.str) : IsPair(Part(job.str, c))
    => query.ok /\ query.ret = LastValues(job.str, Parts(job.str))

\* hex2str and str2hex write no byte beyond the buffer; but hex2str writes its 0
\* into a buffer of no bytes, and str2hex one byte too many for an odd text that is
\* one digit too long (utils.cpp l. 87-109, 122-132).
HexStaysInBuffer ==
    job.f \in {"hex2str", "str2hex"} =>
        \/ touched \subseteq 0 .. job.size - 1
        \/ job.f = "hex2str" /\ job.size = 0
        \/ job.f = "str2hex" /\ job.len = 2 * job.size + 1

=============================================================================
