------------------------------- MODULE Channel -------------------------------
(***************************************************************************)
(* What a user of copper.hpp is promised about the values that go through  *)
(* its channels: each is a bounded queue, first in first out.  A value     *)
(* enters once, while the channel is open, and leaves once; what is in the *)
(* queue when the channel is closed can still be taken.                    *)
(***************************************************************************)
EXTENDS Integers, Sequences

CONSTANTS
    Chan,    \* channels
    Value,   \* values
    Unit,    \* the one value of a channel of void
    Cap      \* the capacity of each channel; 0: unbuffered

VARIABLES
    queue,   \* per channel: the values in it
    open,    \* per channel: not closed
    last,    \* per channel: the value delivered last
    used     \* the values that have entered a channel

vars == <<queue, open, last, used>>

Init ==
    /\ queue = [c \in Chan |-> <<>>]
    /\ open = [c \in Chan |-> TRUE]
    /\ last = [c \in Chan |-> Unit]
    /\ used = {}

Enter(c, v) ==
    /\ open[c]
    /\ v = Unit \/ v \notin used
    /\ used' = used \cup {v}

Push(c, v) ==
    /\ Enter(c, v)
    /\ Len(queue[c]) < Cap[c]
    /\ queue' = [queue EXCEPT ![c] = Append(@, v)]
    /\ UNCHANGED <<open, last>>

Pop(c) ==
    /\ queue[c] # <<>>
    /\ last' = [last EXCEPT ![c] = Head(queue[c])]
    /\ queue' = [queue EXCEPT ![c] = Tail(@)]
    /\ UNCHANGED <<open, used>>

\* A value comes in and the oldest one goes out: the same one if the queue was
\* empty.  This is all that an unbuffered channel does.
Exchange(c, v) ==
    /\ Enter(c, v)
    /\ last' = [last EXCEPT ![c] = Head(Append(queue[c], v))]
    /\ queue' = [queue EXCEPT ![c] = Tail(Append(@, v))]
    /\ UNCHANGED open

\* The queue is emptied; values that waited for room may come in at once.
Clear(c) ==
    /\ \E n \in 0..Cap[c] : \E vs \in [1..n -> Value] :
          /\ n > 0 => open[c]
          /\ \A i, j \in 1..n : vs[i] = Unit \/ (vs[i] \notin used /\ (vs[i] = vs[j] => i = j))
          /\ queue' = [queue EXCEPT ![c] = vs]
          /\ used' = used \cup {vs[i] : i \in 1..n}
    /\ UNCHANGED <<open, last>>

Close(c) ==
    /\ open' = [open EXCEPT ![c] = FALSE]
    /\ UNCHANGED <<queue, last, used>>

Next == \E c \in Chan :
            \/ \E v \in Value : Push(c, v) \/ Exchange(c, v)
            \/ Pop(c) \/ Clear(c) \/ Close(c)

Spec == Init /\ [][Next]_vars

=============================================================================
