------------------------------- MODULE MCCopper -------------------------------
(* Copper on small instances.                                              *)
EXTENDS Copper, TLC

CONSTANTS A, B, t1, t2, t3

MCCap == [c \in Chan |-> IF c = A THEN 2 ELSE 0]

Pop(c)  == [chan |-> c, dir |-> "pop"]
Push(c) == [chan |-> c, dir |-> "push"]

MCMaxCalls == [t \in Thread |-> IF t = t1 THEN 1 ELSE 2]

MCRequests ==
    (t1 :> {<<<<Pop(A), Push(B)>>, "timed">>, <<<<Pop(A), Push(B)>>, "none">>})
    @@ (t2 :> {<<<<Push(A)>>, "forever">>, <<<<Pop(B), Push(A)>>, "forever">>})
    @@ (t3 :> {<<<<Push(A)>>, "timed">>, <<<<Push(A)>>, "none">>})

=============================================================================
