--------------------------- MODULE MCOkhttpRedirect ---------------------------
(***************************************************************************)
(* OkhttpRedirect for TLC: requests r1 and r2, the faked urls u1 and u2.   *)
(***************************************************************************)
EXTENDS OkhttpRedirect

CONSTANTS r1, r2, u1, u2, b1, b2

=============================================================================
