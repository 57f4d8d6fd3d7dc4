----------------------------- MODULE MCAsyncLog -----------------------------
(***************************************************************************)
(* Instances of AsyncLog for TLC: the threads are model values.            *)
(***************************************************************************)
EXTENDS AsyncLog

CONSTANTS p1, p2

\* Nothing, too much for a byte of two values, and just enough.
SomeSizes == <<0, 2, 1>>
=============================================================================
