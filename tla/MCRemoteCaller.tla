--------------------------- MODULE MCRemoteCaller ---------------------------
(***************************************************************************)
(* Instances of RemoteCaller for TLC: the threads are interchangeable.     *)
(***************************************************************************)
EXTENDS RemoteCaller, TLC

CONSTANTS t1, t2, c1, s1

\* No retry, and the default number of retries.
SomeRetries == {-1, 0}

SameThreads == Permutations({t1, t2})
=============================================================================
