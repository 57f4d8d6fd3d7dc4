---------------------------- MODULE MCRpcClient ----------------------------
(***************************************************************************)
(* Instances of RpcClient for TLC.                                         *)
(***************************************************************************)
EXTENDS RpcClient

CONSTANT s1

\* The default, which is endless if timeout_ is 4; no limit, which is cut to
\* nothing; a given timeout.
SomeTimeouts == {0, -1, 2}

\* The default number of retries and none.
SomeRetries == {0, -1}
=============================================================================
