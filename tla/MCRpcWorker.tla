---------------------------- MODULE MCRpcWorker ----------------------------
(***************************************************************************)
(* Instances of RpcWorker for TLC: the clients are model values.           *)
(***************************************************************************)
EXTENDS RpcWorker

CONSTANTS c1, c2
=============================================================================
