---------------------------- MODULE MCRpcBroker ----------------------------
(***************************************************************************)
(* Instances of RpcBroker for TLC.                                         *)
(***************************************************************************)
EXTENDS RpcBroker, TLC

CONSTANTS w1, w2, c1, c2, s1, s2

\* w1 and w2 both provide s1, w2 also s2.
SharedOffers == w1 :> {s1} @@ w2 :> {s1, s2}

\* Both provide s1, the only service.
OneService == w1 :> {s1} @@ w2 :> {s1}

\* No service has two providers.
DisjointOffers == w1 :> {s1} @@ w2 :> {s2}
=============================================================================
