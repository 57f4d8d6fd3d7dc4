------------------------------ MODULE MCPubSub ------------------------------
(***************************************************************************)
(* Instances of PubSub for TLC.                                            *)
(***************************************************************************)
EXTENDS PubSub

CONSTANTS p1, p2, t1, t2

\* Like "/hello" and "/world": no topic is a prefix of another.
NoPrefixes == [t \in {t1, t2} |-> {t}]

\* Like "/hello" and "/hello2".
OnePrefix == [t \in {t1, t2} |-> IF t = t1 THEN {t1, t2} ELSE {t}]
=============================================================================
