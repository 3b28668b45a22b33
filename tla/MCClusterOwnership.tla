-------------------------- MODULE MCClusterOwnership --------------------------
(* One node settled in c1, and perhaps another admin yet to come. *)
EXTENDS ClusterOwnership

CONSTANTS c1, c2, n1, n2

OneSettled == [n \in Nodes |-> IF n = n1 THEN c1 ELSE None]

BothAdmins == {<<n1, n2>>}

NoClash == {}
===============================================================================
