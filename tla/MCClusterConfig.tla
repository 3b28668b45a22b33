--------------------------- MODULE MCClusterConfig ---------------------------
(* Instances of ClusterConfig: how users treat the key and the admin nodes. *)
EXTENDS ClusterConfig

CONSTANTS k1, k2, bad

\* The spec is edited back and forth; labels and other fields are edited too.
AnyEdit == Inps \X Inps

\* The key is rotated back and forth.
Rotations == {<<k1, k2>>, <<k2, k1>>}

\* Every cluster starts with one admin.
OneAdmin == {{a} : a \in Names}

\* A key genclust refuses is replaced by a good one.
Repair == {<<bad, k1>>}

\* One admin comes or goes at a time; two at once is an error users make.
OneByOne == {c \in (SUBSET Names) \X (SUBSET Names) :
               Cardinality((c[1] \ c[2]) \cup (c[2] \ c[1])) = 1}

Untouched == {}
=============================================================================
