----------------------------- MODULE MCConfigGate -----------------------------
(* Instances of ConfigGate: how users treat the spec, the key and the admins. *)
EXTENDS ConfigGate

CONSTANTS k1, k2, a1, a2, v1, v2

\* The spec is not edited back to an earlier value.
ForwardEdits == {<<v1, v2>>}

\* A cluster that starts with an admin, or without and gets one.
SomeAdmin == {{}, {a1}}

Arrival == {<<{}, {a1}>>}

Untouched == {}
=============================================================================
