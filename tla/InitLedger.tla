------------------------------ MODULE InitLedger ------------------------------
(***************************************************************************)
(* What the database controller promises the readers of an                 *)
(* IdentityServerDatabase, without Jobs, caches, conflicts or crashes: a   *)
(* ledger.  idsvr -I succeeds for some hash of image and spec; only then   *)
(* may the ledger be signed with that hash and declared ready; ready may   *)
(* be withdrawn at any time, a signature is only replaced by another one   *)
(* that was earned, and never erased.                                      *)
(***************************************************************************)
CONSTANTS
    Hashes,  \* of image and spec
    None     \* no signature yet

VARIABLES
    done,    \* hashes for which idsvr -I has succeeded
    signed,  \* status.lastCompletedHash
    ready    \* the condition Ready

vars == <<done, signed, ready>>

Init == done = {} /\ signed = None /\ ready = FALSE

\* idsvr -I succeeds, again perhaps.
Succeed(h) == done' = done \cup {h} /\ UNCHANGED <<signed, ready>>

\* The completion of h is reported.
Sign(h) ==
    /\ h \in done
    /\ signed' = h /\ ready' = TRUE
    /\ UNCHANGED done

\* The inputs have changed, or something is missing.
Withdraw == ready /\ ready' = FALSE /\ UNCHANGED <<done, signed>>

Next == (\E h \in Hashes : Succeed(h) \/ Sign(h)) \/ Withdraw

Spec == Init /\ [][Next]_vars
==============================================================================
