----------------------------- MODULE MCOperator -----------------------------
(***************************************************************************)
(* Small instances of Operator for TLC.  The admin credentials are passed  *)
(* through, which keeps AWS out of the state: minting is checked with      *)
(* Reconciler, which Operator implements.                                  *)
(***************************************************************************)
EXTENDS Operator, TLC

CONSTANTS c1, c2, r1, r2, ro, n1, n2

(* A second request, or the only one when there is a single secret, asks   *)
(* for the operator's own read-only credentials.                           *)
MCTargetsOf == [c \in CRs |-> IF c = c2 \/ Refs = {ro} THEN {ro} ELSE Refs \ {ro}]

MCNamespaceOf == [r \in Refs |-> IF r = r2 /\ n2 \in Namespaces THEN n2 ELSE n1]

(* The admin secret as the secret annotator leaves it.                     *)
PassthroughRoot == {[mode |-> "passthrough", keys |-> TRUE]}
InsufficientRoot == {[mode |-> "insufficient", keys |-> TRUE]}

(* Policies are interchangeable.                                           *)
Symmetry == Permutations(Policies)

=============================================================================
