---------------------------- MODULE MCReconciler ----------------------------
(***************************************************************************)
(* Small instances of Reconciler for TLC: one ordinary request c1 with its *)
(* secret r1, and the request cro for the operator's read-only credentials *)
(* in the secret ro.                                                       *)
(***************************************************************************)
EXTENDS ReconcilerRefinement, TLC

CONSTANTS c1, cro, r1, r2, ro, n1, n2

MCTargetsOf == [c \in CRs |-> IF c = cro THEN {ro} ELSE Refs \ {ro}]

MCNamespaceOf == [r \in Refs |-> IF r = r2 /\ n2 \in Namespaces THEN n2 ELSE n1]

(* States of the admin secret: annotated by the secret annotator, without  *)
(* its keys, and with an annotation of somebody else's.                    *)
Annotated(mode) == [mode |-> mode, keys |-> TRUE]
Keyless == [mode |-> "passthrough", keys |-> FALSE]
MintRoot == {Annotated("mint")}
Removable == {None} \cup MintRoot
AnyRoot == {None, Keyless} \cup {Annotated(m) : m \in {None, "mint", "passthrough", "insufficient", "other"}}

(* Key IDs, user names and policies are interchangeable.                   *)
Symmetry == Permutations(Keys) \cup Permutations(Users) \cup Permutations(Policies)

=============================================================================
