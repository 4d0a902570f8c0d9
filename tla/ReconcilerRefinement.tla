------------------------ MODULE ReconcilerRefinement ------------------------
(***************************************************************************)
(* The controller implements CredentialLifecycle: what the API server      *)
(* stores about a request gives its phase and its name, and AWS the users. *)
(* Caches and the local variables of running Reconcile calls play no part  *)
(* in the mapping, so whatever they hold leads only to allowed steps.      *)
(***************************************************************************)
EXTENDS Reconciler

(* HasFinalizer and the deletion timestamp of a stored request.            *)
PhaseOf(cr) ==
    IF cr = None THEN "absent"
    ELSE IF ~cr.finalizer THEN "unprotected"
    ELSE IF cr.deleting THEN "deleting"
    ELSE "protected"

NameOf(cr) == IF cr = None THEN None ELSE cr.status.user

phaseBar == [c \in CRs |-> PhaseOf(crs[c])]
nameBar == [c \in CRs |-> NameOf(crs[c])]
usersBar == {u \in Users : iam[u] # None}

Lifecycle == INSTANCE CredentialLifecycle
             WITH phase <- phaseBar, name <- nameBar, users <- usersBar,
                  OutsideEdits <- "iamEdits" \in Disturbances

(* Every step of the controller, of its users and of its faults is a step  *)
(* of the life cycle, or changes nothing of it: the user name is recorded  *)
(* under the finalizer before createUser, and deleteUser comes before the  *)
(* finalizer goes (Reconcile, syncMint, Delete).                           *)
ImplementsLifecycle == Lifecycle!Spec

=============================================================================
