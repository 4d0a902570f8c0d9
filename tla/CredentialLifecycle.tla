------------------------- MODULE CredentialLifecycle -------------------------
(***************************************************************************)
(* What the operator promises about the IAM users it makes, without the    *)
(* API server, the caches, the calls that fail and the process that dies.  *)
(* A request is protected by the deprovision finalizer before a user name  *)
(* is recorded for it; a user exists only under a recorded name; it is     *)
(* removed only after the request was deleted; and a deleted request is    *)
(* released only when its user is gone.                                    *)
(***************************************************************************)
CONSTANTS
    CRs,            \* names of CredentialsRequests
    Users,          \* IAM user names
    None,           \* no name recorded
    OutsideEdits    \* whether others delete users in AWS

VARIABLES
    phase,          \* how far each request has got
    name,           \* the user name recorded for each request
    users           \* the IAM users that exist

vars == <<phase, name, users>>

Phases == {"absent", "unprotected", "protected", "deleting"}

Init ==
    /\ phase = [c \in CRs |-> "absent"]
    /\ name = [c \in CRs |-> None]
    /\ users = {}

Request(c) ==
    /\ phase[c] = "absent"
    /\ phase' = [phase EXCEPT ![c] = "unprotected"]
    /\ UNCHANGED <<name, users>>

Protect(c) ==
    /\ phase[c] = "unprotected"
    /\ phase' = [phase EXCEPT ![c] = "protected"]
    /\ UNCHANGED <<name, users>>

(* Without the finalizer a deleted request is gone at once.                *)
Withdraw(c) ==
    /\ \/ phase[c] = "unprotected" /\ phase' = [phase EXCEPT ![c] = "absent"]
       \/ phase[c] = "protected" /\ phase' = [phase EXCEPT ![c] = "deleting"]
    /\ UNCHANGED <<name, users>>

(* A name is recorded once, and no two requests share one.                 *)
Record(c, u) ==
    /\ phase[c] = "protected"
    /\ name[c] = None
    /\ u \notin users
    /\ \A d \in CRs : name[d] # u
    /\ name' = [name EXCEPT ![c] = u]
    /\ UNCHANGED <<phase, users>>

(* A call that began before the deletion may still create the user.        *)
Create(c, u) ==
    /\ phase[c] \in {"protected", "deleting"}
    /\ name[c] = u
    /\ u \notin users
    /\ users' = users \cup {u}
    /\ UNCHANGED <<phase, name>>

Remove(c, u) ==
    /\ phase[c] = "deleting"
    /\ name[c] = u
    /\ u \in users
    /\ users' = users \ {u}
    /\ UNCHANGED <<phase, name>>

Release(c) ==
    /\ phase[c] = "deleting"
    /\ name[c] \notin users
    /\ phase' = [phase EXCEPT ![c] = "absent"]
    /\ name' = [name EXCEPT ![c] = None]
    /\ UNCHANGED users

(* Somebody else deletes a user in AWS.                                    *)
Vanish(u) ==
    /\ OutsideEdits
    /\ u \in users
    /\ users' = users \ {u}
    /\ UNCHANGED <<phase, name>>

Next ==
    \/ \E c \in CRs :
         \/ Request(c) \/ Protect(c) \/ Withdraw(c) \/ Release(c)
         \/ \E u \in Users : Record(c, u) \/ Create(c, u) \/ Remove(c, u)
    \/ \E u \in Users : Vanish(u)

Spec == Init /\ [][Next]_vars

=============================================================================
