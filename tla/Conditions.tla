----------------------------- MODULE Conditions -----------------------------
(***************************************************************************)
(* The conditions of a CredentialsRequest's status                         *)
(* (pkg/controller/utils/condition_utils.go and the set...Condition        *)
(* helpers of the controller).  The slice of conditions holds at most one  *)
(* entry per type, so it is a function from the types to the entry's       *)
(* status, "Unset" when there is no entry.  Reasons, messages and times    *)
(* follow from the type and the status, or are free text; they are left    *)
(* out.                                                                    *)
(***************************************************************************)

Insufficient == "InsufficientCloudCreds"
MissingNamespace == "MissingTargetNamespace"
ProvisionFailure == "CredentialsProvisionFailure"
DeprovisionFailure == "CredentialsDeprovisionFailure"

CondTypes == {Insufficient, MissingNamespace, ProvisionFailure, DeprovisionFailure}

CondStatus == {"Unset", "True", "False"}

NoConditions == [t \in CondTypes |-> "Unset"]

(* An absent condition is only ever added with status True; a present one  *)
(* takes the new status.                                                   *)
SetCredentialsRequestCondition(conds, t, status) ==
    IF conds[t] = "Unset" /\ status # "True"
    THEN conds
    ELSE [conds EXCEPT ![t] = status]

(* Mutant: a condition that is switched off becomes Unknown.               *)
SetConditionUnknown(conds, t, on) ==
    SetCredentialsRequestCondition(conds, t, IF on THEN "True" ELSE "Unknown")

SetCondition(conds, t, on) ==
    SetCredentialsRequestCondition(conds, t, IF on THEN "True" ELSE "False")

(* The reason of the error is the one actuator condition that is on.       *)
updateActuatorConditions(conds, reason) ==
    SetCondition(SetCondition(conds, ProvisionFailure, reason = ProvisionFailure),
                 Insufficient, reason = Insufficient)

=============================================================================
