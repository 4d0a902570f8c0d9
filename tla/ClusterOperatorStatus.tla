------------------------ MODULE ClusterOperatorStatus ------------------------
(***************************************************************************)
(* The conditions and the version the operator reports in its              *)
(* ClusterOperator object (pkg/controller/credentialsrequest/status.go,    *)
(* pkg/util/clusteroperator/status.go).  A condition is its status and the *)
(* numbers in its message; the reason follows from the status, and         *)
(* LastTransitionTime is left out, as ConditionsEqual does.                *)
(***************************************************************************)
EXTENDS Integers, FiniteSets, Conditions

OperatorFailing == "Failing"
OperatorProgressing == "Progressing"
OperatorAvailable == "Available"
OperatorCondTypes == {OperatorFailing, OperatorProgressing, OperatorAvailable}

OperatorCondition(status, numbers) == [status |-> status, numbers |-> numbers]

(* The object of the release payload, or one created again, has none yet.  *)
BlankConditions == [t \in OperatorCondTypes |-> OperatorCondition("Unset", <<>>)]

(* Replaces the condition of the type, or adds it.                         *)
SetStatusCondition(conds, t, condition) == [conds EXCEPT ![t] = condition]

(* Mutant: a message that changes is no change.                            *)
ConditionsEqualStatus(old, new) ==
    \A t \in OperatorCondTypes : old[t].status = new[t].status

ConditionsEqual(old, new) == old = new

(* Any of the four conditions, when true, makes a request a failing one.   *)
IsFailing(status) == \E t \in CondTypes : status.conds[t] = "True"

(* statuses maps the listed requests to their status.                      *)
computeStatusConditions(conds, statuses) ==
    LET total == Cardinality(DOMAIN statuses)
        failing == Cardinality({c \in DOMAIN statuses : IsFailing(statuses[c])})
        provisioned == Cardinality({c \in DOMAIN statuses : statuses[c].provisioned})
        failingCondition ==
            IF failing > 0
            THEN OperatorCondition("True", <<failing, total>>)
            ELSE OperatorCondition("False", <<>>)
        progressingCondition ==
            IF provisioned < total \/ failing > 0
            THEN OperatorCondition("True", <<provisioned, total, failing>>)
            ELSE OperatorCondition("False", <<total>>)
    IN  SetStatusCondition(
            SetStatusCondition(
                SetStatusCondition(conds, OperatorFailing, failingCondition),
                OperatorProgressing, progressingCondition),
            OperatorAvailable, OperatorCondition("True", <<>>))

=============================================================================
