--------------------------- MODULE SecretAnnotator ---------------------------
(***************************************************************************)
(* The secretannotator controller                                          *)
(* (pkg/controller/secretannotator/secretannotator_controller.go), which   *)
(* validates the admin credentials in the secret kube-system/aws-creds     *)
(* against AWS and writes the mode they allow into an annotation, with the *)
(* permission checks of pkg/controller/utils/utils.go.  Reconciler reads   *)
(* that annotation (its variable root) and lets it change at any time.     *)
(*                                                                         *)
(* Abstractions.  Of the resourceVersion of a copy, only whether it is the *)
(* latest is kept.  What AWS allows a pair of keys is one of Grants.       *)
(***************************************************************************)
EXTENDS Integers, WorkQueue

CONSTANTS
    Creds,          \* pairs of access key ID and secret access key
    None,           \* no object, no credentials, no annotation
    MaxSecretEdits, \* bound: changes of the secret by others
    MaxGrantEdits,  \* bound: changes of what AWS allows the credentials
    MaxFaults       \* bound: failing calls and crashes

VARIABLES
    secret,         \* the admin secret in the API server
    cache,          \* the informer's copy
    cacheCurrent,   \* whether that copy has the latest resourceVersion
    grants,         \* what AWS allows each pair of keys
    queue,          \* the work queue
    call,           \* the Reconcile call that is running
    edits,          \* how often the secret was changed by others
    grantEdits,     \* how often grants was changed
    faults

secretVars == <<secret, cache, cacheCurrent>>
bounds == <<edits, grantEdits, faults>>
vars == <<secret, cache, cacheCurrent, grants, queue, call, edits, grantEdits, faults>>

CloudCredSecretName == "aws-creds"

Modes == {"mint", "passthrough", "insufficient"}

(* Nothing at all, only iam:GetUser, that and iam:SimulatePrincipalPolicy, *)
(* all of credPassthroughActions, all of credMintingActions, or everything *)
(* as the root user of the account.                                        *)
Grants == {"invalid", "getUser", "simulate", "passthrough", "mint", "root"}

(* Without both keys in its data, a secret holds no credentials.           *)
Secret == [creds: Creds \cup {None}, mode: Modes \cup {None}]

(* base is the secret as read, current whether it has not changed since.   *)
Idle == [pc |-> "idle", base |-> None, current |-> FALSE, mode |-> None]

ASSUME BoundsAssumption == MaxSecretEdits \in Nat /\ MaxGrantEdits \in Nat /\ MaxFaults \in Nat

ASSUME NoneAssumption == None \notin Creds /\ None \notin Modes /\ None \notin Secret

TypeOK ==
    /\ secret \in Secret \cup {None} /\ cache \in Secret \cup {None}
    /\ grants \in [Creds -> Grants]
    /\ queue \in Queue({CloudCredSecretName})
    /\ call \in [pc: {"idle", "LoadInfrastructureName", "GetUser", "SimulatePrincipalPolicy",
                      "updateSecretAnnotations", "updateAfterError"},
                 base: Secret \cup {None}, current: BOOLEAN, mode: Modes \cup {None}]
    /\ cacheCurrent \in BOOLEAN
    /\ edits \in 0..MaxSecretEdits /\ grantEdits \in 0..MaxGrantEdits
    /\ faults \in 0..MaxFaults

Init ==
    /\ secret \in {None} \cup {s \in Secret : s.mode = None}
    /\ cache = None /\ cacheCurrent = (secret = None)
    /\ grants \in [Creds -> Grants]
    /\ queue = EmptyQueue
    /\ call = Idle
    /\ edits = 0 /\ grantEdits = 0 /\ faults = 0

Fault == faults < MaxFaults /\ faults' = faults + 1 /\ UNCHANGED <<edits, grantEdits>>
NoFault == UNCHANGED bounds

-----------------------------------------------------------------------------
(* Reconcile *)

Goto(pc, mode) == call' = [call EXCEPT !.pc = pc, !.mode = mode] /\ UNCHANGED queue

Return(failed) == call' = Idle /\ queue' = Done(queue, failed)

(* The mode a call is checking for is the one it will annotate with.       *)
(* A secret that is gone is an error like any other.                       *)
Reconcile ==
    /\ call.pc = "idle"
    /\ queue.list # <<>>
    /\ UNCHANGED <<secretVars, grants, bounds>>
    /\ IF cache = None
       THEN call' = Idle /\ queue' = Done(Get(queue), TRUE)
       ELSE /\ queue' = Get(queue)
            /\ call' = [base |-> cache, current |-> cacheCurrent,
                        pc |-> IF cache.creds = None
                               THEN "updateSecretAnnotations" ELSE "LoadInfrastructureName",
                        mode |-> IF cache.creds = None THEN "insufficient" ELSE "mint"]

LoadInfrastructureName ==
    /\ call.pc = "LoadInfrastructureName"
    /\ UNCHANGED <<secretVars, grants>>
    /\ \/ Goto("GetUser", call.mode) /\ NoFault
       \/ Return(TRUE) /\ Fault

(* Which checks a grant passes: CheckCloudCredCreation for mint,           *)
(* CheckCloudCredPassthrough for passthrough.                              *)
Passes(grant, mode) == grant = "root" \/ grant = mode

(* What validateCloudCredsSecret does with the answer to a check.          *)
Checked(passed) ==
    \/ passed /\ Goto("updateSecretAnnotations", call.mode)
    \/ ~passed /\ call.mode = "mint" /\ Goto("GetUser", "passthrough")
    \/ ~passed /\ call.mode = "passthrough" /\ Goto("updateSecretAnnotations", "insufficient")

(* Mutant: a check that fails leaves an empty annotation.                  *)
CheckFailedBlank == Goto("updateAfterError", "")

CheckFailed == Goto("updateAfterError", "insufficient")

(* The root user is good enough without further questions.                 *)
getClientDetails ==
    LET grant == grants[call.base.creds]
    IN  /\ call.pc = "GetUser"
        /\ UNCHANGED <<secretVars, grants>>
        /\ \/ grant = "invalid" /\ CheckFailed /\ NoFault
           \/ grant = "root" /\ Checked(TRUE) /\ NoFault
           \/ /\ grant \notin {"invalid", "root"}
              /\ Goto("SimulatePrincipalPolicy", call.mode)
              /\ NoFault
           \/ CheckFailed /\ Fault

CheckPermissions ==
    LET grant == grants[call.base.creds]
    IN  /\ call.pc = "SimulatePrincipalPolicy"
        /\ UNCHANGED <<secretVars, grants>>
        /\ \/ grant \in {"invalid", "getUser"} /\ CheckFailed /\ NoFault
           \/ /\ grant \notin {"invalid", "getUser"}
              /\ Checked(Passes(grant, call.mode))
              /\ NoFault
           \/ CheckFailed /\ Fault

(* Update of the object as read; an update that changes nothing leaves it  *)
(* at its resourceVersion.                                                 *)
Write(mode) ==
    /\ secret' = [secret EXCEPT !.mode = mode]
    /\ cacheCurrent' = (cacheCurrent /\ secret' = secret)
    /\ UNCHANGED cache

(* Mutant: the annotation is patched in, whatever the secret has become.   *)
updateSecretAnnotationsForced ==
    /\ call.pc \in {"updateSecretAnnotations", "updateAfterError"}
    /\ UNCHANGED grants
    /\ \/ /\ secret # None /\ Write(call.mode)
          /\ Return(call.pc = "updateAfterError")
          /\ NoFault
       \/ secret = None /\ UNCHANGED secretVars /\ Return(TRUE) /\ NoFault

(* Mutant: a check that could not be made is not made again.               *)
updateSecretAnnotationsFinal ==
    /\ call.pc \in {"updateSecretAnnotations", "updateAfterError"}
    /\ UNCHANGED grants
    /\ \/ call.current /\ Write(call.mode) /\ Return(FALSE) /\ NoFault
       \/ ~call.current /\ UNCHANGED secretVars /\ Return(TRUE) /\ NoFault

(* The whole object is written back under the conflict check; the request  *)
(* may fail, or its answer be lost.  After a check that failed, the error  *)
(* of the check is returned in any case.                                   *)
updateSecretAnnotations ==
    /\ call.pc \in {"updateSecretAnnotations", "updateAfterError"}
    /\ UNCHANGED grants
    /\ \/ /\ call.current /\ Write(call.mode)
          /\ Return(call.pc = "updateAfterError")
          /\ NoFault
       \/ ~call.current /\ UNCHANGED secretVars /\ Return(TRUE) /\ NoFault
       \/ UNCHANGED secretVars /\ Return(TRUE) /\ Fault
       \/ call.current /\ Write(call.mode) /\ Return(TRUE) /\ Fault

AnnotatorStep ==
    \/ Reconcile \/ LoadInfrastructureName \/ getClientDetails \/ CheckPermissions
    \/ updateSecretAnnotations

-----------------------------------------------------------------------------
(* The watch, the queue's timers, and the process *)

Enqueue == queue' = AddAll(queue, {CloudCredSecretName})

Watch ==
    /\ ~cacheCurrent
    /\ cache' = secret /\ cacheCurrent' = TRUE
    /\ Enqueue
    /\ UNCHANGED <<secret, grants, call, bounds>>

(* Mutant: the predicate drops updates that change nothing.                *)
ResyncFiltered == FALSE /\ UNCHANGED vars

(* The informer reports what it holds once more as an update.              *)
Resync ==
    /\ cache # None
    /\ CloudCredSecretName \notin queue.dirty
    /\ Enqueue
    /\ UNCHANGED <<secretVars, grants, call, bounds>>

BackoffOver ==
    /\ queue.delayed # {}
    /\ queue' = Retry(queue, CloudCredSecretName)
    /\ UNCHANGED <<secretVars, grants, call, bounds>>

Restart ==
    /\ call.pc # "idle"
    /\ Fault
    /\ call' = Idle
    /\ cache' = secret /\ cacheCurrent' = TRUE
    /\ queue' = AddAll(EmptyQueue, IF secret = None THEN {} ELSE {CloudCredSecretName})
    /\ UNCHANGED <<secret, grants>>

-----------------------------------------------------------------------------
(* Others create, delete, or edit the secret: its keys, or its annotation. *)
EditSecret ==
    /\ edits < MaxSecretEdits
    /\ edits' = edits + 1
    /\ secret' \in (Secret \cup {None}) \ {secret}
    /\ cacheCurrent' = FALSE
    /\ call' = [call EXCEPT !.current = FALSE]
    /\ UNCHANGED <<cache, grants, queue, grantEdits, faults>>

(* The policies of the user behind the keys are changed in AWS.            *)
EditGrants ==
    /\ grantEdits < MaxGrantEdits
    /\ grantEdits' = grantEdits + 1
    /\ \E c \in Creds, g \in Grants \ {"root"} :
         grants[c] # "root" /\ grants' = [grants EXCEPT ![c] = g]
    /\ UNCHANGED <<secretVars, queue, call, edits, faults>>

Next ==
    \/ AnnotatorStep \/ Watch \/ Resync \/ BackoffOver \/ Restart
    \/ EditSecret \/ EditGrants

Spec == Init /\ [][Next]_vars

(* The worker runs on, the watch delivers, timers expire.                  *)
FairSpec ==
    Spec /\ WF_vars(AnnotatorStep) /\ WF_vars(Watch) /\ WF_vars(Resync) /\ WF_vars(BackoffOver)

-----------------------------------------------------------------------------
(* Properties *)

(* The mode the credentials of the secret allow.                           *)
Mode(s) ==
    IF s.creds = None THEN "insufficient"
    ELSE CASE grants[s.creds] \in {"root", "mint"} -> "mint"
           [] grants[s.creds] = "passthrough" -> "passthrough"
           [] OTHER -> "insufficient"

(* While AWS allows the same, a write of the annotator never claims a mode *)
(* that the credentials in the secret do not allow, even if they were      *)
(* replaced while the old ones were being checked.  It may claim too       *)
(* little, when a check failed (updateSecretAnnotations).                  *)
NeverClaimsTooMuch ==
    [][AnnotatorStep /\ secret' # secret /\ grantEdits = 0
       => secret'.mode \in {Mode(secret'), "insufficient"}]_vars

(* While AWS allows the same, nothing is left to do only when the          *)
(* annotation says what the credentials allow: no failed check, conflict,  *)
(* crash or edit of the annotation is forgotten (Reconcile's errors).      *)
AnnotatedAtRest ==
    /\ call = Idle /\ queue = EmptyQueue
    /\ cacheCurrent /\ secret # None
    /\ grantEdits = 0
    => secret.mode = Mode(secret)

(* The annotation ends up at what AWS allows the credentials to do, also   *)
(* when that changes, which nothing reports: the resync finds it.          *)
AnnotationConverges == <>[](secret # None => secret.mode = Mode(secret))

=============================================================================
