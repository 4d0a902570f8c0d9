------------------------------- MODULE Cluster -------------------------------
(***************************************************************************)
(* The state the CredentialsRequest controller works on: the objects of    *)
(* the Kubernetes API server, the informer caches the operator reads them  *)
(* from, the users of AWS IAM, and the local variables of every running    *)
(* Reconcile call.                                                         *)
(*                                                                         *)
(* Abstractions.  A resourceVersion is the object's content: an update is  *)
(* refused when the stored object differs from the one the writer last     *)
(* read or wrote.  An AWS policy document is the policy of the spec it was *)
(* built from.  Time counts whole hours.  Names and key IDs are model      *)
(* values, taken fresh when the code draws them at random.                 *)
(***************************************************************************)
EXTENDS Integers, FiniteSets, Conditions

CONSTANTS
    Workers,        \* the operator processes; one unless a rollout overlaps
    CRs,            \* names of CredentialsRequests
    Refs,           \* names of secrets (namespace and name)
    Deletable,      \* bound: the CredentialsRequests that users may delete
    TargetsOf,      \* the secrets the spec of each CredentialsRequest may name
    RORef,          \* the secret with the operator's own read-only credentials
    Namespaces,
    NamespaceOf,    \* the namespace of each secret
    Policies,       \* the policies a spec may ask for
    Users,          \* IAM user names
    Keys,           \* IAM access key IDs
    InitRoots,      \* the states of the admin secret a behaviour may start in
    EditedRoots,    \* bound: the states that edits of the admin secret leave it in
    None,           \* no object, no user, no key, no policy
    SecretLag,      \* whether the secret informer may lag behind the API server
    Disturbances,   \* the kinds of faults and outside changes that may happen
    MaxFaults,      \* bound: how many of them happen in one behaviour
    MaxGen,         \* bound: the generation of a CredentialsRequest
    MaxHours        \* bound: the hours that pass

VARIABLES
    crs,            \* the CredentialsRequests in the API server
    secrets,        \* the target secrets in the API server
    namespaces,     \* the namespaces that exist
    root,           \* the admin secret in the API server
    iam,            \* the IAM users
    now,            \* the clock, in hours
    crCache,        \* each process's cached CredentialsRequests
    secretCache,    \* each process's cached secrets
    wk,             \* each process's Reconcile call
    faults          \* how many faults and outside changes have happened

apiVars == <<crs, secrets, namespaces, root>>
cacheVars == <<crCache, secretCache>>
vars == <<crs, secrets, namespaces, root, iam, now, crCache, secretCache, wk, faults>>

-----------------------------------------------------------------------------
(* The data of a target secret other than an IAM key of Keys or None (a    *)
(* data map without aws_access_key_id): the admin key, or no map at all.   *)
RootKey == "RootKey"
NilData == "NilData"

(* What syncPassthrough finds in an admin secret without keys.             *)
EmptyKey == "EmptyKey"

(* The admin secret: its annotation, which the secret annotator writes but *)
(* anybody may edit, and whether both keys are in its data.                *)
AdminSecret ==
    [mode: {"mint", "passthrough", "insufficient", "other", None}, keys: BOOLEAN]

DisturbanceKinds == {"callFails", "responseLost", "sdkRetry", "crash", "iamEdits",
                     "secretEdits", "namespaceDeletes", "rootEdits"}

Status ==
    [user: Users \cup {None}, provisioned: BOOLEAN, syncGen: Nat, syncTime: Nat,
     conds: [CondTypes -> CondStatus]]

CredentialsRequest ==
    [gen: Nat, ref: Refs, policy: Policies, finalizer: BOOLEAN, deleting: BOOLEAN,
     status: Status]

(* owner and applied are the annotations with the request and the policy.  *)
Secret ==
    [key: Keys \cup {None, RootKey, NilData}, owner: CRs \cup {None},
     applied: Policies \cup {None}]

User ==
    [tagged: BOOLEAN, policy: Policies \cup {None}, keys: SUBSET Keys]

(* Where a Reconcile call stands: the external call it makes next.         *)
DeletePCs == {"DeleteUserPolicy", "DeleteListAccessKeys", "DeleteAccessKeys", "DeleteUser",
              "clearDeprovisionFailure", "deleteTargetSecret", "removeDeprovisionFinalizer"}
SyncPCs == {"namespace", "sync", "needsUpdateUser", "needsUpdateKeys",
            "needsUpdatePolicy", "cloudCreds", "userName", "GetUser", "CreateUser", "TagUser",
            "PutUserPolicy", "ListAccessKeys", "rotateAccessKeys", "CreateAccessKey",
            "syncAccessKeySecret"}
PanicPCs == {"panicNilUser", "panicNilData"}
PCs == {"idle", "addDeprovisionFinalizer", "updateStatus"} \cup PanicPCs \cup DeletePCs \cup SyncPCs

(* base is the object as last read or written, cr the working copy; the    *)
(* rest are the locals of the actuator.                                    *)
Worker ==
    [pc: PCs, req: CRs \cup {None}, base: CredentialsRequest \cup {None},
     cr: CredentialsRequest \cup {None}, keyList: SUBSET Keys,
     existing: Secret \cup {None}, newKey: Keys \cup {None, RootKey, EmptyKey},
     rootClient: BOOLEAN]

(* A call at the given place before the actuator has set any local.        *)
Locals(pc, req, base, cr) ==
    [pc |-> pc, req |-> req, base |-> base, cr |-> cr, keyList |-> {},
     existing |-> None, newKey |-> None, rootClient |-> FALSE]

IdleWorker == Locals("idle", None, None, None)

NewStatus ==
    [user |-> None, provisioned |-> FALSE, syncGen |-> 0, syncTime |-> 0,
     conds |-> NoConditions]

ASSUME SetsAssumption ==
    /\ TargetsOf \in [CRs -> SUBSET Refs]
    /\ NamespaceOf \in [Refs -> Namespaces]
    /\ RORef \in Refs
    /\ InitRoots \cup EditedRoots \subseteq AdminSecret \cup {None}
    /\ SecretLag \in BOOLEAN
    /\ Disturbances \subseteq DisturbanceKinds
    /\ MaxFaults \in Nat /\ MaxGen \in Nat /\ MaxHours \in Nat \ {0}

ASSUME DistinctAssumption ==
    /\ None \notin CRs /\ None \notin Refs /\ None \notin Users /\ None \notin Policies
    /\ Keys \cap {None, RootKey, NilData, EmptyKey} = {}
    /\ None \notin {RootKey, NilData, EmptyKey, "mint", "passthrough", "insufficient", "other"}
    /\ None \notin CredentialsRequest /\ None \notin Secret /\ None \notin User
    /\ None \notin AdminSecret

TypeOK ==
    /\ crs \in [CRs -> CredentialsRequest \cup {None}]
    /\ secrets \in [Refs -> Secret \cup {None}]
    /\ namespaces \subseteq Namespaces
    /\ root \in AdminSecret \cup {None}
    /\ iam \in [Users -> User \cup {None}]
    /\ now \in Nat
    /\ crCache \in [Workers -> [CRs -> CredentialsRequest \cup {None}]]
    /\ secretCache \in [Workers -> [Refs -> Secret \cup {None}]]
    /\ wk \in [Workers -> Worker]
    /\ faults \in Nat

-----------------------------------------------------------------------------
Init ==
    /\ crs = [c \in CRs |-> None]
    /\ secrets = [r \in Refs |-> None]
    /\ namespaces \in SUBSET Namespaces
    /\ root \in InitRoots
    /\ iam = [u \in Users |-> None]
    /\ now = 1
    /\ crCache = [w \in Workers |-> crs]
    /\ secretCache = [w \in Workers |-> secrets]
    /\ wk = [w \in Workers |-> IdleWorker]
    /\ faults = 0

(* One more fault or outside change of the given kind.                     *)
Fault(kind) ==
    /\ kind \in Disturbances
    /\ faults < MaxFaults
    /\ faults' = faults + 1

(* One request to the API server or to AWS: it is served when the server's *)
(* condition holds and refused when it does not; it may fail without an    *)
(* effect, and its answer may be lost after the effect.                    *)
Call(accepted, effect, noEffect, onSuccess, onError) ==
    \/ accepted /\ effect /\ onSuccess /\ UNCHANGED faults
    \/ ~accepted /\ noEffect /\ onError /\ UNCHANGED faults
    \/ noEffect /\ onError /\ Fault("callFails")
    \/ accepted /\ effect /\ onError /\ Fault("responseLost")

-----------------------------------------------------------------------------
(* Local steps of a Reconcile call                                         *)

At(w, label) == wk[w].pc = label

Goto(w, label) == wk' = [wk EXCEPT ![w].pc = label]

(* Reconcile returns, with or without an error.                            *)
Return(w) == wk' = [wk EXCEPT ![w] = IdleWorker]

(* The stored object with the status of the working copy.                  *)
WithStatus(w) == [wk[w].base EXCEPT !.status = wk[w].cr.status]

(* The stored object is the one this call last read or wrote.              *)
NoConflict(w) == crs[wk[w].req] = wk[w].base

Store(w, object) == crs' = [crs EXCEPT ![wk[w].req] = object]

=============================================================================
