----------------------------- MODULE Reconciler -----------------------------
(***************************************************************************)
(* The CredentialsRequest controller                                       *)
(* (pkg/controller/credentialsrequest/credentialsrequest_controller.go)    *)
(* with the AWS actuator, the users and components that edit the cluster,  *)
(* and the faults.  A process runs one Reconcile call at a time.  Which    *)
(* event woke it is left open: any request may be reconciled at any time,  *)
(* so what holds here holds for every order of the work queue.             *)
(***************************************************************************)
EXTENDS AWSActuator

-----------------------------------------------------------------------------
(* Reconcile *)

(* Mutant: a changed spec replaces the user instead of updating it.        *)
ReconcileReplacing(w, c) ==
    LET cr == crCache[w][c]
    IN  /\ At(w, "idle")
        /\ cr # None
        /\ wk' = [wk EXCEPT ![w] = Locals(IF \/ cr.deleting
                                             \/ cr.gen > cr.status.syncGen /\ cr.status.syncGen > 0
                                          THEN "DeleteUserPolicy"
                                          ELSE IF cr.finalizer THEN "namespace"
                                          ELSE "addDeprovisionFinalizer",
                                          c, cr, cr)]
        /\ Reads
        /\ UNCHANGED faults

(* Mutant: the finalizer is left for later.                                *)
ReconcileUnprotected(w, c) ==
    LET cr == crCache[w][c]
    IN  /\ At(w, "idle")
        /\ cr # None
        /\ wk' = [wk EXCEPT ![w] = Locals(IF cr.deleting THEN "DeleteUserPolicy" ELSE "namespace",
                                          c, cr, cr)]
        /\ Reads
        /\ UNCHANGED faults

(* The request is read from the cache.  Nothing is done for one that is    *)
(* gone, or deleted and without the finalizer.                             *)
Reconcile(w, c) ==
    LET cr == crCache[w][c]
    IN  /\ At(w, "idle")
        /\ cr # None
        /\ cr.deleting => cr.finalizer
        /\ wk' = [wk EXCEPT ![w] = Locals(IF cr.deleting THEN "DeleteUserPolicy"
                                          ELSE IF cr.finalizer THEN "namespace"
                                          ELSE "addDeprovisionFinalizer",
                                          c, cr, cr)]
        /\ Reads
        /\ UNCHANGED faults

addDeprovisionFinalizer(w) ==
    /\ At(w, "addDeprovisionFinalizer")
    /\ Call(NoConflict(w),
            Store(w, [wk[w].base EXCEPT !.finalizer = TRUE]), UNCHANGED crs,
            Return(w), Return(w))
    /\ UNCHANGED <<secrets, namespaces, root, iam, now, cacheVars>>

(* Mutant: a changed spec waits for the hour as well.                      *)
RecentlySyncedAnySpec(cr) ==
    cr.status.syncTime # 0 /\ cr.status.syncTime + 1 > now

(* The sync is skipped for an hour after it last succeeded, unless the     *)
(* spec has changed.                                                       *)
RecentlySynced(cr) ==
    /\ cr.gen = cr.status.syncGen
    /\ cr.status.syncTime # 0 /\ cr.status.syncTime + 1 > now

checkNamespace(w) ==
    LET found == NamespaceOf[wk[w].cr.ref] \in namespaces
        cr == [wk[w].cr EXCEPT !.status.conds = SetCondition(@, MissingNamespace, ~found)]
    IN  /\ At(w, "namespace")
        /\ Reads
        /\ \/ /\ ~found
              /\ wk' = [wk EXCEPT ![w].cr = cr, ![w].pc = "updateStatus"]
              /\ UNCHANGED faults
           \/ /\ found /\ RecentlySynced(cr)
              /\ Return(w)
              /\ UNCHANGED faults
           \/ /\ found /\ ~RecentlySynced(cr)
              /\ wk' = [wk EXCEPT ![w].cr = cr, ![w].pc = "sync"]
              /\ UNCHANGED faults
           \/ Return(w) /\ Fault("callFails")

(* The last write of Reconcile; an error only leads to another Reconcile.  *)
updateStatus(w) ==
    /\ At(w, "updateStatus")
    /\ UNCHANGED <<secrets, namespaces, root, iam, now, cacheVars>>
    /\ \/ wk[w].cr.status = wk[w].base.status /\ Return(w) /\ UNCHANGED <<crs, faults>>
       \/ /\ wk[w].cr.status # wk[w].base.status
          /\ Call(NoConflict(w), Store(w, WithStatus(w)), UNCHANGED crs, Return(w), Return(w))

-----------------------------------------------------------------------------
(* Reconcile of a deleted request, after Actuator.Delete *)

(* An error of this update is only logged.                                 *)
clearDeprovisionFailure(w) ==
    LET status == [wk[w].cr.status EXCEPT !.conds = SetCondition(@, DeprovisionFailure, FALSE)]
        stored == [wk[w].base EXCEPT !.status = status]
        next == [wk EXCEPT ![w].cr.status = status, ![w].pc = "deleteTargetSecret"]
    IN  /\ At(w, "clearDeprovisionFailure")
        /\ UNCHANGED <<secrets, namespaces, root, iam, now, cacheVars>>
        /\ \/ status = wk[w].base.status /\ wk' = next /\ UNCHANGED <<crs, faults>>
           \/ /\ status # wk[w].base.status
              /\ Call(NoConflict(w), Store(w, stored), UNCHANGED crs,
                      wk' = [next EXCEPT ![w].base = stored], wk' = next)

(* Mutant: a secret that could not be deleted does not keep the request.   *)
deleteTargetSecretLenient(w) ==
    LET ref == wk[w].cr.ref
    IN  /\ At(w, "deleteTargetSecret")
        /\ UNCHANGED <<crs, namespaces, root, iam, now, cacheVars>>
        /\ Goto(w, "removeDeprovisionFinalizer")
        /\ \/ secrets' = [secrets EXCEPT ![ref] = None] /\ UNCHANGED faults
           \/ UNCHANGED secrets /\ Fault("callFails")

(* The secret is looked up in the cache and deleted by name.               *)
deleteTargetSecret(w) ==
    LET ref == wk[w].cr.ref
    IN  /\ At(w, "deleteTargetSecret")
        /\ UNCHANGED <<crs, namespaces, root, iam, now, cacheVars>>
        /\ \/ /\ TargetSecret(w) = None
              /\ Goto(w, "removeDeprovisionFinalizer")
              /\ UNCHANGED <<secrets, faults>>
           \/ /\ TargetSecret(w) # None
              /\ Call(secrets[ref] # None,
                      secrets' = [secrets EXCEPT ![ref] = None], UNCHANGED secrets,
                      Goto(w, "removeDeprovisionFinalizer"), Return(w))

(* The object goes with its last finalizer.                                *)
removeDeprovisionFinalizer(w) ==
    /\ At(w, "removeDeprovisionFinalizer")
    /\ Call(NoConflict(w), Store(w, None), UNCHANGED crs, Return(w), Return(w))
    /\ UNCHANGED <<secrets, namespaces, root, iam, now, cacheVars>>

WorkerStep(w) ==
    \/ addDeprovisionFinalizer(w) \/ checkNamespace(w) \/ Sync(w) \/ updateStatus(w)
    \/ Delete(w) \/ clearDeprovisionFailure(w) \/ deleteTargetSecret(w)
    \/ removeDeprovisionFinalizer(w)

(* Whether the step that ends a Reconcile call ends it with an error: the  *)
(* last request failed or met a conflict, or the actuator had failed.      *)
ReturnsError(w) ==
    LET cr == wk[w].cr
    IN  \/ faults' # faults
        \/ wk[w].pc = "deleteTargetSecret"
        \/ /\ wk[w].pc \in {"addDeprovisionFinalizer", "removeDeprovisionFinalizer"}
           /\ ~NoConflict(w)
        \/ /\ wk[w].pc = "updateStatus"
           /\ \/ cr.deleting
              \/ ~cr.status.provisioned /\ cr.status.conds[MissingNamespace] # "True"
              \/ cr.status # wk[w].base.status /\ ~NoConflict(w)

-----------------------------------------------------------------------------
(* The process dies, or has panicked, and is started again: its caches are *)
(* filled from the API server before its worker runs.                      *)
Restart(w) ==
    /\ \/ wk[w].pc \in PanicPCs /\ UNCHANGED faults
       \/ wk[w].pc \notin PanicPCs \cup {"idle"} /\ Fault("crash")
    /\ Return(w)
    /\ crCache' = [crCache EXCEPT ![w] = crs]
    /\ secretCache' = IF SecretLag THEN [secretCache EXCEPT ![w] = secrets] ELSE secretCache
    /\ UNCHANGED <<apiVars, iam, now>>

(* The informers catch up, one object at a time and in any order.          *)
SyncCRCache(w, c) ==
    /\ crCache[w][c] # crs[c]
    /\ crCache' = [crCache EXCEPT ![w][c] = crs[c]]
    /\ UNCHANGED <<apiVars, iam, now, secretCache, wk, faults>>

SyncSecretCache(w, r) ==
    /\ SecretLag
    /\ secretCache[w][r] # secrets[r]
    /\ secretCache' = [secretCache EXCEPT ![w][r] = secrets[r]]
    /\ UNCHANGED <<apiVars, iam, now, crCache, wk, faults>>

-----------------------------------------------------------------------------
(* The cluster's users *)

CreateCR(c) ==
    /\ crs[c] = None
    /\ \E r \in TargetsOf[c], p \in Policies :
         crs' = [crs EXCEPT ![c] =
                   [gen |-> 1, ref |-> r, policy |-> p, finalizer |-> FALSE,
                    deleting |-> FALSE, status |-> NewStatus]]
    /\ UNCHANGED <<secrets, namespaces, root, iam, now, cacheVars, wk, faults>>

EditSpec(c) ==
    /\ crs[c] # None
    /\ crs[c].gen < MaxGen
    /\ \E r \in TargetsOf[c], p \in Policies :
         /\ <<r, p>> # <<crs[c].ref, crs[c].policy>>
         /\ crs' = [crs EXCEPT ![c].ref = r, ![c].policy = p, ![c].gen = @ + 1]
    /\ UNCHANGED <<secrets, namespaces, root, iam, now, cacheVars, wk, faults>>

DeleteCR(c) ==
    /\ c \in Deletable
    /\ crs[c] # None
    /\ ~crs[c].deleting
    /\ crs' = [crs EXCEPT ![c] = IF @.finalizer THEN [@ EXCEPT !.deleting = TRUE] ELSE None]
    /\ UNCHANGED <<secrets, namespaces, root, iam, now, cacheVars, wk, faults>>

CreateNamespace(n) ==
    /\ n \notin namespaces
    /\ namespaces' = namespaces \cup {n}
    /\ UNCHANGED <<crs, secrets, root, iam, now, cacheVars, wk, faults>>

(* A namespace goes with its secrets.                                      *)
DeleteNamespace(n) ==
    /\ n \in namespaces
    /\ Fault("namespaceDeletes")
    /\ namespaces' = namespaces \ {n}
    /\ secrets' = [r \in Refs |-> IF NamespaceOf[r] = n THEN None ELSE secrets[r]]
    /\ UNCHANGED <<crs, root, iam, now, cacheVars, wk>>

(* Somebody deletes a secret, empties it, or creates it without data.      *)
EditSecret(r) ==
    LET found == IF secrets[r] = None
                 THEN [key |-> None, owner |-> None, applied |-> None]
                 ELSE secrets[r]
    IN  /\ Fault("secretEdits")
        /\ NamespaceOf[r] \in namespaces
        /\ \E s \in {None} \cup {[found EXCEPT !.key = k] : k \in {None, NilData}} :
             secrets' = [secrets EXCEPT ![r] = s]
        /\ UNCHANGED <<crs, namespaces, root, iam, now, cacheVars, wk>>

(* The admin secret is removed, restored, emptied, or annotated anew.      *)
EditRoot ==
    /\ Fault("rootEdits")
    /\ root' \in EditedRoots
    /\ UNCHANGED <<crs, secrets, namespaces, iam, now, cacheVars, wk>>

(* Somebody deletes a key or a whole user in AWS.                          *)
EditIAM(u) ==
    /\ Fault("iamEdits")
    /\ iam[u] # None
    /\ \/ iam' = [iam EXCEPT ![u] = None]
       \/ \E k \in iam[u].keys : iam' = [iam EXCEPT ![u].keys = @ \ {k}]
    /\ UNCHANGED <<apiVars, now, cacheVars, wk>>

Tick ==
    /\ now < MaxHours
    /\ now' = now + 1
    /\ UNCHANGED <<apiVars, iam, cacheVars, wk, faults>>

Environment ==
    \/ \E c \in CRs : CreateCR(c) \/ EditSpec(c) \/ DeleteCR(c)
    \/ \E n \in Namespaces : CreateNamespace(n) \/ DeleteNamespace(n)
    \/ \E r \in Refs : EditSecret(r)
    \/ \E u \in Users : EditIAM(u)
    \/ EditRoot
    \/ Tick

Next ==
    \/ \E w \in Workers :
         \/ WorkerStep(w)
         \/ Restart(w)
         \/ \E c \in CRs : Reconcile(w, c) \/ SyncCRCache(w, c)
         \/ \E r \in Refs : SyncSecretCache(w, r)
    \/ Environment

Spec == Init /\ [][Next]_vars

(* The worker goroutine runs on, a restarted process comes up, the watches *)
(* deliver, and every request is reconciled again and again: after an      *)
(* error by the rate limited queue, otherwise at the latest by the resync  *)
(* of the informers.  The queue is first in, first out, hence the strong   *)
(* fairness for each request.                                              *)
Fairness ==
    \A w \in Workers :
        /\ WF_vars(WorkerStep(w))
        /\ WF_vars(wk[w].pc \in PanicPCs /\ Restart(w))
        /\ \A c \in CRs : SF_vars(Reconcile(w, c)) /\ WF_vars(SyncCRCache(w, c))
        /\ \A r \in Refs : WF_vars(SyncSecretCache(w, r))

FairSpec == Spec /\ Fairness

-----------------------------------------------------------------------------
(* Properties *)

Owns(c, u) == crs[c] # None /\ crs[c].finalizer /\ crs[c].status.user = u

(* Every IAM user the operator has made is recorded in the status of a     *)
(* request that still carries the deprovision finalizer: whatever crashes, *)
(* whatever answer is lost and however stale the caches are, no user is    *)
(* left in AWS that nothing will ever delete (FinalizerDeprovision,        *)
(* updateProviderStatus before createUser, Delete before the finalizer).   *)
NoOrphanUser ==
    \A u \in Users : iam[u] # None => \E c \in CRs : Owns(c, u)

(* A user is given a new key only once every earlier one is deleted:       *)
(* deleteAllAccessKeys runs before createAccessKey, on a list read in the  *)
(* same call.  So a key whose secret was lost with an answer, or that the  *)
(* SDK's own retry left behind, goes with the next rotation, and the limit *)
(* of two keys is never met.                                               *)
KeysAreReplaced ==
    [][\A u \in Users :
         /\ iam[u] # None /\ iam'[u] # None
         /\ ~(iam'[u].keys \subseteq iam[u].keys)
         => iam[u].keys = {}]_vars

(* What a request promises its component: the target secret holds the      *)
(* admin key or a live key of the request's user, and that user is tagged  *)
(* and has the policy of the current spec.                                 *)
Usable(c) ==
    LET cr == crs[c]
        s == secrets[cr.ref]
    IN  /\ s # None
        /\ \/ s.key = RootKey
           \/ /\ cr.status.user # None
              /\ iam[cr.status.user] # None
              /\ s.key \in iam[cr.status.user].keys
              /\ iam[cr.status.user].policy = cr.policy
              /\ iam[cr.status.user].tagged

(* Whenever a call looks up the secret its request names, the cache holds  *)
(* it as stored.                                                           *)
FreshReads ==
    \A w \in Workers :
        wk[w].pc \in {"sync", "cloudCreds", "ListAccessKeys", "deleteTargetSecret"}
        => TargetSecret(w) = secrets[wk[w].cr.ref]

(* When Reconcile would return early because the request was synced less   *)
(* than an hour ago and has not changed, there really is nothing to sync:  *)
(* no Reconcile call that is over has left the request half updated behind *)
(* a status that says otherwise.                                           *)
SkippedSyncIsSound ==
    \A c \in CRs :
        /\ crs[c] # None /\ ~crs[c].deleting
        /\ RecentlySynced(crs[c])
        /\ \A w \in Workers : wk[w].req # c
        => Usable(c)

(* A request that was pointed at another secret leaves the old one behind, *)
(* but once it is synced for its new spec, the old secret holds no key     *)
(* that AWS still accepts: the missing new secret makes syncMint replace   *)
(* the key, whatever was interrupted on the way.                           *)
AbandonedSecretIsDead ==
    \A c \in CRs, r \in Refs :
        /\ secrets[r] # None /\ secrets[r].owner = c /\ secrets[r].key \in Keys
        /\ crs[c] # None /\ crs[c].ref # r /\ crs[c].status.syncGen = crs[c].gen
        => ~LiveKey(secrets[r].key)

(* A user name, once recorded in a request's status, is never replaced or  *)
(* erased (updateProviderStatus, and every other status update, under the  *)
(* conflict check of the API server).                                      *)
UserNameStable ==
    [][\A c \in CRs :
         crs[c] # None /\ crs'[c] # None /\ crs[c].status.user # None
         => crs'[c].status.user = crs[c].status.user]_vars

(* The operator deletes an IAM user only when the request that records it  *)
(* has been deleted, never because of what a stale copy of the request     *)
(* says (Actuator.Delete).                                                 *)
UserDeletedOnlyWithRequest ==
    [][\A u \in Users :
         iam[u] # None /\ iam'[u] = None
         => \E c \in CRs : Owns(c, u) /\ crs[c].deleting]_vars

(* A request goes only when the secret its latest spec names is gone, also *)
(* when the spec is changed while the request is being deleted: Reconcile  *)
(* deletes the secret before it removes the finalizer, and the update of   *)
(* the finalizer is refused when the request has changed.                  *)
DeletedRequestLeavesNoSecret ==
    [][\A c \in CRs :
         crs[c] # None /\ crs[c].finalizer /\ crs'[c] = None
         => secrets[crs[c].ref] = None]_vars

(* A deleted request is deprovisioned and goes away, however its           *)
(* Reconcile calls are interrupted and at whatever moment the admin secret *)
(* is removed, provided that it is restored.                               *)
DeletionCompletes ==
    <>[]RootClient
    => \A c \in CRs : (crs[c] # None /\ crs[c].deleting) ~> crs[c] = None

(* A request whose namespace exists ends up provisioned for its current    *)
(* spec with a usable secret, unless it is deleted or its spec is pointed  *)
(* at a namespace that does not exist, provided that an admin secret that  *)
(* was removed is restored.                                                *)
RequestsGetProvisioned ==
    <>[]RootClient
    => \A c \in CRs :
         (crs[c] # None /\ NamespaceOf[crs[c].ref] \in namespaces)
         ~> \/ crs[c] = None
            \/ crs[c].deleting
            \/ NamespaceOf[crs[c].ref] \notin namespaces
            \/ /\ crs[c].status.provisioned
               /\ crs[c].status.syncGen = crs[c].gen
               /\ Usable(c)

(* With the admin secret removed and every request fulfilled, a request    *)
(* with minted credentials other than the operator's own stays             *)
(* provisioned: the read-only credentials are enough to find that nothing  *)
(* needs an update (needsUpdate, buildReadAWSClient).                      *)
Fulfilled(c) ==
    /\ crs[c] # None /\ ~crs[c].deleting
    /\ crs[c].status.provisioned /\ crs[c].status.syncGen = crs[c].gen
    /\ Usable(c)

MintedSurvivesAdminRemoval ==
    [][(root = None /\ \A c \in CRs : Fulfilled(c))
       => \A c \in CRs :
            crs[c].ref # RORef /\ secrets[crs[c].ref].key # RootKey
            => crs'[c] # None /\ crs'[c].status.provisioned]_vars

-----------------------------------------------------------------------------
(* Statements of the repository that some behaviour of the code refutes    *)

(* README: "If the admin credentials are missing, but all credentials      *)
(* requests are fulfilled and valid, this is considered a valid state."    *)
(* So nothing the operator does in such a state ends it.                   *)
AdminRemovalIsValid ==
    [][(root = None /\ \A c \in CRs : Fulfilled(c))
       => \A c \in CRs : crs'[c] # None /\ crs'[c].status.provisioned]_vars

(* Exists: whether "the user exists in AWS and is correctly configured"    *)
(* "will all be handled in both Create and Update".  So a request that is  *)
(* due for a sync does not go without its user for ever.                   *)
MissingUserIsRecreated ==
    \A c \in CRs, u \in Users :
        []<>~(/\ crs[c] # None /\ ~crs[c].deleting /\ ~RecentlySynced(crs[c])
              /\ NamespaceOf[crs[c].ref] \in namespaces
              /\ crs[c].status.user = u /\ iam[u] = None)
=============================================================================
