----------------------------- MODULE AWSActuator -----------------------------
(***************************************************************************)
(* The AWS actuator (pkg/aws/actuator/actuator.go): sync, which serves     *)
(* both Create and Update, and Delete.  One action per request to AWS or   *)
(* to the API server; reads of the informer cache are part of the step     *)
(* that uses them.  A step ends where the next request is made, or hands   *)
(* its result to Reconcile through Succeed, Fail or DeprovisionFail.       *)
(***************************************************************************)
EXTENDS Cluster

User0 == [tagged |-> FALSE, policy |-> None, keys |-> {}]

(* What Reconcile does with the result of Create, Update or Delete before  *)
(* it saves the status.                                                    *)
Finish(w, status) ==
    wk' = [wk EXCEPT ![w] = Locals("updateStatus", wk[w].req, wk[w].base,
                                   [wk[w].cr EXCEPT !.status = status])]

Succeed(w) ==
    Finish(w, [wk[w].cr.status EXCEPT !.conds = updateActuatorConditions(@, ""),
                                      !.provisioned = TRUE,
                                      !.syncTime = now,
                                      !.syncGen = wk[w].base.gen])

(* Mutant: a failure forgets the user name, for a new one to be drawn.     *)
FailedStatusForgetsUser(status, reason) ==
    [status EXCEPT !.conds = updateActuatorConditions(@, reason), !.provisioned = FALSE,
                   !.user = None]

FailedStatus(status, reason) ==
    [status EXCEPT !.conds = updateActuatorConditions(@, reason), !.provisioned = FALSE]

Fail(w, reason) == Finish(w, FailedStatus(wk[w].cr.status, reason))

DeprovisionFail(w) ==
    Finish(w, [wk[w].cr.status EXCEPT !.conds = SetCondition(@, DeprovisionFailure, TRUE)])

-----------------------------------------------------------------------------
(* Helpers: what the working copy names, and which clients can be built.   *)

UserName(w) == wk[w].cr.status.user
TheUser(w) == iam[UserName(w)]
UserExists(w) == TheUser(w) # None

userHasExpectedTags(w) == TheUser(w).tagged

(* The key of a secret without one is no key of any user.                  *)
accessKeyExists(w, key) == key \in TheUser(w).keys

(* A missing policy, or a missing user, reads as an empty one.             *)
getCurrentUserPolicy(w) == IF UserExists(w) THEN TheUser(w).policy ELSE None
getDesiredUserPolicy(w) == wk[w].cr.policy
awsPolicyEqualsDesiredPolicy(w) == getCurrentUserPolicy(w) = getDesiredUserPolicy(w)

setUserPolicy(w) == iam' = [iam EXCEPT ![UserName(w)].policy = getDesiredUserPolicy(w)]

(* A secret as a read returns it; the target secret: loadExistingSecret.   *)
ReadSecret(w, r) == IF SecretLag THEN secretCache[w][r] ELSE secrets[r]
TargetSecret(w) == ReadSecret(w, wk[w].cr.ref)

(* LoadCredsFromSecret fails when the admin secret, or a key in it, is     *)
(* missing.                                                                *)
RootClient == root # None /\ root.keys

(* The mode the admin secret is annotated with, if any.                    *)
RootMode == IF root = None THEN None ELSE root.mode

(* AWS accepts a key while it belongs to a user; the admin key always.     *)
LiveKey(k) == k = RootKey \/ \E u \in Users : iam[u] # None /\ k \in iam[u].keys

(* Mutant: the read-only credentials are never used.                       *)
ReadClientOnlyRoot(w) == RootClient

(* Whether buildReadAWSClient returns a client that AWS will answer: the   *)
(* read-only credentials when they are there and valid, the admin ones as  *)
(* the fallback, and only the admin ones for the request that mints the    *)
(* read-only credentials.  A read-only secret without a key yields a       *)
(* client whose calls all fail.                                            *)
ReadClient(w) ==
    LET own == ReadSecret(w, RORef)
    IN  IF wk[w].cr.ref = RORef \/ own = None
        THEN RootClient
        ELSE own.key \notin {None, NilData} /\ (LiveKey(own.key) \/ RootClient)

(* Key IDs and user names that no object, cache or local variable holds.   *)
FreshKey(k) ==
    /\ \A u \in Users : iam[u] # None => k \notin iam[u].keys
    /\ \A r \in Refs :
         /\ secrets[r] # None => secrets[r].key # k
         /\ \A w \in Workers : secretCache[w][r] # None => secretCache[w][r].key # k
    /\ \A w \in Workers :
         /\ k \notin wk[w].keyList /\ wk[w].newKey # k
         /\ wk[w].existing # None => wk[w].existing.key # k

FreshUser(u) ==
    /\ iam[u] = None
    /\ \A c \in CRs :
         /\ crs[c] # None => crs[c].status.user # u
         /\ \A w \in Workers : crCache[w][c] # None => crCache[w][c].status.user # u
    /\ \A w \in Workers : /\ wk[w].cr # None => wk[w].cr.status.user # u
                          /\ wk[w].base # None => wk[w].base.status.user # u

NoAPIWrite == UNCHANGED <<apiVars, now, cacheVars>>
Reads == NoAPIWrite /\ UNCHANGED iam

-----------------------------------------------------------------------------
(* sync: is an update needed?  Exists answers no when no user is recorded  *)
(* or the secret is missing, and an update is needed before any call to    *)
(* AWS; otherwise the user's tags, keys and policy are checked in turn.    *)
(* So needsUpdate never comes to its check of passed through keys, which   *)
(* is for requests without a user.                                         *)

Exists(w) == UserName(w) # None /\ TargetSecret(w) # None

sync(w) ==
    /\ At(w, "sync")
    /\ Reads
    /\ \/ ~Exists(w) /\ Goto(w, "cloudCreds") /\ UNCHANGED faults
       \/ /\ Exists(w)
          /\ IF ReadClient(w)
             THEN wk' = [wk EXCEPT ![w].pc = "needsUpdateUser",
                                   ![w].existing = TargetSecret(w)]
             ELSE Fail(w, ProvisionFailure)
          /\ UNCHANGED faults
       \/ Return(w) /\ Fault("callFails")     \* LoadInfrastructureName

needsUpdateUser(w) ==
    /\ At(w, "needsUpdateUser")
    /\ Reads
    /\ \/ UserExists(w) /\ userHasExpectedTags(w) /\ Goto(w, "needsUpdateKeys") /\ UNCHANGED faults
       \/ UserExists(w) /\ ~userHasExpectedTags(w) /\ Goto(w, "cloudCreds") /\ UNCHANGED faults
       \/ ~UserExists(w) /\ Fail(w, ProvisionFailure) /\ UNCHANGED faults
       \/ Fail(w, ProvisionFailure) /\ Fault("callFails")

needsUpdateKeys(w) ==
    /\ At(w, "needsUpdateKeys")
    /\ Reads
    /\ \/ /\ UserExists(w)
          /\ Goto(w, IF accessKeyExists(w, wk[w].existing.key)
                     THEN "needsUpdatePolicy" ELSE "cloudCreds")
          /\ UNCHANGED faults
       \/ ~UserExists(w) /\ Fail(w, ProvisionFailure) /\ UNCHANGED faults
       \/ Fail(w, ProvisionFailure) /\ Fault("callFails")

(* An error while reading the policy counts as a difference.               *)
needsUpdatePolicy(w) ==
    /\ At(w, "needsUpdatePolicy")
    /\ Reads
    /\ \/ awsPolicyEqualsDesiredPolicy(w) /\ Succeed(w) /\ UNCHANGED faults
       \/ ~awsPolicyEqualsDesiredPolicy(w) /\ Goto(w, "cloudCreds") /\ UNCHANGED faults
       \/ Goto(w, "cloudCreds") /\ Fault("callFails")

(* The annotation on the admin secret decides how to update.  One that is  *)
(* there with a value the code does not know is taken for success.         *)
cloudCreds(w) ==
    /\ At(w, "cloudCreds")
    /\ Reads
    /\ UNCHANGED faults
    /\ \/ RootMode = None /\ Fail(w, ProvisionFailure)
       \/ RootMode = "insufficient" /\ Fail(w, Insufficient)
       \/ /\ RootMode = "passthrough"
          /\ wk' = [wk EXCEPT ![w].pc = "syncAccessKeySecret",
                              ![w].existing = TargetSecret(w),
                              ![w].newKey = IF root.keys THEN RootKey ELSE EmptyKey]
       \/ RootMode = "mint" /\ Goto(w, "userName")
       \/ RootMode = "other" /\ Succeed(w)

-----------------------------------------------------------------------------
(* syncMint *)

(* Mutant: the new name stays in memory until the final status update.     *)
updateProviderStatusLater(w) ==
    \E u \in Users :
        /\ FreshUser(u)
        /\ wk' = [wk EXCEPT ![w].cr.status.user = u, ![w].pc = "GetUser"]
        /\ UNCHANGED <<crs, faults>>

(* A new user name is saved in the status before the user is created.  The *)
(* working copy keeps the name even when saving it failed.                 *)
updateProviderStatus(w) ==
    \E u \in Users :
        LET named == [wk[w].cr EXCEPT !.status.user = u]
            stored == [wk[w].base EXCEPT !.status = named.status]
        IN  /\ FreshUser(u)
            /\ Call(NoConflict(w),
                    Store(w, stored), UNCHANGED crs,
                    wk' = [wk EXCEPT ![w].cr = named, ![w].base = stored, ![w].pc = "GetUser"],
                    Finish(w, FailedStatus(named.status, ProvisionFailure)))

userName(w) ==
    /\ At(w, "userName")
    /\ UNCHANGED <<secrets, namespaces, root, iam, now, cacheVars>>
    /\ \/ UserName(w) # None /\ Goto(w, "GetUser") /\ UNCHANGED <<crs, faults>>
       \/ UserName(w) = None /\ updateProviderStatus(w)

(* Mutant: only a user that this call creates is tagged.                   *)
GetUserTagsNew(w) ==
    /\ At(w, "GetUser")
    /\ Reads
    /\ UNCHANGED faults
    /\ \/ /\ ReadClient(w) /\ RootClient
          /\ wk' = [wk EXCEPT ![w].rootClient = TRUE,
                              ![w].pc = IF UserExists(w) THEN "PutUserPolicy" ELSE "CreateUser"]
       \/ ~(ReadClient(w) /\ RootClient) /\ Fail(w, ProvisionFailure)

(* The admin client is built here once; without one, the steps that need   *)
(* it fail.                                                                *)
GetUser(w) ==
    /\ At(w, "GetUser")
    /\ Reads
    /\ \/ /\ ReadClient(w) /\ (UserExists(w) \/ RootClient)
          /\ wk' = [wk EXCEPT ![w].rootClient = RootClient,
                              ![w].pc = IF ~UserExists(w) THEN "CreateUser"
                                        ELSE IF userHasExpectedTags(w) THEN "PutUserPolicy"
                                        ELSE "TagUser"]
          /\ UNCHANGED faults
       \/ /\ ~(ReadClient(w) /\ (UserExists(w) \/ RootClient))
          /\ Fail(w, ProvisionFailure)
          /\ UNCHANGED faults
       \/ Fail(w, ProvisionFailure) /\ Fault("callFails")

(* createUser answers "already exists" with nil and no error, and syncMint *)
(* then reads createOut.User.  The SDK retries a request whose answer was  *)
(* lost, so the user may be the one the first attempt created.             *)
CreateUser(w) ==
    LET created == iam' = [iam EXCEPT ![UserName(w)] = User0]
    IN  /\ At(w, "CreateUser")
        /\ NoAPIWrite
        /\ \/ ~UserExists(w) /\ created /\ Goto(w, "TagUser") /\ UNCHANGED faults
           \/ UserExists(w) /\ Goto(w, "panicNilUser") /\ UNCHANGED <<iam, faults>>
           \/ ~UserExists(w) /\ created /\ Goto(w, "panicNilUser") /\ Fault("sdkRetry")
           \/ ~UserExists(w) /\ created /\ Fail(w, ProvisionFailure) /\ Fault("responseLost")
           \/ Fail(w, ProvisionFailure) /\ Fault("callFails") /\ UNCHANGED iam

TagUser(w) ==
    /\ At(w, "TagUser")
    /\ NoAPIWrite
    /\ Call(UserExists(w) /\ wk[w].rootClient,
            iam' = [iam EXCEPT ![UserName(w)].tagged = TRUE], UNCHANGED iam,
            Goto(w, "PutUserPolicy"), Fail(w, ProvisionFailure))

(* The policy is put when it differs from the desired one or cannot be     *)
(* read.                                                                   *)
PutUserPolicy(w) ==
    /\ At(w, "PutUserPolicy")
    /\ NoAPIWrite
    /\ \/ awsPolicyEqualsDesiredPolicy(w) /\ Goto(w, "ListAccessKeys") /\ UNCHANGED <<iam, faults>>
       \/ /\ ~awsPolicyEqualsDesiredPolicy(w)
          /\ Call(UserExists(w) /\ wk[w].rootClient,
                  setUserPolicy(w), UNCHANGED iam,
                  Goto(w, "ListAccessKeys"), Fail(w, ProvisionFailure))
       \/ awsPolicyEqualsDesiredPolicy(w) /\ Fail(w, ProvisionFailure) /\ Fault("callFails") /\ UNCHANGED iam

(* The key of the cached secret is kept when the user still has it.        *)
ListAccessKeys(w) ==
    LET kept == TargetSecret(w) # None /\ accessKeyExists(w, TargetSecret(w).key)
    IN  /\ At(w, "ListAccessKeys")
        /\ Reads
        /\ \/ /\ UserExists(w) /\ (kept \/ wk[w].rootClient)
              /\ wk' = [wk EXCEPT ![w].pc = IF kept THEN "syncAccessKeySecret"
                                            ELSE "rotateAccessKeys",
                                  ![w].existing = TargetSecret(w),
                                  ![w].keyList = TheUser(w).keys]
              /\ UNCHANGED faults
           \/ /\ ~(UserExists(w) /\ (kept \/ wk[w].rootClient))
              /\ Fail(w, ProvisionFailure)
              /\ UNCHANGED faults
           \/ Fail(w, ProvisionFailure) /\ Fault("callFails")

(* deleteAllAccessKeys: one listed key per request, in any order.  A key   *)
(* that is gone is an error.                                               *)
deleteAccessKey(w, k, onError) ==
    Call(UserExists(w) /\ k \in TheUser(w).keys,
         iam' = [iam EXCEPT ![UserName(w)].keys = @ \ {k}], UNCHANGED iam,
         wk' = [wk EXCEPT ![w].keyList = @ \ {k}], onError)

(* Mutant: without a secret there is nothing to rotate.                    *)
rotateAccessKeysOfSecret(w) ==
    /\ At(w, "rotateAccessKeys")
    /\ NoAPIWrite
    /\ \/ \E k \in wk[w].keyList : deleteAccessKey(w, k, Fail(w, ProvisionFailure))
       \/ /\ wk[w].keyList = {} \/ wk[w].existing = None
          /\ Goto(w, "CreateAccessKey")
          /\ UNCHANGED <<iam, faults>>

rotateAccessKeys(w) ==
    /\ At(w, "rotateAccessKeys")
    /\ NoAPIWrite
    /\ \/ \E k \in wk[w].keyList : deleteAccessKey(w, k, Fail(w, ProvisionFailure))
       \/ wk[w].keyList = {} /\ Goto(w, "CreateAccessKey") /\ UNCHANGED <<iam, faults>>

(* AWS allows a user two keys.  When the SDK retries a request whose       *)
(* answer was lost, the user has both the key of the first attempt, which  *)
(* nobody knows, and that of the second; a second attempt that meets the   *)
(* limit is refused, which looks like a lost answer.                       *)
CreateAccessKey(w) ==
    LET issued(new) == iam' = [iam EXCEPT ![UserName(w)].keys = @ \cup new]
        goOn(k) == wk' = [wk EXCEPT ![w].pc = "syncAccessKeySecret", ![w].newKey = k]
    IN  /\ At(w, "CreateAccessKey")
        /\ NoAPIWrite
        /\ \E k \in Keys :
             /\ FreshKey(k)
             /\ \/ Call(UserExists(w) /\ Cardinality(TheUser(w).keys) < 2,
                        issued({k}), UNCHANGED iam, goOn(k), Fail(w, ProvisionFailure))
                \/ \E first \in Keys \ {k} :
                     /\ FreshKey(first)
                     /\ UserExists(w) /\ TheUser(w).keys = {}
                     /\ issued({first, k}) /\ goOn(k) /\ Fault("sdkRetry")

-----------------------------------------------------------------------------
(* syncAccessKeySecret: create the secret, or update the one that was read.*)

(* Whether there is key data to store.                                     *)
KeyGiven(w) == wk[w].newKey \notin {None, EmptyKey}

(* The policy annotation is empty when the admin key is passed through.    *)
SecretWith(w, k) ==
    [key |-> k, owner |-> wk[w].req,
     applied |-> IF wk[w].newKey \in {RootKey, EmptyKey} THEN None ELSE wk[w].cr.policy]

createSecret(w) ==
    LET ref == wk[w].cr.ref
    IN  \/ ~KeyGiven(w) /\ Fail(w, ProvisionFailure) /\ UNCHANGED <<secrets, faults>>
        \/ /\ KeyGiven(w)
           /\ Call(secrets[ref] = None /\ NamespaceOf[ref] \in namespaces,
                   secrets' = [secrets EXCEPT ![ref] = SecretWith(w, wk[w].newKey)],
                   UNCHANGED secrets,
                   Succeed(w), Fail(w, ProvisionFailure))

(* A key is written into existingSecret.Data, which is nil when the secret *)
(* holds no data.  Without a key only the annotations are updated.         *)
updateSecret(w) ==
    LET ref == wk[w].cr.ref
        old == wk[w].existing
        new == SecretWith(w, IF KeyGiven(w) THEN wk[w].newKey ELSE old.key)
    IN  \/ /\ KeyGiven(w) /\ old.key = NilData
           /\ Goto(w, "panicNilData")
           /\ UNCHANGED <<secrets, faults>>
        \/ /\ ~(KeyGiven(w) /\ old.key = NilData)
           /\ new = old
           /\ Succeed(w)
           /\ UNCHANGED <<secrets, faults>>
        \/ /\ ~(KeyGiven(w) /\ old.key = NilData)
           /\ new # old
           /\ Call(secrets[ref] = old,
                   secrets' = [secrets EXCEPT ![ref] = new], UNCHANGED secrets,
                   Succeed(w), Fail(w, ProvisionFailure))

syncAccessKeySecret(w) ==
    /\ At(w, "syncAccessKeySecret")
    /\ UNCHANGED <<crs, namespaces, root, iam, now, cacheVars>>
    /\ \/ wk[w].existing = None /\ createSecret(w)
       \/ wk[w].existing # None /\ updateSecret(w)

Sync(w) ==
    \/ sync(w) \/ needsUpdateUser(w) \/ needsUpdateKeys(w) \/ needsUpdatePolicy(w)
    \/ cloudCreds(w) \/ userName(w) \/ GetUser(w) \/ CreateUser(w) \/ TagUser(w)
    \/ PutUserPolicy(w) \/ ListAccessKeys(w) \/ rotateAccessKeys(w)
    \/ CreateAccessKey(w) \/ syncAccessKeySecret(w)

-----------------------------------------------------------------------------
(* Delete: policy, keys, user.  What is already gone is no error, except   *)
(* for a listed key.                                                       *)

(* Mutant: without the admin secret there is nothing to delete.            *)
DeleteUserPolicySkipped(w) ==
    /\ At(w, "DeleteUserPolicy")
    /\ Reads
    /\ UNCHANGED faults
    /\ Goto(w, IF UserName(w) # None /\ RootClient
               THEN "DeleteListAccessKeys" ELSE "clearDeprovisionFailure")

(* Mutant: a user that is already gone is an error.                        *)
DeleteUserPolicyStrict(w) ==
    /\ At(w, "DeleteUserPolicy")
    /\ NoAPIWrite
    /\ \/ UserName(w) = None /\ Goto(w, "clearDeprovisionFailure") /\ UNCHANGED <<iam, faults>>
       \/ /\ UserName(w) # None
          /\ Call(RootClient /\ UserExists(w),
                  iam' = [iam EXCEPT ![UserName(w)].policy = None], UNCHANGED iam,
                  Goto(w, "DeleteListAccessKeys"), DeprovisionFail(w))

DeleteUserPolicy(w) ==
    /\ At(w, "DeleteUserPolicy")
    /\ NoAPIWrite
    /\ \/ UserName(w) = None /\ Goto(w, "clearDeprovisionFailure") /\ UNCHANGED <<iam, faults>>
       \/ /\ UserName(w) # None
          /\ ~RootClient
          /\ DeprovisionFail(w)
          /\ UNCHANGED <<iam, faults>>
       \/ /\ UserName(w) # None
          /\ RootClient
          /\ Call(TRUE,
                  iam' = [iam EXCEPT ![UserName(w)] =
                             IF @ = None THEN @ ELSE [@ EXCEPT !.policy = None]],
                  UNCHANGED iam,
                  Goto(w, "DeleteListAccessKeys"), DeprovisionFail(w))

DeleteListAccessKeys(w) ==
    /\ At(w, "DeleteListAccessKeys")
    /\ Reads
    /\ \/ ~UserExists(w) /\ Goto(w, "clearDeprovisionFailure") /\ UNCHANGED faults
       \/ /\ UserExists(w)
          /\ wk' = [wk EXCEPT ![w].pc = "DeleteAccessKeys", ![w].keyList = TheUser(w).keys]
          /\ UNCHANGED faults
       \/ DeprovisionFail(w) /\ Fault("callFails")

DeleteAccessKeys(w) ==
    /\ At(w, "DeleteAccessKeys")
    /\ NoAPIWrite
    /\ \/ \E k \in wk[w].keyList : deleteAccessKey(w, k, DeprovisionFail(w))
       \/ wk[w].keyList = {} /\ Goto(w, "DeleteUser") /\ UNCHANGED <<iam, faults>>

(* AWS refuses to delete a user that still has keys or a policy.           *)
DeleteUser(w) ==
    /\ At(w, "DeleteUser")
    /\ NoAPIWrite
    /\ Call(UserExists(w) => TheUser(w).keys = {} /\ TheUser(w).policy = None,
            iam' = [iam EXCEPT ![UserName(w)] = None], UNCHANGED iam,
            Goto(w, "clearDeprovisionFailure"), DeprovisionFail(w))

Delete(w) ==
    \/ DeleteUserPolicy(w) \/ DeleteListAccessKeys(w) \/ DeleteAccessKeys(w) \/ DeleteUser(w)

=============================================================================
