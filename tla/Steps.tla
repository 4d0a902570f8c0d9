-------------------------------- MODULE Steps --------------------------------
(***************************************************************************)
(* What the steps of Reconciler do, as predicates on objects, calls and    *)
(* steps.  CallProofs proves them from the actions; the invariants are     *)
(* proved from them alone.                                                 *)
(***************************************************************************)
EXTENDS Reconciler

-----------------------------------------------------------------------------
(* The state of the calls *)

(* The steps that work on the user the working copy names.                 *)
NamedPCs ==
    {"needsUpdateUser", "needsUpdateKeys", "needsUpdatePolicy", "GetUser", "CreateUser",
     "TagUser", "PutUserPolicy", "ListAccessKeys", "rotateAccessKeys", "CreateAccessKey",
     "DeleteListAccessKeys", "DeleteAccessKeys", "DeleteUser"}

(* What the locals of a Reconcile call satisfy on their own.  The working  *)
(* copy names the user of the base, or the base names none; only a deleted *)
(* request is deprovisioned, and only one with the finalizer is synced.    *)
GoodWorkers ==
    {k \in Worker :
        /\ k.pc # "idle" => /\ k.req \in CRs
                            /\ k.base \in CredentialsRequest
                            /\ k.cr \in CredentialsRequest
                            /\ k.base.status.user \in {None, k.cr.status.user}
        /\ k.pc \in NamedPCs => k.cr.status.user # None
        /\ k.pc \in SyncPCs => k.base.finalizer /\ ~k.base.deleting
        /\ k.pc = "addDeprovisionFinalizer" => ~k.base.deleting
        /\ k.pc \in DeletePCs => k.base.deleting /\ k.base.status.user = k.cr.status.user}

TypeInv == TypeOK /\ wk \in [Workers -> GoodWorkers]

-----------------------------------------------------------------------------
(* A step of a call *)

(* The body of UserNameStable.                                             *)
KeepsNames ==
    \A c \in CRs :
        crs[c] # None /\ crs'[c] # None /\ crs[c].status.user # None
        => crs'[c].status.user = crs[c].status.user

(* Two copies of a request that differ at most in their status.            *)
SameButStatus(x, y) ==
    /\ x.gen = y.gen /\ x.ref = y.ref /\ x.policy = y.policy
    /\ x.finalizer = y.finalizer /\ x.deleting = y.deleting

(* Two statuses with the same record of the last sync.                     *)
SameSync(s, t) == s.syncGen = t.syncGen /\ s.syncTime = t.syncTime

(* The secret that syncAccessKeySecret wants: it keeps the key it has when *)
(* there is no new one.                                                    *)
Wanted(w) ==
    SecretWith(w, IF ~KeyGiven(w) /\ wk[w].existing # None
                  THEN wk[w].existing.key ELSE wk[w].newKey)

(* A sync succeeds where the policy needs no update, where the annotation  *)
(* of the admin secret is unknown, or where the target secret is written   *)
(* or already as wanted.                                                   *)
SyncDone(w) ==
    \/ wk[w].pc = "cloudCreds" /\ RootMode = "other" /\ UNCHANGED secrets
    \/ /\ wk[w].pc = "needsUpdatePolicy"
       /\ awsPolicyEqualsDesiredPolicy(w) /\ UNCHANGED secrets
    \/ /\ wk[w].pc = "syncAccessKeySecret"
       /\ \/ secrets' = [secrets EXCEPT ![wk[w].cr.ref] = Wanted(w)]
          \/ UNCHANGED secrets /\ wk[w].existing # None /\ wk[w].existing = Wanted(w)

(* A call draws a user name that nothing else mentions, and goes on only   *)
(* when the request records it.                                            *)
DrawsName(w) ==
    LET n == wk'[w]
        u == n.cr.status.user
    IN  /\ wk[w].pc = "userName" /\ UserName(w) = None /\ u \in Users /\ FreshUser(u)
        /\ n.pc \in SyncPCs => crs'[wk[w].req] = n.base /\ n.base.status.user = u

(* What a step of a call does to the call itself: it leaves the others     *)
(* alone, returns, or goes on with the same request and, but for a drawn   *)
(* name, the same user, and stays on its path through Reconcile.  Only a   *)
(* sync that succeeds changes the record of the last sync.                 *)
Proceeds(w) ==
    LET k == wk[w]
        n == wk'[w]
    IN  /\ k.pc # "idle"
        /\ \A v \in Workers \ {w} : wk'[v] = wk[v]
        /\ n.pc # "idle" =>
             /\ n.req = k.req
             /\ SameButStatus(n.base, k.base)
             /\ SameButStatus(n.cr, k.cr)
             /\ n.cr.status.user = k.cr.status.user \/ DrawsName(w)
             /\ \/ SameSync(n.cr.status, k.cr.status)
                \/ /\ n.pc = "updateStatus" /\ SyncDone(w)
                   /\ n.cr.status.syncGen = k.base.gen /\ n.cr.status.syncTime = now
             /\ \/ n.base = k.base
                \/ n.base = crs'[k.req] /\ SameSync(n.base.status, k.cr.status)
        /\ n.pc # "addDeprovisionFinalizer"
        /\ n.pc \in SyncPCs => k.pc \in SyncPCs
        /\ n.pc \in DeletePCs => k.pc \in DeletePCs
        /\ n.pc = "removeDeprovisionFinalizer" => k.pc = "deleteTargetSecret"
        /\ n.pc = "updateStatus" => k.pc \in SyncPCs \cup DeletePCs /\ n.base = k.base

(* The steps of a sync after the check of the namespace.                   *)
ActuatorPCs == SyncPCs \ {"namespace"}

(* The request with another status.                                        *)
Updated(new, old, status) ==
    new \in CredentialsRequest /\ SameButStatus(new, old) /\ new.status = status

(* The request with the deprovision finalizer.                             *)
Protected(new, old) ==
    /\ new \in CredentialsRequest /\ new.finalizer
    /\ new.gen = old.gen /\ new.ref = old.ref /\ new.policy = old.policy
    /\ new.deleting = old.deleting /\ new.status = old.status

(* What a step of a call does to the stored requests: it replaces only its *)
(* own, and only one that is still the copy it holds.  The finalizer is    *)
(* added, a fresh user name recorded, a status saved, or the request goes. *)
Writes(w) ==
    LET k == wk[w]
        old == crs[k.req]
        new == crs'[k.req]
    IN  /\ \A c \in CRs \ {k.req} : crs'[c] = crs[c]
        /\ \/ new = old
           \/ old = k.base /\ k.pc = "removeDeprovisionFinalizer" /\ new = None
           \/ /\ old = k.base /\ k.pc = "addDeprovisionFinalizer"
              /\ Protected(new, k.base)
           \/ /\ old = k.base /\ k.pc = "updateStatus"
              /\ Updated(new, k.base, k.cr.status)
           \/ /\ old = k.base /\ k.pc = "clearDeprovisionFailure"
              /\ \E s \in Status : /\ s.user = k.cr.status.user /\ SameSync(s, k.cr.status)
                                /\ s.provisioned = k.cr.status.provisioned
                                /\ Updated(new, k.base, s)
           \/ /\ old = k.base /\ k.pc = "userName" /\ UserName(w) = None
              /\ \E u \in Users :
                   /\ FreshUser(u)
                   /\ \E s \in Status : /\ s.user = u /\ SameSync(s, k.cr.status)
                                     /\ s.provisioned = k.cr.status.provisioned
                                     /\ Updated(new, k.base, s)
                   /\ wk'[w].cr.status.user = u

(* Keys are added, and nothing mentioned them before.                      *)
AddsKeys(new, old) == old \subseteq new /\ \A j \in new \ old : j \in Keys /\ FreshKey(j)

(* What a step of a call does to the user of its working copy; every other *)
(* user is left alone.                                                     *)
UsesIAM(w) ==
    LET pc == wk[w].pc
        u == UserName(w)
        x == iam[u]
        y == iam'[u]
    IN  /\ \A v \in Users \ {u} : iam'[v] = iam[v]
        /\ \/ y = x
           \/ pc = "CreateUser" /\ x = None /\ y = User0
           \/ pc = "DeleteUser" /\ y = None
           \/ /\ x # None /\ y # None
              /\ \/ pc = "TagUser" /\ y.tagged /\ y.policy = x.policy /\ y.keys = x.keys
                 \/ /\ pc = "PutUserPolicy" /\ y.tagged = x.tagged
                    /\ y.policy = wk[w].cr.policy /\ y.keys = x.keys
                 \/ /\ pc = "rotateAccessKeys" /\ y.tagged = x.tagged
                    /\ y.policy = x.policy /\ y.keys \subseteq x.keys
                 \/ /\ pc = "CreateAccessKey" /\ y.tagged = x.tagged /\ y.policy = x.policy
                    /\ AddsKeys(y.keys, x.keys)
                 \/ pc \in DeletePCs /\ y.keys \subseteq x.keys

(* The users a step of a call creates and deletes, and the keys it adds:   *)
(* only createAccessKey adds any.                                          *)
ChangesUsers(w) ==
    \A u \in Users :
        /\ iam[u] = None /\ iam'[u] # None
             => wk[w].pc = "CreateUser" /\ u = UserName(w) /\ iam'[u].keys = {}
        /\ iam[u] # None /\ iam'[u] = None
             => wk[w].pc = "DeleteUser" /\ u = UserName(w)
        /\ iam[u] # None /\ iam'[u] # None
             => \/ iam'[u].keys \subseteq iam[u].keys
                \/ wk[w].pc = "CreateAccessKey" /\ u = UserName(w)

(* A step of sync that finds what was read before.                         *)
Keeps(w) == wk'[w].existing = wk[w].existing /\ wk'[w].newKey = wk[w].newKey

(* What a call knows when it goes on with a sync: which secret it has      *)
(* read, and what it has found or made of the user.                        *)
Advances(w) ==
    LET k == wk[w]
        n == wk'[w]
        s == TargetSecret(w)
        before == TheUser(w)
        after == iam'[UserName(w)]
    IN  \/ /\ k.pc = "namespace" /\ n.pc = "sync" /\ n.newKey = k.newKey
           /\ ~RecentlySynced(n.cr)
        \/ /\ k.pc \in {"sync", "needsUpdateUser", "needsUpdateKeys", "needsUpdatePolicy"}
           /\ n.pc = "cloudCreds" /\ n.newKey = k.newKey
        \/ k.pc = "cloudCreds" /\ n.pc = "userName" /\ RootMode = "mint" /\ n.newKey = k.newKey
        \/ /\ n.pc \in {"GetUser", "CreateUser", "TagUser"} /\ n.newKey = k.newKey
           /\ k.pc \in {"userName", "GetUser", "CreateUser"}
        \/ k.pc = "sync" /\ n.pc = "needsUpdateUser" /\ n.newKey = k.newKey /\ n.existing = s /\ s # None
        \/ /\ k.pc = "needsUpdateUser" /\ n.pc = "needsUpdateKeys" /\ Keeps(w)
           /\ before # None /\ before.tagged
        \/ /\ k.pc = "needsUpdateKeys" /\ n.pc = "needsUpdatePolicy" /\ Keeps(w)
           /\ before # None /\ k.existing.key \in before.keys
        \/ /\ k.pc = "cloudCreds" /\ n.pc = "syncAccessKeySecret" /\ RootMode = "passthrough"
           /\ n.existing = s /\ n.newKey = IF root.keys THEN RootKey ELSE EmptyKey
        \/ /\ k.pc \in {"GetUser", "TagUser"} /\ n.pc = "PutUserPolicy" /\ n.newKey = k.newKey
           /\ after # None /\ after.tagged
        \/ /\ k.pc = "PutUserPolicy" /\ n.pc = "ListAccessKeys" /\ n.newKey = k.newKey
           /\ after # None /\ after.policy = k.cr.policy
        \/ /\ k.pc = "ListAccessKeys" /\ n.pc = "rotateAccessKeys" /\ n.newKey = k.newKey
           /\ before # None /\ n.existing = s /\ n.keyList = before.keys
           /\ s = None \/ s.key \notin before.keys
        \/ /\ k.pc = "ListAccessKeys" /\ n.pc = "syncAccessKeySecret" /\ n.newKey = k.newKey
           /\ before # None /\ n.existing = s /\ s # None /\ s.key \in before.keys
        \/ /\ k.pc = "rotateAccessKeys" /\ n.pc = "rotateAccessKeys" /\ Keeps(w)
           /\ \E j : n.keyList = k.keyList \ {j} /\ after.keys = before.keys \ {j}
        \/ k.pc = "rotateAccessKeys" /\ n.pc = "CreateAccessKey" /\ Keeps(w) /\ k.keyList = {}
        \/ /\ k.pc = "CreateAccessKey" /\ n.pc = "syncAccessKeySecret"
           /\ n.existing = k.existing /\ n.newKey \in Keys /\ FreshKey(n.newKey)
           /\ before # None /\ n.newKey \in after.keys /\ AddsKeys(after.keys, before.keys)

(* What a step of a call does to the target secrets: deleteTargetSecret    *)
(* and syncAccessKeySecret write the one of the working copy.              *)
WritesSecret(w) ==
    LET r == wk[w].cr.ref
    IN  /\ \/ UNCHANGED secrets
           \/ wk[w].pc = "deleteTargetSecret" /\ secrets' = [secrets EXCEPT ![r] = None]
           \/ wk[w].pc = "syncAccessKeySecret" /\ secrets' = [secrets EXCEPT ![r] = Wanted(w)]
        /\ wk'[w].pc \in SyncPCs => UNCHANGED secrets
        /\ wk'[w].pc = "removeDeprovisionFinalizer" =>
             \/ TargetSecret(w) = None /\ UNCHANGED secrets
             \/ secrets' = [secrets EXCEPT ![r] = None]

(* The condition on which Reconcile and namespaceMapFn decide.             *)
Missing(status) == status.conds[MissingNamespace] = "True"

(* Two statuses that say the same of the last sync.                        *)
SameReport(s, t) == SameSync(s, t) /\ s.provisioned = t.provisioned

(* What checkNamespace finds out.                                          *)
ChecksNamespace(w) ==
    LET k == wk[w]
        n == wk'[w]
    IN  /\ n.pc \in {"idle", "sync", "updateStatus"}
        /\ n.pc = "idle" => faults' # faults \/ RecentlySynced(k.cr)
        /\ n.pc # "idle" => n.base = k.base /\ SameReport(n.cr.status, k.cr.status)
        /\ n.pc = "sync" => ~RecentlySynced(k.cr) /\ ~Missing(n.cr.status)
        /\ n.pc = "updateStatus" =>
             NamespaceOf[k.cr.ref] \notin namespaces /\ Missing(n.cr.status)

(* What the actuator hands to Reconcile: without an error the request is   *)
(* provisioned for its spec, with one it is not provisioned.               *)
Concludes(w) ==
    LET k == wk[w]
        n == wk'[w]
    IN  /\ Missing(n.cr.status) <=> Missing(k.cr.status)
        /\ \/ n.cr.status.provisioned /\ n.cr.status.syncGen = k.base.gen
           \/ ~n.cr.status.provisioned /\ SameSync(n.cr.status, k.cr.status)

(* A step of the actuator's sync goes on or comes to a conclusion, and     *)
(* writes the request only to record a name.                               *)
Syncs(w) ==
    LET k == wk[w]
        n == wk'[w]
    IN  /\ n.pc \in ActuatorPCs \cup PanicPCs \cup {"idle", "updateStatus"}
        /\ n.pc = "idle" => faults' # faults
        /\ n.pc = "updateStatus" => n.base = k.base /\ Concludes(w)
        /\ n.pc \in ActuatorPCs \cup PanicPCs =>
             /\ Missing(n.cr.status) <=> Missing(k.cr.status)
             /\ SameReport(n.cr.status, k.cr.status)
        /\ n.pc # "idle" /\ n.base # k.base =>
             /\ k.pc = "userName" /\ UserName(w) = None /\ n.base = crs'[k.req]
             /\ n.base.status.user \in Users /\ SameReport(n.base.status, k.cr.status)

(* A step that deprovisions goes on or comes to an error.                  *)
Deprovisions(w) ==
    LET k == wk[w]
        n == wk'[w]
    IN  /\ n.pc \in DeletePCs \cup {"idle", "updateStatus"}
        /\ n.pc = "idle" => k.pc \in {"deleteTargetSecret", "removeDeprovisionFinalizer"}
        /\ n.pc # "idle" => SameReport(n.cr.status, k.cr.status)

Reports(w) ==
    /\ wk[w].pc = "namespace" => ChecksNamespace(w)
    /\ wk[w].pc \in ActuatorPCs => Syncs(w)
    /\ wk[w].pc \in DeletePCs => Deprovisions(w)
    /\ wk[w].pc \in {"addDeprovisionFinalizer", "updateStatus"} => wk'[w].pc = "idle"
    /\ wk[w].pc \notin PanicPCs

(* The steps of a deletion after Actuator.Delete has returned.             *)
DeletedPCs == {"clearDeprovisionFailure", "deleteTargetSecret", "removeDeprovisionFinalizer"}

(* Actuator.Delete returns without an error only when the user is gone.    *)
Deprovisioned(w) ==
    wk'[w].pc \in DeletedPCs /\ wk[w].pc \notin DeletedPCs
    => UserName(w) = None \/ iam'[UserName(w)] = None

-----------------------------------------------------------------------------
(* The other steps *)

(* What a user of the cluster does to one request: creates it, edits its   *)
(* spec, or deletes it, which removes only one without the finalizer.      *)
UserWrites(c) ==
    LET old == crs[c]
        new == crs'[c]
    IN  /\ \A d \in CRs \ {c} : crs'[d] = crs[d]
        /\ \/ /\ old = None /\ new \in CredentialsRequest
              /\ new.status = NewStatus /\ ~new.finalizer /\ ~new.deleting
              /\ new.ref \in TargetsOf[c] /\ new.gen = 1
           \/ /\ old \in CredentialsRequest /\ new \in CredentialsRequest
              /\ new.status = old.status /\ new.finalizer = old.finalizer
              /\ new.deleting = old.deleting
              /\ new.ref \in TargetsOf[c] /\ new.gen = old.gen + 1
           \/ /\ old \in CredentialsRequest /\ ~old.deleting /\ old.finalizer
              /\ new \in CredentialsRequest /\ new = [old EXCEPT !.deleting = TRUE]
           \/ old \in CredentialsRequest /\ ~old.deleting /\ ~old.finalizer /\ new = None

-----------------------------------------------------------------------------
(* What is proved of the steps *)

(* The copies of a running call, and the user it works on.                 *)
RunningFacts ==
    \A w \in Workers :
        ~At(w, "idle") =>
          /\ wk[w] \in Worker
          /\ wk[w].req \in CRs
          /\ wk[w].base \in CredentialsRequest
          /\ wk[w].cr \in CredentialsRequest
          /\ wk[w].base.status \in Status
          /\ wk[w].cr.status \in Status
          /\ wk[w].base.status.user \in {None, wk[w].cr.status.user}
          /\ crs[wk[w].req] \in CredentialsRequest \cup {None}

NamedFacts ==
    \A w \in Workers :
        wk[w].pc \in NamedPCs
        => UserName(w) \in Users /\ UserName(w) # None /\ TheUser(w) \in User \cup {None}

(* A step of a call, as it concerns the requests, the users, the secrets   *)
(* and the name of the user.                                               *)
CallFacts ==
    \A w \in Workers :
        WorkerStep(w) => /\ Proceeds(w) /\ Writes(w)
                         /\ UNCHANGED crCache
                         /\ wk[w].pc # "idle" /\ wk[w].req \in CRs

IAMFacts == \A w \in Workers : WorkerStep(w) => UsesIAM(w)

UserFacts == \A w \in Workers : WorkerStep(w) => ChangesUsers(w) /\ Deprovisioned(w)

ReportFacts == \A w \in Workers : WorkerStep(w) => Reports(w)

SecretFacts ==
    \A w \in Workers :
        WorkerStep(w) => WritesSecret(w) /\ (wk'[w].pc \in SyncPCs => Advances(w))

NameFacts == \A w \in Workers : WorkerStep(w) => KeepsNames

(* Reconcile starts a call on the cached copy.                             *)
Starts(w, c) ==
    LET n == wk'[w]
    IN  /\ UNCHANGED <<crs, crCache, iam, secrets>>
        /\ \A v \in Workers \ {w} : wk'[v] = wk[v]
        /\ n.req = c /\ n.base = crCache[w][c] /\ n.cr = crCache[w][c]
        /\ n.base # None /\ n.newKey = None
        /\ \/ n.pc = "DeleteUserPolicy" /\ n.base.deleting /\ n.base.finalizer
           \/ n.pc = "namespace" /\ ~n.base.deleting /\ n.base.finalizer
           \/ n.pc = "addDeprovisionFinalizer" /\ ~n.base.deleting /\ ~n.base.finalizer

StartFacts == \A w \in Workers, c \in CRs : Reconcile(w, c) => Starts(w, c)

(* A process starts over, or one of its caches catches up.                 *)
Catches(w) ==
    \/ Restart(w)
    \/ \E c \in CRs : SyncCRCache(w, c)
    \/ \E r \in Refs : SyncSecretCache(w, r)

CacheFacts ==
    \A w \in Workers :
        Catches(w) =>
          /\ UNCHANGED <<crs, iam, secrets>>
          /\ \A v \in Workers : /\ wk'[v].pc = "idle" \/ wk'[v] = wk[v]
                                /\ \A c \in CRs : crCache'[v][c] \in {crCache[v][c], crs[c]}

(* No step of the operator changes these.                                  *)
OwnFacts ==
    \A w \in Workers :
        WorkerStep(w) \/ Catches(w) \/ (\E c \in CRs : Reconcile(w, c))
        => UNCHANGED <<root, now, namespaces>>

(* What happens in the cluster and in AWS besides the operator.            *)
EnvironmentFacts ==
    Environment =>
      /\ UNCHANGED <<wk, crCache>>
      /\ UNCHANGED crs \/ \E c \in CRs : UserWrites(c) /\ UNCHANGED <<iam, secrets>>
      /\ \A u \in Users :
           /\ iam'[u] # None => iam[u] # None /\ iam'[u].keys \subseteq iam[u].keys
           /\ iam[u] # None /\ iam'[u] = None => "iamEdits" \in Disturbances

OutsideFacts ==
    Environment =>
      /\ "secretEdits" \notin Disturbances => \A r \in Refs : secrets'[r] \in {secrets[r], None}
      /\ Disturbances \cap {"secretEdits", "namespaceDeletes"} = {} => UNCHANGED secrets
      /\ "iamEdits" \notin Disturbances => UNCHANGED iam
      /\ "rootEdits" \notin Disturbances => UNCHANGED root
      /\ now <= now'

StepFacts ==
    /\ RunningFacts /\ NamedFacts
    /\ CallFacts /\ IAMFacts /\ UserFacts /\ SecretFacts /\ NameFacts /\ ReportFacts
    /\ StartFacts /\ CacheFacts /\ OwnFacts /\ EnvironmentFacts /\ OutsideFacts

==============================================================================
