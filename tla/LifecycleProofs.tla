-------------------------- MODULE LifecycleProofs ---------------------------
(***************************************************************************)
(* The steps of the proofs about IAM users: an orphan is impossible with   *)
(* one operator process, the controller implements CredentialLifecycle, a  *)
(* user has at most one key, and a deletion leaves nothing behind.  They   *)
(* argue from what Steps says of a step, never from the actions.           *)
(***************************************************************************)
EXTENDS Invariants, ReconcilerRefinement, TLAPS

-----------------------------------------------------------------------------
(* Steps that leave the cache alone and only add to what is owned *)

(* What a step does that keeps every request the owner of its users,       *)
(* creates users only for their owners, and moves the running call along   *)
(* one path of Reconcile.                                                  *)
Regular(w) ==
    LET k == wk[w]
        n == wk'[w]
    IN  /\ UNCHANGED crCache
        /\ \A c \in CRs, u \in Users : Records(crs[c], u) => Records(crs'[c], u)
        /\ \A c \in CRs : Deleting(crs[c]) => Deleting(crs'[c])
        /\ \A c \in CRs :
             Closed(crs[c]) /\ (Deleting(crCache[w][c]) \/ n.pc \in DeletePCs)
             => Closed(crs'[c])
        /\ \A u \in Users : iam'[u] # None => iam[u] # None \/ \E c \in CRs : Records(crs[c], u)
        /\ n.pc # "idle" => /\ k.pc # "idle" /\ n.req = k.req
                            /\ n.base.deleting = k.base.deleting
        /\ n.pc \in SyncPCs => /\ k.pc \in SyncPCs
                               /\ \/ n.cr.status.user = k.cr.status.user
                                  \/ Records(crs'[n.req], n.cr.status.user)
        /\ n.pc \in DeletePCs => k.pc \in DeletePCs
        /\ n.pc \in DeletedPCs => n.cr.status.user = None \/ iam'[n.cr.status.user] = None

(* A regular step keeps the invariant.                                     *)
LEMMA RegularStep ==
    ASSUME StepFacts, SingleProcess, TypeInv, TypeInv', OrphanInv, NEW w \in Workers, Regular(w)
    PROVE  OrphanInv'
<1>1. NoOrphanUser'
  BY DEF OrphanInv, NoOrphanUser, Regular, Owns, Records
<1>2. CacheInv(w)'
  <2> SUFFICES ASSUME NEW c \in CRs
               PROVE  /\ Deleting(crCache[w][c]) => Closed(crs'[c])
                      /\ ~Closed(crCache[w][c]) /\ crCache[w][c].finalizer
                           => Records(crs'[c], crCache[w][c].status.user)
    BY Zenon DEF CacheInv, Regular, Deleting, Closed, Records
  <2>1. /\ Deleting(crCache[w][c]) => Closed(crs[c])
        /\ ~Closed(crCache[w][c]) /\ crCache[w][c].finalizer
             => Records(crs[c], crCache[w][c].status.user)
    BY Zenon DEF OrphanInv, CacheInv
  <2>2. ~Closed(crCache[w][c]) => crCache[w][c].status.user \in Users
    BY SMTT(30) DEF TypeInv, TypeOK, Closed, CredentialsRequest, Status
  <2>3. QED
    BY <2>1, <2>2 DEF Regular
<1>3. CallInv(w)'
  <2> DEFINE k == wk[w]
             n == wk'[w]
  <2>0. CallInv(w)
    BY Zenon DEF OrphanInv
  <2>1. n.pc # "idle" /\ ~n.base.deleting /\ Deleting(crCache'[w][n.req]) => Deleting(crs'[n.req])
    <3> SUFFICES ASSUME n.pc # "idle", ~n.base.deleting, Deleting(crCache'[w][n.req])
                 PROVE  Deleting(crs'[n.req])
      BY Zenon
    <3>1. /\ k.pc # "idle" /\ n.req = k.req /\ ~k.base.deleting
          /\ Deleting(crCache[w][k.req]) /\ k.req \in CRs
      BY Zenon DEF StepFacts, RunningFacts, Regular, At
    <3>2. QED
      BY <2>0, <3>1, Zenon DEF CallInv, Regular
  <2>2. n.pc \in SyncPCs /\ n.cr.status.user # None => Records(crs'[n.req], n.cr.status.user)
    <3> SUFFICES ASSUME n.pc \in SyncPCs, n.cr.status.user # None
                 PROVE  Records(crs'[n.req], n.cr.status.user)
      BY Zenon
    <3>1. n.pc # "idle" /\ k.pc \in SyncPCs /\ n.req = k.req /\ k.req \in CRs
      BY Zenon DEF StepFacts, RunningFacts, Regular, At, SyncPCs
    <3>2. CASE n.cr.status.user = k.cr.status.user
      <4>1. k.cr.status.user \in Users
        BY <3>1, <3>2, Zenon DEF StepFacts, RunningFacts, At, SyncPCs, Status
      <4>2. Records(crs[k.req], k.cr.status.user)
        BY <2>0, <3>1, <3>2, Zenon DEF CallInv
      <4>3. Records(crs'[k.req], k.cr.status.user)
        BY <3>1, <4>1, <4>2, Zenon DEF Regular
      <4>4. QED
        BY <3>1, <3>2, <4>3, Zenon
    <3>3. QED
      BY <3>2, Zenon DEF Regular
  <2>3. n.pc \in DeletePCs => Closed(crCache'[w][n.req]) /\ Closed(crs'[n.req])
    <3> SUFFICES ASSUME n.pc \in DeletePCs
                 PROVE  Closed(crCache'[w][n.req]) /\ Closed(crs'[n.req])
      BY Zenon
    <3>1. n.pc # "idle" /\ k.pc \in DeletePCs /\ n.req = k.req /\ k.req \in CRs
      BY Zenon DEF StepFacts, RunningFacts, Regular, At, DeletePCs
    <3>2. Closed(crCache[w][k.req]) /\ Closed(crs[k.req])
      BY <2>0, <3>1, Zenon DEF CallInv
    <3>3. QED
      BY <3>1, <3>2, Zenon DEF Regular
  <2>4. QED
    <3>1. n.pc \in DeletedPCs => n.cr.status.user = None \/ iam'[n.cr.status.user] = None
      BY Zenon DEF Regular
    <3> HIDE DEF k
    <3>2. QED
      BY <2>1, <2>2, <2>3, <3>1, Zenon DEF CallInv, Records, Closed, Deleting
<1>4. QED
  BY <1>1, <1>2, <1>3, Zenon DEF OrphanInv, SingleProcess

-----------------------------------------------------------------------------
(* The invariant is inductive, for a single process *)

(* Every step of a call other than the removal of a request is regular: it *)
(* writes its own request only as long as that is the copy it read, and    *)
(* creates a user only where the request records the name.                 *)
LEMMA CallRegular ==
    ASSUME StepFacts, TypeInv, TypeInv', OrphanInv, NEW w \in Workers, WorkerStep(w),
           wk[w].pc = "removeDeprovisionFinalizer" => crs'[wk[w].req] = crs[wk[w].req]
    PROVE  Regular(w)
<1> DEFINE k == wk[w]
           n == wk'[w]
           old == crs[k.req]
           new == crs'[k.req]
<1>1. /\ Proceeds(w) /\ Writes(w) /\ UNCHANGED crCache /\ k.pc # "idle" /\ k.req \in CRs
      /\ ChangesUsers(w) /\ Deprovisioned(w)
      /\ CallInv(w) /\ k \in GoodWorkers /\ n \in GoodWorkers
  BY Zenon DEF StepFacts, CallFacts, UserFacts, OrphanInv, TypeInv
<1>2. /\ k.base \in CredentialsRequest /\ k.base.status.user \in {None, k.cr.status.user}
      /\ k.cr.status.user \in Users \cup {None} /\ None \notin CredentialsRequest
  BY <1>1, DistinctAssumption, Zenon DEF StepFacts, RunningFacts, At, Status
<1>3. \/ new = old
      \/ /\ old = k.base /\ new # None /\ new.deleting = k.base.deleting
         /\ k.base.finalizer => new.finalizer
         /\ k.base.status.user \in {None, new.status.user}
  BY <1>1, <1>2, Zenon DEF Writes, Updated, Protected, SameButStatus, UserName
<1>4. ASSUME NEW c \in CRs
      PROVE  /\ \A u \in Users : Records(crs[c], u) => Records(crs'[c], u)
             /\ Deleting(crs[c]) => Deleting(crs'[c])
  <2>1. CASE c # k.req
    BY <1>1, <2>1, Zenon DEF Writes
  <2>2. None \notin Users
    BY DistinctAssumption, Zenon
  <2>3. CASE c = k.req
    BY <1>3, <2>2, <2>3, Zenon DEF Records, Deleting
  <2>4. QED
    BY <2>1, <2>3, Zenon
<1>5. ASSUME NEW c \in CRs, Closed(crs[c]), Deleting(crCache[w][c]) \/ n.pc \in DeletePCs
      PROVE  Closed(crs'[c])
  <2>1. CASE crs'[c] = crs[c]
    BY <1>5, <2>1, Zenon
  <2>2. CASE crs'[c] # crs[c]
    <3>1. c = k.req
      BY <1>1, <2>2, Zenon DEF Writes
    <3>2. old = k.base /\ new.deleting = k.base.deleting
      BY <1>3, <2>2, <3>1, Zenon
    <3>3. k.base.deleting
      BY <1>1, <1>5, <3>1, <3>2, Zenon DEF CallInv, Deleting, Proceeds, GoodWorkers
    <3>4. QED
      BY <3>1, <3>2, <3>3, Zenon DEF Closed
  <2>3. QED
    BY <2>1, <2>2, Zenon
<1>6. ASSUME NEW u \in Users, iam'[u] # None, iam[u] = None
      PROVE  \E c \in CRs : Records(crs[c], u)
  <2>1. "CreateUser" \in SyncPCs /\ None \notin Users
    BY DistinctAssumption, Zenon DEF SyncPCs
  <2>2. k.pc = "CreateUser" /\ u = k.cr.status.user
    BY <1>1, <1>6, Zenon DEF ChangesUsers, UserName
  <2>3. Records(crs[k.req], u)
    BY <1>1, <2>1, <2>2, Zenon DEF CallInv
  <2>4. QED
    BY <1>1, <2>3, Zenon
<1>7. n.pc # "idle" => n.req = k.req /\ n.base.deleting = k.base.deleting
  BY <1>1, Zenon DEF Proceeds, SameButStatus
<1>8. ASSUME n.pc \in SyncPCs
      PROVE  /\ k.pc \in SyncPCs
             /\ n.cr.status.user = k.cr.status.user \/ Records(crs'[n.req], n.cr.status.user)
  <2>1. n.pc # "idle"
    BY <1>8, Zenon DEF SyncPCs
  <2>2. k.pc \in SyncPCs /\ n.req = k.req
    BY <1>1, <1>8, <2>1, Zenon DEF Proceeds
  <2>3. CASE n.cr.status.user # k.cr.status.user
    <3>1. new = n.base /\ n.base.status.user = n.cr.status.user
      BY <1>1, <1>8, <2>1, <2>3, Zenon DEF Proceeds, DrawsName
    <3>2. n.base # None /\ n.base.finalizer
      BY <1>1, <1>2, <1>8, <2>1, Zenon DEF GoodWorkers
    <3>3. QED
      BY <2>2, <3>1, <3>2, Zenon DEF Records
  <2>4. QED
    BY <2>2, <2>3, Zenon
<1>9. ASSUME n.pc \in DeletedPCs
      PROVE  n.cr.status.user = None \/ iam'[n.cr.status.user] = None
  <2>1. /\ n.pc # "idle" /\ n.pc \in DeletePCs
        /\ "userName" \notin DeletePCs /\ "CreateUser" \notin DeletePCs
    BY <1>9, Zenon DEF DeletedPCs, DeletePCs
  <2>2. k.pc \in DeletePCs /\ n.cr.status.user = k.cr.status.user
    BY <1>1, <2>1, Zenon DEF Proceeds, DrawsName
  <2>3. CASE k.pc \in DeletedPCs
    BY <1>1, <1>2, <2>1, <2>2, <2>3, Zenon DEF CallInv, ChangesUsers
  <2>4. CASE k.pc \notin DeletedPCs
    BY <1>1, <1>9, <2>2, <2>4, Zenon DEF Deprovisioned, UserName
  <2>5. QED
    BY <2>3, <2>4, Zenon
<1>10. n.pc \in DeletePCs => k.pc \in DeletePCs
  BY <1>1, Zenon DEF Proceeds
<1>11. QED
  BY <1>1, <1>4, <1>5, <1>6, <1>7, <1>8, <1>9, <1>10, Zenon DEF Regular

(* The removal of the finalizer, and with it of the request: its user is   *)
(* gone, and no cached copy could still lead to a sync.                    *)
LEMMA RemovalKeepsInv ==
    ASSUME StepFacts, SingleProcess, TypeInv, OrphanInv, NEW w \in Workers, WorkerStep(w),
           wk[w].pc = "removeDeprovisionFinalizer", crs'[wk[w].req] # crs[wk[w].req]
    PROVE  OrphanInv'
<1> DEFINE k == wk[w]
           n == wk'[w]
<1>1. /\ Proceeds(w) /\ Writes(w) /\ UNCHANGED crCache /\ k.req \in CRs
      /\ ChangesUsers(w)
      /\ CallInv(w) /\ CacheInv(w) /\ NoOrphanUser /\ k \in GoodWorkers
  BY Zenon DEF StepFacts, CallFacts, UserFacts, OrphanInv, TypeInv
<1>2. /\ k.pc \in DeletePCs /\ k.pc \in DeletedPCs /\ k.pc \notin SyncPCs
      /\ k.pc \notin {"userName", "CreateUser"} /\ DeletedPCs \subseteq DeletePCs
      /\ "idle" \notin DeletePCs \cup SyncPCs
  BY Zenon DEF DeletePCs, DeletedPCs, SyncPCs
<1>3. /\ crs[k.req] = k.base /\ crs'[k.req] = None /\ \A c \in CRs \ {k.req} : crs'[c] = crs[c]
      /\ k.base.deleting /\ k.base.status.user = k.cr.status.user
  BY <1>1, <1>2, Zenon DEF Writes, GoodWorkers
<1>4. k.cr.status.user \in Users \cup {None}
  BY <1>2, Zenon DEF StepFacts, RunningFacts, At, DeletePCs, Status
<1>5. /\ \A u \in Users : iam'[u] # None => iam[u] # None
      /\ k.cr.status.user = None \/ iam'[k.cr.status.user] = None
  BY <1>1, <1>2, <1>4, Zenon DEF ChangesUsers, CallInv
<1>6. NoOrphanUser'
  <2> SUFFICES ASSUME NEW u \in Users, iam'[u] # None
               PROVE  \E c \in CRs : Owns(c, u)'
    BY Zenon DEF NoOrphanUser
  <2>1. PICK c \in CRs : Owns(c, u)
    BY <1>1, <1>5, Zenon DEF NoOrphanUser
  <2>2. None \notin Users
    BY DistinctAssumption, Zenon
  <2>3. c # k.req
    BY <1>3, <1>5, <2>1, <2>2, ZenonT(40) DEF Owns
  <2>4. QED
    BY <1>3, <2>1, <2>3, Zenon DEF Owns
<1>7. CacheInv(w)'
  <2> SUFFICES ASSUME NEW c \in CRs
               PROVE  /\ Deleting(crCache[w][c]) => Closed(crs'[c])
                      /\ ~Closed(crCache[w][c]) /\ crCache[w][c].finalizer
                           => Records(crs'[c], crCache[w][c].status.user)
    BY <1>1, Zenon DEF CacheInv, Deleting, Closed, Records
  <2>1. CASE c = k.req
    BY <1>1, <1>2, <1>3, <2>1, Zenon DEF CallInv, Closed
  <2>2. CASE c # k.req
    BY <1>1, <1>3, <2>2, Zenon DEF CacheInv
  <2>3. QED
    BY <2>1, <2>2, Zenon
<1>8. CallInv(w)'
  <2>1. /\ n.pc # "idle" => n.req = k.req /\ n.base.deleting
        /\ n.pc \notin SyncPCs
        /\ n.pc # "idle" => n.cr.status.user = k.cr.status.user
    BY <1>1, <1>2, <1>3, Zenon DEF Proceeds, SameButStatus, DrawsName
  <2>2. n.pc \in DeletePCs => Closed(crCache[w][n.req]) /\ Closed(crs'[n.req])
    BY <1>1, <1>2, <1>3, <2>1, Zenon DEF CallInv, Closed
  <2>3. n.pc \in DeletedPCs => n.cr.status.user = None \/ iam'[n.cr.status.user] = None
    BY <1>2, <1>5, <2>1, Zenon
  <2> HIDE DEF k
  <2>4. QED
    BY <1>1, <2>1, <2>2, <2>3, Zenon DEF CallInv, Closed, Deleting
<1>9. QED
  BY <1>6, <1>7, <1>8, Zenon DEF OrphanInv, SingleProcess

(* What happens in the cluster and in AWS besides the operator is regular: *)
(* a deletion keeps a request with the finalizer, and nobody else makes    *)
(* users.                                                                  *)
LEMMA EnvironmentRegular ==
    ASSUME StepFacts, TypeInv, OrphanInv, NEW w \in Workers, Environment
    PROVE  Regular(w)
<1>1. /\ UNCHANGED <<wk, crCache>> /\ CallInv(w)
      /\ UNCHANGED crs \/ \E c \in CRs : UserWrites(c)
      /\ \A u \in Users : iam'[u] # None => iam[u] # None
  BY Zenon DEF StepFacts, EnvironmentFacts, OrphanInv
<1>2. ASSUME NEW c \in CRs
      PROVE  /\ \A u \in Users : Records(crs[c], u) => Records(crs'[c], u)
             /\ Deleting(crs[c]) => Deleting(crs'[c])
             /\ Closed(crs[c]) => Closed(crs'[c])
  <2>1. CASE crs'[c] = crs[c]
    BY <2>1, Zenon
  <2>2. CASE UserWrites(c)
    <3>1. NewStatus.user = None /\ None \notin CredentialsRequest
      BY DistinctAssumption, Zenon DEF NewStatus
    <3>2. crs[c] \in CredentialsRequest =>
            LET new == [crs[c] EXCEPT !.deleting = TRUE]
            IN  new.deleting /\ new.status = crs[c].status /\ new.finalizer = crs[c].finalizer
      BY Zenon DEF CredentialsRequest
    <3>3. QED
      BY <2>2, <3>1, <3>2, Zenon DEF UserWrites, Records, Deleting, Closed
  <2>3. QED
    BY <1>1, <2>1, <2>2, Zenon DEF UserWrites
<1>3. wk[w].pc \in DeletedPCs => UserName(w) = None \/ iam'[UserName(w)] = None
  <2> SUFFICES ASSUME wk[w].pc \in DeletedPCs, UserName(w) # None
               PROVE  iam'[UserName(w)] = None
    BY Zenon
  <2>1. UserName(w) \in Users
    BY Zenon DEF StepFacts, RunningFacts, At, DeletedPCs, UserName, Status
  <2>2. QED
    BY <1>1, <2>1, Zenon DEF CallInv, UserName
<1>4. QED
  BY <1>1, <1>2, <1>3, Zenon DEF Regular, UserName

(* Reconcile starts from the cached copy: a copy that still says "sync"    *)
(* names a user the stored request owns, and a copy that says "delete"     *)
(* belongs to a request that nothing will sync again.                      *)
LEMMA StartKeepsInv ==
    ASSUME StepFacts, SingleProcess, OrphanInv, NEW w \in Workers, NEW c \in CRs, Reconcile(w, c)
    PROVE  OrphanInv'
<1> DEFINE n == wk'[w]
           x == crCache[w][c]
<1>1. Starts(w, c) /\ CacheInv(w) /\ NoOrphanUser
  BY Zenon DEF StepFacts, StartFacts, OrphanInv
<1>2. NoOrphanUser' /\ CacheInv(w)'
  BY <1>1, Zenon DEF Starts, NoOrphanUser, Owns, CacheInv
<1>3. /\ n.req = c /\ n.base = x /\ n.cr = x /\ x # None
      /\ \/ n.pc = "DeleteUserPolicy" /\ x.deleting
         \/ n.pc = "namespace" /\ ~x.deleting /\ x.finalizer
         \/ n.pc = "addDeprovisionFinalizer" /\ ~x.deleting
  BY <1>1, Zenon DEF Starts
<1>4. /\ "DeleteUserPolicy" \notin SyncPCs \cup DeletedPCs
      /\ "namespace" \notin DeletePCs \cup DeletedPCs
      /\ "addDeprovisionFinalizer" \notin SyncPCs \cup DeletePCs \cup DeletedPCs
  BY Zenon DEF SyncPCs, DeletePCs, DeletedPCs
<1>5. /\ x.deleting => Closed(x) /\ Closed(crs[c])
      /\ ~x.deleting => ~Deleting(x)
      /\ ~x.deleting /\ x.finalizer /\ x.status.user # None => Records(crs[c], x.status.user)
  BY <1>1, <1>3, Zenon DEF CacheInv, Closed, Deleting
<1> HIDE DEF x
<1>6. CallInv(w)'
  <2>1. UNCHANGED <<crs, crCache, iam>>
    BY <1>1, Zenon DEF Starts
  <2>2. QED
    BY <1>3, <1>4, <1>5, <2>1, Zenon DEF CallInv, x
<1>7. QED
  BY <1>2, <1>6, Zenon DEF OrphanInv, SingleProcess

(* A cache that catches up, and a process that starts over, read what is   *)
(* stored.                                                                 *)
LEMMA CatchKeepsInv ==
    ASSUME StepFacts, SingleProcess, OrphanInv, NEW w \in Workers, Catches(w)
    PROVE  OrphanInv'
<1>1. /\ UNCHANGED <<crs, iam>> /\ CacheInv(w) /\ CallInv(w) /\ NoOrphanUser
      /\ wk'[w].pc = "idle" \/ wk'[w] = wk[w]
      /\ \A c \in CRs : crCache'[w][c] = crs[c] \/ crCache'[w][c] = crCache[w][c]
  BY Zenon DEF StepFacts, CacheFacts, OrphanInv
<1>2. NoOrphanUser'
  BY <1>1, Zenon DEF NoOrphanUser, Owns
<1>3. CacheInv(w)'
  <2> SUFFICES ASSUME NEW c \in CRs
               PROVE  /\ Deleting(crCache'[w][c]) => Closed(crs[c])
                      /\ ~Closed(crCache'[w][c]) /\ crCache'[w][c].finalizer
                           => Records(crs[c], crCache'[w][c].status.user)
    BY <1>1, Zenon DEF CacheInv, Deleting, Closed, Records
  <2>1. CASE crCache'[w][c] = crs[c]
    BY <2>1, Zenon DEF Deleting, Closed, Records
  <2>2. CASE crCache'[w][c] = crCache[w][c]
    BY <1>1, <2>2, Zenon DEF CacheInv
  <2>3. QED
    BY <1>1, <2>1, <2>2, Zenon
<1>4. CallInv(w)'
  <2>1. CASE wk'[w].pc = "idle"
    BY <2>1, Zenon DEF CallInv, SyncPCs, DeletePCs, DeletedPCs
  <2>2. CASE wk'[w] = wk[w]
    <3> DEFINE k == wk[w]
    <3>1. k.pc # "idle" =>
            \/ crCache'[w][k.req] = crCache[w][k.req]
            \/ crCache'[w][k.req] = crs[k.req]
      BY <1>1, Zenon DEF StepFacts, RunningFacts, At
    <3>2. "idle" \notin DeletePCs
      BY Zenon DEF DeletePCs
    <3>3. k.pc \in DeletePCs => Closed(crCache'[w][k.req]) /\ Closed(crs[k.req])
      BY <1>1, <3>1, <3>2, Zenon DEF CallInv
    <3>4. k.pc # "idle" /\ ~k.base.deleting /\ Deleting(crCache'[w][k.req]) => Deleting(crs[k.req])
      BY <1>1, <3>1, Zenon DEF CallInv
    <3>5. QED
      BY <1>1, <2>2, <3>3, <3>4, Zenon DEF CallInv, Records, Deleting, Closed
  <2>3. QED
    BY <1>1, <2>1, <2>2, Zenon
<1>5. QED
  BY <1>2, <1>3, <1>4, Zenon DEF OrphanInv, SingleProcess

(* Nothing is there at the start.                                          *)
LEMMA InitOrphanInv == Init => OrphanInv
<1> SUFFICES ASSUME Init PROVE OrphanInv
  BY Zenon
<1>1. NoOrphanUser
  BY Zenon DEF Init, NoOrphanUser
<1>2. ASSUME NEW w \in Workers
      PROVE  CacheInv(w) /\ CallInv(w)
  BY <1>2, Zenon DEF Init, CacheInv, CallInv, Deleting, Closed, IdleWorker, Locals, SyncPCs,
     DeletePCs, DeletedPCs
<1>3. QED
  BY <1>1, <1>2, Zenon DEF OrphanInv

(* Every step of the single process and of its environment keeps the       *)
(* invariant.                                                              *)
LEMMA OrphanStep ==
    ASSUME StepFacts, SingleProcess, TypeInv, TypeInv', OrphanInv, [Next]_vars
    PROVE  OrphanInv'
<1>1. ASSUME NEW w \in Workers, WorkerStep(w)
      PROVE  OrphanInv'
  BY <1>1, RemovalKeepsInv, CallRegular, RegularStep, Zenon
<1>2. ASSUME NEW w \in Workers, NEW c \in CRs, Reconcile(w, c)
      PROVE  OrphanInv'
  BY <1>2, StartKeepsInv, Zenon
<1>3. ASSUME NEW w \in Workers, Catches(w)
      PROVE  OrphanInv'
  BY <1>3, CatchKeepsInv, Zenon
<1>4. CASE Environment
  <2>1. PICK w \in Workers : TRUE
    BY Zenon DEF SingleProcess
  <2>2. QED
    BY <1>4, EnvironmentRegular, RegularStep, Zenon
<1>5. CASE UNCHANGED vars
  BY <1>5, Zenon DEF vars, OrphanInv, NoOrphanUser, Owns, CacheInv, CallInv
<1>6. QED
  BY <1>1, <1>2, <1>3, <1>4, <1>5, Zenon DEF Next, Catches

-----------------------------------------------------------------------------
(* Every name belongs to one request, for any number of processes *)

(* A step after which every mention of a name was there before, or is that *)
(* of a fresh name by one request, keeps the names unique.                 *)
LEMMA FreshKeepsUnique ==
    ASSUME NamesUnique, NEW e,
           \A c \in CRs, u \in Users : Mentions(c, u)' => Mentions(c, u) \/ (c = e /\ FreshUser(u))
    PROVE  NamesUnique'
<1>1. ASSUME NEW c \in CRs, NEW u \in Users, FreshUser(u)
      PROVE  ~Mentions(c, u)
  BY <1>1, Zenon DEF FreshUser, Mentions, Names
<1>2. ASSUME NEW c \in CRs, NEW d \in CRs, NEW u \in Users, Mentions(c, u)', Mentions(d, u)'
      PROVE  c = d
  BY <1>1, <1>2, Zenon DEF NamesUnique
<1>3. QED
  BY <1>2, Zenon DEF NamesUnique

(* A step of a call mentions only names that were mentioned, or the one it *)
(* draws.                                                                  *)
LEMMA CallMentions ==
    ASSUME StepFacts, TypeInv, NEW w \in Workers, WorkerStep(w), NEW c \in CRs, NEW u \in Users,
           Mentions(c, u)'
    PROVE  Mentions(c, u) \/ (c = wk[w].req /\ FreshUser(u))
<1>1. /\ Proceeds(w) /\ Writes(w) /\ UNCHANGED crCache
      /\ wk[w].pc # "idle" /\ wk[w].req \in CRs
  BY Zenon DEF StepFacts, CallFacts
<1>2. /\ wk[w].base \in CredentialsRequest /\ wk[w].cr \in CredentialsRequest
      /\ wk[w].cr.status \in Status /\ wk[w].cr # None
  BY <1>1, DistinctAssumption, Zenon DEF StepFacts, RunningFacts, At
<1>3. CASE Names(crs'[c], u)
  <2>1. CASE c # wk[w].req
    BY <1>1, <1>3, <2>1, Zenon DEF Writes, Mentions
  <2>2. CASE c = wk[w].req
    <3> DEFINE old == crs[c]
               new == crs'[c]
    <3>1. wk[w].base # None
      BY <1>2, DistinctAssumption, Zenon
    <3>2. \/ new = old
          \/ old = wk[w].base /\ new.status = wk[w].base.status
          \/ new.status.user = wk[w].cr.status.user
          \/ FreshUser(new.status.user)
      BY <1>1, <1>3, <2>2, Zenon DEF Writes, Names, Updated, Protected
    <3>3. QED
      BY <1>1, <1>2, <1>3, <2>2, <3>1, <3>2, Zenon DEF Names, Mentions
  <2>3. QED
    BY <2>1, <2>2, Zenon
<1>4. CASE \E v \in Workers : Names(crCache'[v][c], u)
  BY <1>1, <1>4, Zenon DEF Mentions
<1>5. CASE \E v \in Workers : wk'[v].pc # "idle" /\ wk'[v].req = c /\ Names(wk'[v].cr, u)
  <2>1. PICK v \in Workers : wk'[v].pc # "idle" /\ wk'[v].req = c /\ Names(wk'[v].cr, u)
    BY <1>5, Zenon
  <2>2. CASE v # w
    BY <1>1, <2>1, <2>2, Zenon DEF Proceeds, Mentions
  <2>3. CASE v = w
    BY <1>1, <1>2, <2>1, <2>3, Zenon DEF Proceeds, DrawsName, Mentions, Names
  <2>4. QED
    BY <2>2, <2>3, Zenon
<1>6. QED
  BY <1>3, <1>4, <1>5, Zenon DEF Mentions

(* A step of a call keeps the other two parts.                             *)
LEMMA CallProtects ==
    ASSUME StepFacts, TypeInv, LifeInv, NEW w \in Workers, WorkerStep(w)
    PROVE  UnprotectedUnnamed' /\ \A v \in Workers : ProtectedCall(wk'[v])
<1>1. /\ Proceeds(w) /\ Writes(w) /\ wk[w].pc # "idle" /\ wk[w].req \in CRs
      /\ ProtectedCall(wk[w]) /\ wk[w] \in GoodWorkers
  BY Zenon DEF StepFacts, CallFacts, LifeInv, TypeInv
<1>2. wk[w].base \in CredentialsRequest
  BY <1>1, Zenon DEF StepFacts, RunningFacts, At
<1>3. UnprotectedUnnamed'
  <2> SUFFICES ASSUME NEW c \in CRs, crs'[c] # None, ~crs'[c].finalizer
               PROVE  crs'[c].status.user = None
    BY Zenon DEF UnprotectedUnnamed
  <2>1. {"updateStatus", "clearDeprovisionFailure", "userName"} \subseteq ProtectedPCs
    BY Zenon DEF ProtectedPCs, SyncPCs, DeletePCs
  <2>2. wk[w].pc \in {"updateStatus", "clearDeprovisionFailure", "userName"} => wk[w].base.finalizer
    BY <1>1, <2>1, Zenon DEF ProtectedCall
  <2>3. crs'[c] = crs[c]
    BY <1>1, <2>2, Zenon DEF Writes, Updated, SameButStatus, Protected
  <2>4. QED
    BY <2>3, Zenon DEF LifeInv, UnprotectedUnnamed
<1>4. ProtectedCall(wk'[w])
  <2>1. ASSUME wk'[w].pc \in ProtectedPCs
        PROVE  wk'[w].base.finalizer
    <3>1. wk'[w].pc # "idle" /\ wk[w].pc \in ProtectedPCs
      BY <1>1, <2>1, Zenon DEF Proceeds, ProtectedPCs, SyncPCs, DeletePCs
    <3>2. QED
      BY <1>1, <3>1, Zenon DEF Proceeds, SameButStatus, ProtectedCall
  <2>2. ASSUME wk'[w].pc = "updateStatus", wk'[w].base.deleting
        PROVE  wk'[w].base.status.user = wk'[w].cr.status.user
    <3>1. wk[w].pc \in SyncPCs \cup DeletePCs /\ wk'[w].base = wk[w].base
      BY <1>1, <2>2, Zenon DEF Proceeds
    <3>2. wk[w].pc \in DeletePCs /\ wk[w].base.status.user = wk[w].cr.status.user
      BY <1>1, <2>2, <3>1, Zenon DEF GoodWorkers
    <3>3. wk[w].pc # "userName"
      BY <3>2, Zenon DEF DeletePCs
    <3>4. QED
      BY <1>1, <2>2, <3>1, <3>2, <3>3, Zenon DEF Proceeds, DrawsName
  <2>3. QED
    BY <2>1, <2>2, Zenon DEF ProtectedCall
<1>5. QED
  BY <1>1, <1>3, <1>4, Zenon DEF Proceeds, LifeInv

(* Every other step keeps the invariant: users of the cluster create       *)
(* requests without a user and change no user, and the caches and the      *)
(* calls start from what is stored or cached.                              *)
LEMMA OthersKeepLife ==
    ASSUME StepFacts, TypeInv, LifeInv,
           \/ Environment
           \/ \E w \in Workers :
                \/ Restart(w)
                \/ \E c \in CRs : Reconcile(w, c) \/ SyncCRCache(w, c)
                \/ \E r \in Refs : SyncSecretCache(w, r)
    PROVE  LifeInv'
<1>0. ProtectedCall(IdleWorker) /\ \A k : k.pc = "idle" => ProtectedCall(k)
  BY Zenon DEF ProtectedCall, ProtectedPCs, SyncPCs, DeletePCs, IdleWorker, Locals
<1>1. CASE Environment
  <2>1. /\ UNCHANGED <<wk, crCache>>
        /\ \/ UNCHANGED crs
           \/ \E c \in CRs : UserWrites(c)
    BY <1>1, Zenon DEF StepFacts, EnvironmentFacts
  <2>2. ASSUME NEW c \in CRs, NEW u \in Users, Names(crs'[c], u)
        PROVE  Names(crs[c], u)
    <3>1. CASE crs'[c] = crs[c]
      BY <2>2, <3>1, Zenon
    <3>2. CASE UserWrites(c)
      <4>1. NewStatus.user = None /\ None \notin Users
        BY DistinctAssumption, Zenon DEF NewStatus
      <4>2. crs[c] \in CredentialsRequest
              => [crs[c] EXCEPT !.deleting = TRUE].status = crs[c].status /\ crs[c] # None
        BY DistinctAssumption, Zenon DEF CredentialsRequest
      <4>3. QED
        BY <2>2, <3>2, <4>1, <4>2, Zenon DEF UserWrites, Names
    <3>3. QED
      BY <2>1, <3>1, <3>2, Zenon DEF UserWrites
  <2>3. NamesUnique'
    <3>1. \A c \in CRs, u \in Users : Mentions(c, u)' => Mentions(c, u)
      BY <2>1, <2>2, Zenon DEF Mentions
    <3>2. QED
      BY <3>1, FreshKeepsUnique, Zenon DEF LifeInv
  <2>4. UnprotectedUnnamed'
    <3> SUFFICES ASSUME NEW c \in CRs, crs'[c] # None, ~crs'[c].finalizer
                 PROVE  crs'[c].status.user = None
      BY Zenon DEF UnprotectedUnnamed
    <3>1. CASE crs'[c] = crs[c]
      BY <3>1, Zenon DEF LifeInv, UnprotectedUnnamed
    <3>2. CASE UserWrites(c)
      <4>1. NewStatus.user = None
        BY Zenon DEF NewStatus
      <4>2. crs[c] \in CredentialsRequest =>
              /\ [crs[c] EXCEPT !.deleting = TRUE].finalizer = crs[c].finalizer
              /\ crs[c] # None
        BY DistinctAssumption, Zenon DEF CredentialsRequest
      <4>3. QED
        BY <3>2, <4>1, <4>2, Zenon DEF UserWrites, LifeInv, UnprotectedUnnamed
    <3>3. QED
      BY <2>1, <3>1, <3>2, Zenon DEF UserWrites
  <2>5. QED
    BY <2>1, <2>3, <2>4, Zenon DEF LifeInv
<1>2. ASSUME NEW w \in Workers, NEW c \in CRs, Reconcile(w, c)
      PROVE  LifeInv'
  <2>1. /\ UNCHANGED <<crs, crCache>>
        /\ \A v \in Workers \ {w} : wk'[v] = wk[v]
        /\ wk'[w].req = c /\ wk'[w].base = crCache[w][c] /\ wk'[w].cr = crCache[w][c]
        /\ wk'[w].base # None
        /\ \/ wk'[w].pc \in {"DeleteUserPolicy", "namespace"} /\ wk'[w].base.finalizer
           \/ wk'[w].pc = "addDeprovisionFinalizer"
    BY <1>2, Zenon DEF StepFacts, StartFacts, Starts
  <2>2. ProtectedCall(wk'[w])
    BY <2>1, Zenon DEF ProtectedCall, ProtectedPCs, SyncPCs, DeletePCs
  <2>3. \A d \in CRs, u \in Users : Mentions(d, u)' => Mentions(d, u)
    BY <2>1, Zenon DEF Mentions
  <2>4. NamesUnique'
    BY <2>3, FreshKeepsUnique, Zenon DEF LifeInv
  <2>5. QED
    BY <2>1, <2>2, <2>4, Zenon DEF LifeInv, UnprotectedUnnamed
<1>3. ASSUME NEW w \in Workers,
             \/ Restart(w)
             \/ \E c \in CRs : SyncCRCache(w, c)
             \/ \E r \in Refs : SyncSecretCache(w, r)
      PROVE  LifeInv'
  <2>1. /\ UNCHANGED crs
        /\ \A v \in Workers : /\ wk'[v].pc = "idle" \/ wk'[v] = wk[v]
                              /\ \A c \in CRs : crCache'[v][c] = crCache[v][c]
                                                \/ crCache'[v][c] = crs[c]
    BY <1>3, Zenon DEF StepFacts, CacheFacts, Catches
  <2>2. \A d \in CRs, u \in Users : Mentions(d, u)' => Mentions(d, u)
    BY <2>1, Zenon DEF Mentions
  <2>3. NamesUnique'
    BY <2>2, FreshKeepsUnique, Zenon DEF LifeInv
  <2>4. QED
    BY <1>0, <2>1, <2>3, Zenon DEF LifeInv, UnprotectedUnnamed
<1>4. QED
  BY <1>1, <1>2, <1>3, Zenon

(* Nothing is named at the start.                                          *)
LEMMA InitLife == Init => LifeInv
<1> SUFFICES ASSUME Init PROVE LifeInv
  OBVIOUS
<1>1. NamesUnique /\ UnprotectedUnnamed
  BY Zenon DEF Init, NamesUnique, UnprotectedUnnamed, Mentions, Names, IdleWorker, Locals
<1>2. \A w \in Workers : ProtectedCall(wk[w])
  BY Zenon DEF Init, ProtectedCall, ProtectedPCs, SyncPCs, DeletePCs, IdleWorker, Locals
<1>3. QED
  BY <1>1, <1>2, Zenon DEF LifeInv

(* Every step keeps the invariant.                                         *)
LEMMA LifeStep ==
    ASSUME StepFacts, TypeInv, LifeInv, [Next]_vars
    PROVE  LifeInv'
<1>1. ASSUME NEW w \in Workers, WorkerStep(w)
      PROVE  LifeInv'
  <2>0. PICK e : e = wk[w].req
    BY Zenon
  <2>1. \A c \in CRs, u \in Users :
          Mentions(c, u)' => Mentions(c, u) \/ (c = e /\ FreshUser(u))
    BY <1>1, <2>0, CallMentions, Zenon
  <2>2. NamesUnique'
    BY <2>1, FreshKeepsUnique DEF LifeInv
  <2>3. QED
    BY <1>1, <2>2, CallProtects, Zenon DEF LifeInv
<1>2. CASE UNCHANGED vars
  <2>1. UNCHANGED <<crs, crCache, wk>>
    BY <1>2, Zenon DEF vars
  <2>2. \A c \in CRs, u \in Users : Mentions(c, u)' => Mentions(c, u)
    BY <2>1, Zenon DEF Mentions
  <2>3. NamesUnique'
    BY <2>2, Zenon DEF LifeInv, NamesUnique
  <2>4. QED
    BY <2>1, <2>3, Zenon DEF LifeInv, UnprotectedUnnamed
<1>3. QED
  BY <1>1, <1>2, OthersKeepLife, Zenon DEF Next

-----------------------------------------------------------------------------
(* The refinement *)

(* The abstract state in terms of the stored requests and IAM users.       *)
LEMMA MappedState ==
    /\ \A c \in CRs : phaseBar[c] = PhaseOf(crs[c]) /\ nameBar[c] = NameOf(crs[c])
    /\ \A u \in Users : u \in usersBar <=> iam[u] # None
  BY Zenon DEF phaseBar, nameBar, usersBar

(* A step that changes one request.                                        *)
LEMMA MappedRequest ==
    ASSUME NEW c \in CRs, \A d \in CRs \ {c} : crs'[d] = crs[d]
    PROVE  /\ phaseBar' = [phaseBar EXCEPT ![c] = PhaseOf(crs'[c])]
           /\ nameBar' = [nameBar EXCEPT ![c] = NameOf(crs'[c])]
           /\ PhaseOf(crs'[c]) = PhaseOf(crs[c]) => phaseBar' = phaseBar
           /\ NameOf(crs'[c]) = NameOf(crs[c]) => nameBar' = nameBar
<1> DEFINE P(x) == PhaseOf(x)
           N(x) == NameOf(x)
<1>1. /\ phaseBar = [d \in CRs |-> P(crs[d])] /\ nameBar = [d \in CRs |-> N(crs[d])]
      /\ phaseBar' = [d \in CRs |-> P(crs'[d])] /\ nameBar' = [d \in CRs |-> N(crs'[d])]
  BY Zenon DEF phaseBar, nameBar, PhaseOf, NameOf
<1> HIDE DEF P, N
<1>2. /\ phaseBar' = [phaseBar EXCEPT ![c] = P(crs'[c])]
      /\ nameBar' = [nameBar EXCEPT ![c] = N(crs'[c])]
      /\ P(crs'[c]) = P(crs[c]) => phaseBar' = phaseBar
      /\ N(crs'[c]) = N(crs[c]) => nameBar' = nameBar
  BY <1>1, Zenon
<1>3. QED
  BY <1>2, Zenon DEF P, N

(* A step that changes no request, and one that changes no user.           *)
LEMMA MappedSame ==
    /\ (\A c \in CRs : crs'[c] = crs[c]) => phaseBar' = phaseBar /\ nameBar' = nameBar
    /\ (\A u \in Users : iam'[u] # None <=> iam[u] # None) => usersBar' = usersBar
  BY Zenon DEF phaseBar, nameBar, usersBar, PhaseOf, NameOf

(* A step that creates or deletes one user.                                *)
LEMMA MappedUser ==
    ASSUME NEW u \in Users, \A v \in Users \ {u} : iam'[v] # None <=> iam[v] # None
    PROVE  /\ iam'[u] # None => usersBar' = usersBar \cup {u}
           /\ iam'[u] = None => usersBar' = usersBar \ {u}
  BY Zenon DEF usersBar

(* A user that a running deletion names, or that any call names and that   *)
(* exists, is recorded in the request of the call.                         *)
LEMMA OwnUser ==
    ASSUME StepFacts, TypeInv, OrphanInv, LifeInv, NEW w \in Workers, wk[w].pc # "idle",
           NEW u \in Users, u = UserName(w), iam[u] # None
    PROVE  Records(crs[wk[w].req], u)
<1>1. wk[w].req \in CRs /\ Names(wk[w].cr, u)
  BY DistinctAssumption, Zenon DEF StepFacts, RunningFacts, At, Names, UserName
<1>2. PICK c \in CRs : Owns(c, u)
  BY Zenon DEF OrphanInv, NoOrphanUser
<1>3. Mentions(c, u) /\ Mentions(wk[w].req, u)
  BY <1>1, <1>2, Zenon DEF Mentions, Owns, Names
<1>4. c = wk[w].req
  BY <1>1, <1>3, Zenon DEF LifeInv, NamesUnique
<1>5. QED
  BY <1>2, <1>4, Zenon DEF Owns, Records

(* Every step of a Reconcile call is a step of the life cycle, or changes  *)
(* nothing of it.                                                          *)
LEMMA CallRefines ==
    ASSUME StepFacts, TypeInv, OrphanInv, LifeInv, NEW w \in Workers, WorkerStep(w)
    PROVE  Lifecycle!Next \/ UNCHANGED Lifecycle!vars
<1> DEFINE c == wk[w].req
<1>1. /\ Proceeds(w) /\ Writes(w) /\ ChangesUsers(w) /\ wk[w].pc # "idle" /\ c \in CRs
      /\ CallInv(w) /\ ProtectedCall(wk[w]) /\ wk[w] \in GoodWorkers
  BY Zenon DEF StepFacts, CallFacts, UserFacts, OrphanInv, LifeInv, TypeInv
<1>2. /\ wk[w].base \in CredentialsRequest /\ wk[w].base # None
      /\ wk[w].cr \in CredentialsRequest /\ wk[w].cr # None /\ wk[w].cr.status \in Status
      /\ None \notin CredentialsRequest /\ None \notin Users
  BY <1>1, DistinctAssumption, Zenon DEF StepFacts, RunningFacts, At
<1>3. CASE wk[w].pc = "CreateUser"
  <2>1. UserName(w) \in Users /\ wk[w].pc \in SyncPCs
    BY <1>3, Zenon DEF StepFacts, NamedFacts, NamedPCs, SyncPCs
  <2>2. Records(crs[c], UserName(w))
    BY <1>1, <1>2, <2>1, Zenon DEF CallInv, UserName
  <2>3. phaseBar' = phaseBar /\ nameBar' = nameBar
    BY <1>1, <1>3, MappedSame, Zenon DEF Writes
  <2>4. \A v \in Users \ {UserName(w)} : iam'[v] # None <=> iam[v] # None
    BY <1>1, <1>3, Zenon DEF ChangesUsers
  <2>5. iam[UserName(w)] # None => iam'[UserName(w)] # None
    BY <1>1, <1>3, <2>1, Zenon DEF ChangesUsers
  <2>6. PhaseOf(crs[c]) \in {"protected", "deleting"} /\ NameOf(crs[c]) = UserName(w)
    BY <2>2, Zenon DEF Records, PhaseOf, NameOf
  <2>7. CASE iam[UserName(w)] = None /\ iam'[UserName(w)] # None
    <3>1. PICK u \in Users : u = UserName(w)
      BY <2>1, Zenon
    <3>2. usersBar' = usersBar \cup {u}
      BY <2>4, <2>7, <3>1, MappedUser, Zenon
    <3>3. phaseBar[c] \in {"protected", "deleting"} /\ nameBar[c] = u /\ u \notin usersBar
      BY <1>1, <2>6, <2>7, <3>1, MappedState, Zenon
    <3>4. Lifecycle!Create(c, u)
      BY <2>3, <3>2, <3>3, Zenon DEF Lifecycle!Create
    <3>5. QED
      BY <1>1, <3>4, Zenon DEF Lifecycle!Next
  <2>8. CASE ~(iam[UserName(w)] = None /\ iam'[UserName(w)] # None)
    <3>1. usersBar' = usersBar
      BY <2>1, <2>4, <2>5, <2>8, MappedSame, Zenon
    <3>2. QED
      BY <2>3, <3>1, Zenon DEF Lifecycle!vars
  <2>9. QED
    BY <2>7, <2>8, Zenon
<1>4. CASE wk[w].pc = "DeleteUser"
  <2>1. UserName(w) \in Users /\ wk[w].pc \in DeletePCs
    BY <1>4, Zenon DEF StepFacts, NamedFacts, NamedPCs, DeletePCs
  <2>2. phaseBar' = phaseBar /\ nameBar' = nameBar
    BY <1>1, <1>4, MappedSame, Zenon DEF Writes
  <2>3. \A v \in Users \ {UserName(w)} : iam'[v] # None <=> iam[v] # None
    BY <1>1, <1>4, Zenon DEF ChangesUsers
  <2>4. iam[UserName(w)] = None => iam'[UserName(w)] = None
    BY <1>1, <1>4, <2>1, Zenon DEF ChangesUsers
  <2>5. CASE iam[UserName(w)] # None /\ iam'[UserName(w)] = None
    <3>1. PICK u \in Users : u = UserName(w)
      BY <2>1
    <3>2. Records(crs[c], u) /\ u # None
      BY <1>1, <1>2, <2>5, <3>1, OwnUser, Zenon
    <3>3. Closed(crs[c])
      BY <1>1, <2>1, Zenon DEF CallInv
    <3>4. PhaseOf(crs[c]) = "deleting" /\ NameOf(crs[c]) = u
      BY <3>2, <3>3, Zenon DEF Records, Closed, PhaseOf, NameOf
    <3>5. usersBar' = usersBar \ {u}
      BY <2>3, <2>5, <3>1, MappedUser, Zenon
    <3>6. phaseBar[c] = "deleting" /\ nameBar[c] = u /\ u \in usersBar
      BY <1>1, <2>5, <3>1, <3>4, MappedState, Zenon
    <3>7. Lifecycle!Remove(c, u)
      BY <2>2, <3>5, <3>6, Zenon DEF Lifecycle!Remove
    <3>8. QED
      BY <1>1, <3>7, Zenon DEF Lifecycle!Next
  <2>6. CASE ~(iam[UserName(w)] # None /\ iam'[UserName(w)] = None)
    <3>1. usersBar' = usersBar
      BY <2>1, <2>3, <2>4, <2>6, MappedSame, Zenon
    <3>2. QED
      BY <2>2, <3>1, Zenon DEF Lifecycle!vars
  <2>7. QED
    BY <2>5, <2>6, Zenon
<1>5. CASE wk[w].pc \notin {"CreateUser", "DeleteUser"}
  <2>1. usersBar' = usersBar
    BY <1>1, <1>5, MappedSame, Zenon DEF ChangesUsers
  <2>2. PICK e \in CRs : e = c
    BY <1>1, Zenon
  <2>3. \A d \in CRs \ {e} : crs'[d] = crs[d]
    BY <1>1, <2>2, Zenon DEF Writes
  <2>4. /\ phaseBar' = [phaseBar EXCEPT ![e] = PhaseOf(crs'[e])]
        /\ nameBar' = [nameBar EXCEPT ![e] = NameOf(crs'[e])]
        /\ PhaseOf(crs'[e]) = PhaseOf(crs[e]) => phaseBar' = phaseBar
        /\ NameOf(crs'[e]) = NameOf(crs[e]) => nameBar' = nameBar
    BY <2>3, MappedRequest, Zenon
  <2>5. phaseBar[e] = PhaseOf(crs[e]) /\ nameBar[e] = NameOf(crs[e])
    BY MappedState, Zenon
  <2>6. ASSUME PhaseOf(crs'[e]) = PhaseOf(crs[e]), NameOf(crs'[e]) = NameOf(crs[e])
        PROVE  UNCHANGED Lifecycle!vars
    BY <2>1, <2>4, <2>6, Zenon DEF Lifecycle!vars
  <2>7. ASSUME crs[e] = wk[w].base, NEW s \in Status, Updated(crs'[e], wk[w].base, s)
        PROVE  /\ PhaseOf(crs'[e]) = PhaseOf(crs[e]) /\ NameOf(crs'[e]) = s.user
               /\ NameOf(crs[e]) = wk[w].base.status.user
    BY <1>2, <2>7, Zenon DEF Updated, SameButStatus, PhaseOf, NameOf
  <2>8. ASSUME crs[e] = wk[w].base, NEW s \in Status, Updated(crs'[e], wk[w].base, s),
               wk[w].base.finalizer, ~wk[w].base.deleting, wk[w].base.status.user = None,
               s.user \in Users,
               \/ FreshUser(s.user)
               \/ s.user = wk[w].cr.status.user
        PROVE  Lifecycle!Next
    <3>1. PICK u \in Users : u = s.user
      BY <2>8, Zenon
    <3>2. phaseBar' = phaseBar /\ nameBar' = [nameBar EXCEPT ![e] = u]
      BY <2>4, <2>7, <2>8, <3>1, Zenon
    <3>3. phaseBar[e] = "protected" /\ nameBar[e] = None
      BY <1>2, <2>5, <2>8, Zenon DEF PhaseOf, NameOf
    <3>4. ASSUME NEW d \in CRs, Names(crs[d], u)
          PROVE  FALSE
      <4>1. CASE FreshUser(u)
        BY <3>4, <4>1, Zenon DEF FreshUser, Names
      <4>2. CASE u = wk[w].cr.status.user
        <5>1. Mentions(d, u) /\ Mentions(e, u)
          BY <1>1, <1>2, <2>2, <3>4, <4>2, Zenon DEF Mentions, Names
        <5>2. d = e
          BY <5>1, Zenon DEF LifeInv, NamesUnique
        <5>3. QED
          BY <1>2, <2>8, <3>4, <5>2, Zenon DEF Names
      <4>3. QED
        BY <2>8, <3>1, <4>1, <4>2, Zenon
    <3>5. \A d \in CRs : nameBar[d] # u
      BY <1>2, <3>4, MappedState, Zenon DEF Names, NameOf
    <3>6. u \notin usersBar
      <4>1. iam[u] = None
        BY <3>4, Zenon DEF OrphanInv, NoOrphanUser, Owns, Names
      <4>2. QED
        BY <4>1, MappedState, Zenon
    <3>7. Lifecycle!Record(e, u)
      BY <2>1, <3>2, <3>3, <3>5, <3>6, Zenon DEF Lifecycle!Record
    <3>8. QED
      BY <3>7, Zenon DEF Lifecycle!Next
  <2>9. CASE crs'[e] = crs[e]
    BY <2>6, <2>9, Zenon
  <2>10. CASE crs[e] = wk[w].base /\ wk[w].pc = "removeDeprovisionFinalizer" /\ crs'[e] = None
    <3>1. wk[w].pc \in DeletePCs \cap DeletedPCs /\ wk[w].pc \in ProtectedPCs
      BY <2>10, Zenon DEF DeletePCs, DeletedPCs, ProtectedPCs
    <3>2. /\ wk[w].base.deleting /\ wk[w].base.finalizer
          /\ wk[w].base.status.user = wk[w].cr.status.user
          /\ wk[w].cr.status.user = None \/ iam[wk[w].cr.status.user] = None
      BY <1>1, <3>1, Zenon DEF GoodWorkers, ProtectedCall, CallInv
    <3>3. /\ PhaseOf(crs[e]) = "deleting" /\ NameOf(crs[e]) = wk[w].cr.status.user
          /\ PhaseOf(crs'[e]) = "absent" /\ NameOf(crs'[e]) = None
      BY <1>2, <2>10, <3>2, Zenon DEF PhaseOf, NameOf
    <3>4. nameBar[e] \notin usersBar
      BY <1>2, <2>5, <3>2, <3>3, Zenon DEF usersBar
    <3>5. Lifecycle!Release(e)
      BY <2>1, <2>4, <2>5, <3>3, <3>4, Zenon DEF Lifecycle!Release
    <3>6. QED
      BY <3>5, Zenon DEF Lifecycle!Next
  <2>11. CASE /\ crs[e] = wk[w].base /\ wk[w].pc = "addDeprovisionFinalizer"
              /\ Protected(crs'[e], wk[w].base)
    <3>1. ~wk[w].base.deleting
      BY <1>1, <2>11, Zenon DEF GoodWorkers
    <3>2. NameOf(crs'[e]) = NameOf(crs[e]) /\ PhaseOf(crs'[e]) = "protected"
      BY <1>2, <2>11, <3>1, Zenon DEF Protected, NameOf, PhaseOf
    <3>3. CASE wk[w].base.finalizer
      <4>1. PhaseOf(crs[e]) = "protected"
        BY <1>2, <2>11, <3>1, <3>3, Zenon DEF PhaseOf
      <4>2. QED
        BY <2>6, <3>2, <4>1, Zenon
    <3>4. CASE ~wk[w].base.finalizer
      <4>1. PhaseOf(crs[e]) = "unprotected"
        BY <1>2, <2>11, <3>4, Zenon DEF PhaseOf
      <4>2. Lifecycle!Protect(e)
        BY <2>1, <2>4, <2>5, <3>2, <4>1, Zenon DEF Lifecycle!Protect
      <4>3. QED
        BY <4>2, Zenon DEF Lifecycle!Next
    <3>5. QED
      BY <3>3, <3>4, Zenon
  <2>12. CASE /\ crs[e] = wk[w].base /\ wk[w].pc = "updateStatus"
              /\ Updated(crs'[e], wk[w].base, wk[w].cr.status)
    <3>1. wk[w].base.finalizer
      BY <1>1, <2>12, Zenon DEF ProtectedCall, ProtectedPCs
    <3>2. CASE wk[w].base.status.user = wk[w].cr.status.user
      BY <1>2, <2>6, <2>7, <2>12, <3>2, Zenon
    <3>3. CASE wk[w].base.status.user # wk[w].cr.status.user
      <4>1. ~wk[w].base.deleting
        BY <1>1, <2>12, <3>3, Zenon DEF ProtectedCall
      <4>2. wk[w].base.status.user = None /\ wk[w].cr.status.user \in Users
        BY <1>1, <1>2, <3>3, Zenon DEF StepFacts, RunningFacts, At, Status
      <4>3. QED
        BY <1>2, <2>8, <2>12, <3>1, <4>1, <4>2, Zenon
    <3>4. QED
      BY <3>2, <3>3, Zenon
  <2>13. CASE /\ crs[e] = wk[w].base /\ wk[w].pc = "clearDeprovisionFailure"
              /\ \E s \in Status : /\ s.user = wk[w].cr.status.user
                                   /\ Updated(crs'[e], wk[w].base, s)
    <3>1. wk[w].base.status.user = wk[w].cr.status.user
      BY <1>1, <2>13, Zenon DEF GoodWorkers, DeletePCs
    <3>2. QED
      BY <2>6, <2>7, <2>13, <3>1, Zenon
  <2>14. CASE /\ crs[e] = wk[w].base /\ wk[w].pc = "userName" /\ UserName(w) = None
              /\ \E u \in Users :
                   /\ FreshUser(u)
                   /\ \E s \in Status : s.user = u /\ Updated(crs'[e], wk[w].base, s)
    <3>1. /\ wk[w].base.finalizer /\ ~wk[w].base.deleting
          /\ wk[w].base.status.user = None
      <4>1. wk[w].pc \in SyncPCs
        BY <2>14, Zenon DEF SyncPCs
      <4>2. QED
        BY <1>1, <2>14, <4>1, Zenon DEF GoodWorkers, UserName
    <3>2. QED
      BY <2>8, <2>14, <3>1, Zenon
  <2>15. QED
    BY <1>1, <2>2, <2>9, <2>10, <2>11, <2>12, <2>13, <2>14, Zenon DEF Writes
<1>6. QED
  BY <1>3, <1>4, <1>5, Zenon

(* What the users of the cluster and of AWS do is a step of the life       *)
(* cycle, or changes nothing of it.                                        *)
LEMMA EnvironmentRefines ==
    ASSUME StepFacts, TypeInv, LifeInv, Environment
    PROVE  Lifecycle!Next \/ UNCHANGED Lifecycle!vars
<1>1. CASE \E c \in CRs : UserWrites(c) /\ UNCHANGED <<iam, secrets>>
  <2>1. PICK c \in CRs : UserWrites(c) /\ UNCHANGED iam
    BY <1>1, Zenon
  <2>2. usersBar' = usersBar
    BY <2>1, MappedSame, Zenon
  <2>3. /\ phaseBar' = [phaseBar EXCEPT ![c] = PhaseOf(crs'[c])]
        /\ nameBar' = [nameBar EXCEPT ![c] = NameOf(crs'[c])]
        /\ PhaseOf(crs'[c]) = PhaseOf(crs[c]) => phaseBar' = phaseBar
        /\ NameOf(crs'[c]) = NameOf(crs[c]) => nameBar' = nameBar
    BY <2>1, MappedRequest, Zenon DEF UserWrites
  <2>4. phaseBar[c] = PhaseOf(crs[c]) /\ nameBar[c] = NameOf(crs[c])
    BY MappedState, Zenon
  <2> DEFINE old == crs[c]
             new == crs'[c]
  <2>5. None \notin CredentialsRequest
    BY DistinctAssumption, Zenon
  <2>6. CASE /\ old = None /\ new \in CredentialsRequest
             /\ new.status = NewStatus /\ ~new.finalizer
    <3>1. /\ PhaseOf(old) = "absent" /\ PhaseOf(new) = "unprotected"
          /\ NameOf(new) = NameOf(old)
      BY <2>5, <2>6 DEF PhaseOf, NameOf, NewStatus
    <3>2. Lifecycle!Request(c)
      BY <2>2, <2>3, <2>4, <3>1, Zenon DEF Lifecycle!Request
    <3>3. QED
      BY <3>2, Zenon DEF Lifecycle!Next
  <2>7. CASE /\ old \in CredentialsRequest /\ new \in CredentialsRequest
             /\ new.status = old.status /\ new.finalizer = old.finalizer
             /\ new.deleting = old.deleting
    <3>1. PhaseOf(new) = PhaseOf(old) /\ NameOf(new) = NameOf(old)
      BY <2>5, <2>7, Zenon DEF PhaseOf, NameOf
    <3>2. QED
      BY <2>2, <2>3, <3>1, Zenon DEF Lifecycle!vars
  <2>8. CASE /\ old \in CredentialsRequest /\ ~old.deleting /\ old.finalizer
             /\ new \in CredentialsRequest /\ new = [old EXCEPT !.deleting = TRUE]
    <3>1. /\ new # None /\ new.finalizer /\ new.deleting /\ new.status = old.status
          /\ old # None /\ old.finalizer /\ ~old.deleting
      BY <2>5, <2>8, Zenon DEF CredentialsRequest
    <3>2. /\ PhaseOf(old) = "protected" /\ PhaseOf(new) = "deleting"
          /\ NameOf(new) = NameOf(old)
      BY <3>1, Zenon DEF PhaseOf, NameOf
    <3>3. Lifecycle!Withdraw(c)
      BY <2>2, <2>3, <2>4, <3>2, Zenon DEF Lifecycle!Withdraw
    <3>4. QED
      BY <3>3, Zenon DEF Lifecycle!Next
  <2>9. CASE old \in CredentialsRequest /\ ~old.deleting /\ ~old.finalizer /\ new = None
    <3>1. old.status.user = None
      BY <2>5, <2>9, Zenon DEF LifeInv, UnprotectedUnnamed
    <3>2. /\ PhaseOf(old) = "unprotected" /\ PhaseOf(new) = "absent"
          /\ NameOf(new) = NameOf(old)
      BY <2>5, <2>9, <3>1, Zenon DEF PhaseOf, NameOf
    <3>3. Lifecycle!Withdraw(c)
      BY <2>2, <2>3, <2>4, <3>2, Zenon DEF Lifecycle!Withdraw
    <3>4. QED
      BY <3>3, Zenon DEF Lifecycle!Next
  <2>10. QED
    BY <2>1, <2>6, <2>7, <2>8, <2>9, Zenon DEF UserWrites
<1>2. CASE UNCHANGED crs
  <2>1. phaseBar' = phaseBar /\ nameBar' = nameBar
    BY <1>2, MappedSame, Zenon
  <2>2. iam \in [Users -> User \cup {None}]
    BY Zenon DEF TypeInv, TypeOK
  <2>3. CASE \E u \in Users : EditIAM(u) /\ iam' = [iam EXCEPT ![u] = None]
    <3>1. PICK u \in Users : EditIAM(u) /\ iam' = [iam EXCEPT ![u] = None]
      BY <2>3, Zenon
    <3>2. "iamEdits" \in Disturbances /\ iam[u] # None
      BY <3>1, Zenon DEF EditIAM, Fault
    <3>3. usersBar' = usersBar \ {u} /\ u \in usersBar
      BY <2>2, <3>1, <3>2, MappedUser, MappedState, Zenon
    <3>4. Lifecycle!Vanish(u)
      BY <2>1, <3>2, <3>3, Zenon DEF Lifecycle!Vanish
    <3>5. QED
      BY <3>4, Zenon DEF Lifecycle!Next
  <2>4. CASE ~\E u \in Users : EditIAM(u) /\ iam' = [iam EXCEPT ![u] = None]
    <3>1. ASSUME NEW u \in Users, NEW k, iam[u] # None,
                 iam' = [iam EXCEPT ![u].keys = @ \ {k}]
          PROVE  \A v \in Users : iam'[v] # None <=> iam[v] # None
      <4>1. [iam[u] EXCEPT !.keys = @ \ {k}] \in User
        BY <2>2, <3>1, Zenon DEF User
      <4>2. iam'[u] # None
        BY <2>2, <3>1, <4>1, DistinctAssumption, Zenon
      <4>3. \A v \in Users \ {u} : iam'[v] = iam[v]
        BY <2>2, <3>1, Zenon
      <4>4. QED
        BY <3>1, <4>2, <4>3, Zenon
    <3>2. UNCHANGED iam \/ \E u \in Users : /\ iam[u] # None
                                            /\ \E k : iam' = [iam EXCEPT ![u].keys = @ \ {k}]
      BY <2>4, Zenon DEF Environment, CreateCR, EditSpec, DeleteCR, CreateNamespace,
         DeleteNamespace, EditSecret, EditIAM, EditRoot, Tick
    <3>3. \A v \in Users : iam'[v] # None <=> iam[v] # None
      BY <3>1, <3>2, Zenon
    <3>4. QED
      BY <2>1, <3>3, MappedSame, Zenon DEF Lifecycle!vars
  <2>5. QED
    BY <2>3, <2>4, Zenon
<1>3. QED
  BY <1>1, <1>2, Zenon DEF StepFacts, EnvironmentFacts

(* Every step of a single process and of its environment.                  *)
LEMMA StepRefines ==
    ASSUME StepFacts, TypeInv, OrphanInv, LifeInv, [Next]_vars
    PROVE  [Lifecycle!Next]_(Lifecycle!vars)
<1>1. ASSUME UNCHANGED <<crs, iam>>
      PROVE  UNCHANGED Lifecycle!vars
  <2>1. phaseBar' = phaseBar /\ nameBar' = nameBar /\ usersBar' = usersBar
    BY <1>1, MappedSame, Zenon
  <2>2. QED
    BY <2>1, Zenon DEF Lifecycle!vars
<1>2. ASSUME NEW w \in Workers, NEW c \in CRs, Reconcile(w, c)
      PROVE  UNCHANGED Lifecycle!vars
  BY <1>1, <1>2, Zenon DEF StepFacts, StartFacts, Starts
<1>3. ASSUME NEW w \in Workers,
             \/ Restart(w)
             \/ \E c \in CRs : SyncCRCache(w, c)
             \/ \E r \in Refs : SyncSecretCache(w, r)
      PROVE  UNCHANGED Lifecycle!vars
  BY <1>1, <1>3, Zenon DEF StepFacts, CacheFacts, Catches
<1>4. CASE UNCHANGED vars
  BY <1>1, <1>4, Zenon DEF vars
<1>5. QED
  BY <1>2, <1>3, <1>4, CallRefines, EnvironmentRefines, Zenon DEF Next

(* The initial states map to initial states of the life cycle.             *)
LEMMA InitRefines == Init => Lifecycle!Init
  BY DEF Init, Lifecycle!Init, phaseBar, nameBar, usersBar, PhaseOf, NameOf

(* A user that goes in a step of the operator is that of a deleted request. *)
LEMMA StepOutlives ==
    ASSUME StepFacts, "iamEdits" \notin Disturbances, TypeInv, OrphanInv, LifeInv, [Next]_vars,
           NEW u \in Users, iam[u] # None, iam'[u] = None
    PROVE  \E c \in CRs : Owns(c, u) /\ crs[c].deleting
<1>1. PICK w \in Workers : WorkerStep(w)
  <2>1. ~Environment
    BY Zenon DEF StepFacts, EnvironmentFacts
  <2>2. ~UNCHANGED iam
    BY Zenon
  <2>3. QED
    BY <2>1, <2>2, Zenon DEF StepFacts, StartFacts, Starts, CacheFacts, Catches, Next, vars
<1>2. /\ wk[w].pc = "DeleteUser" /\ u = UserName(w)
      /\ wk[w].pc # "idle" /\ wk[w].req \in CRs
  BY <1>1, Zenon DEF StepFacts, UserFacts, CallFacts, ChangesUsers
<1>3. Records(crs[wk[w].req], u)
  BY <1>2, OwnUser, Zenon
<1>4. Closed(crs[wk[w].req])
  BY <1>2, Zenon DEF OrphanInv, CallInv, DeletePCs
<1>5. crs[wk[w].req].deleting
  BY <1>3, <1>4, DistinctAssumption, Zenon DEF Records, Closed
<1>6. QED
  BY <1>2, <1>3, <1>5, Zenon DEF Records, Owns

-----------------------------------------------------------------------------
(* Keys are replaced whole *)

(* A step of the only process keeps the invariant.                         *)
LEMMA CallKeepsKeys ==
    ASSUME StepFacts, TypeInv, KeyInv, NEW w \in Workers, Workers = {w}, WorkerStep(w)
    PROVE  KeyInv'
<1> DEFINE k == wk[w]
           n == wk'[w]
           u == UserName(w)
<1>1. Proceeds(w) /\ UsesIAM(w) /\ (n.pc \in SyncPCs => Advances(w))
  BY Zenon DEF StepFacts, CallFacts, IAMFacts, SecretFacts
<1>2. KeyCall(k)
  BY Zenon DEF KeyInv
<1>3. KeyCall(wk[w])'
  <2> SUFFICES ASSUME n.pc \in {"rotateAccessKeys", "CreateAccessKey"},
                      iam'[n.cr.status.user] # None
               PROVE  /\ n.pc = "rotateAccessKeys" => iam'[n.cr.status.user].keys \subseteq n.keyList
                      /\ n.pc = "CreateAccessKey" => iam'[n.cr.status.user].keys = {}
    BY Zenon DEF KeyCall
  <2>1. n.pc \in SyncPCs /\ n.pc # "idle"
    BY Zenon DEF SyncPCs
  <2>2. /\ Advances(w)
        /\ \/ k.pc = "ListAccessKeys" /\ n.pc = "rotateAccessKeys"
           \/ k.pc = "rotateAccessKeys"
    BY <1>1, <2>1, Zenon DEF Advances
  <2>3. n.cr.status.user = u
    BY <1>1, <2>1, <2>2, Zenon DEF Proceeds, DrawsName, UserName
  <2>4. CASE k.pc = "ListAccessKeys"
    <3>1. iam'[u] = iam[u]
      BY <1>1, <2>4, Zenon DEF UsesIAM, DeletePCs
    <3>2. QED
      BY <2>2, <2>3, <2>4, <3>1, Zenon DEF Advances, TheUser
  <2>5. CASE k.pc = "rotateAccessKeys"
    <3>1. iam[u] # None /\ iam'[u].keys \subseteq iam[u].keys
      BY <1>1, <2>3, <2>5, Zenon DEF UsesIAM, DeletePCs
    <3>2. iam[u].keys \subseteq k.keyList
      BY <1>2, <2>5, <3>1, Zenon DEF KeyCall, UserName
    <3>3. QED
      BY <2>2, <2>3, <2>5, <3>1, <3>2, Zenon DEF Advances, TheUser
  <2>6. QED
    BY <2>2, <2>4, <2>5, Zenon
<1>4. \A v \in Workers : v = w
  BY Zenon
<1>5. QED
  BY <1>3, <1>4, Zenon DEF KeyInv

(* The other steps create no key, and start no call that replaces one.     *)
LEMMA OthersKeepKeys ==
    ASSUME StepFacts, TypeInv, KeyInv,
           \/ Environment
           \/ \E w \in Workers :
                \/ Restart(w)
                \/ \E c \in CRs : Reconcile(w, c) \/ SyncCRCache(w, c)
                \/ \E r \in Refs : SyncSecretCache(w, r)
    PROVE  KeyInv'
<1>1. ASSUME \A u \in Users : iam'[u] # None => iam[u] # None /\ iam'[u].keys \subseteq iam[u].keys,
             \A w \in Workers : \/ wk'[w].pc \notin {"rotateAccessKeys", "CreateAccessKey"}
                                \/ wk'[w] = wk[w]
      PROVE  KeyInv'
  <2>1. ASSUME NEW w \in Workers
        PROVE  KeyCall(wk[w])'
    <3>1. CASE wk'[w].pc \notin {"rotateAccessKeys", "CreateAccessKey"}
      BY <3>1, Zenon DEF KeyCall
    <3>2. CASE wk'[w] = wk[w] /\ wk[w].pc \in {"rotateAccessKeys", "CreateAccessKey"}
      <4>1. wk[w].cr.status.user \in Users
        BY <3>2, Zenon DEF StepFacts, NamedFacts, NamedPCs, UserName
      <4>2. KeyCall(wk[w])
        BY Zenon DEF KeyInv
      <4>3. QED
        BY <1>1, <3>2, <4>1, <4>2, Zenon DEF KeyCall
    <3>3. QED
      BY <1>1, <3>1, <3>2, Zenon
  <2>2. QED
    BY <2>1, Zenon DEF KeyInv
<1>2. CASE Environment
  <2>1. /\ \A u \in Users :
             iam'[u] # None => iam[u] # None /\ iam'[u].keys \subseteq iam[u].keys
        /\ \A w \in Workers : wk'[w] = wk[w]
    BY <1>2, Zenon DEF StepFacts, EnvironmentFacts
  <2>2. QED
    BY <1>1, <2>1, Zenon
<1>3. ASSUME NEW w \in Workers, NEW c \in CRs, Reconcile(w, c)
      PROVE  KeyInv'
  <2>1. /\ UNCHANGED iam /\ \A v \in Workers \ {w} : wk'[v] = wk[v]
        /\ wk'[w].pc \in {"DeleteUserPolicy", "namespace", "addDeprovisionFinalizer"}
    BY <1>3, Zenon DEF StepFacts, StartFacts, Starts
  <2>2. QED
    BY <1>1, <2>1, Zenon
<1>4. ASSUME NEW w \in Workers,
             \/ Restart(w)
             \/ \E c \in CRs : SyncCRCache(w, c)
             \/ \E r \in Refs : SyncSecretCache(w, r)
      PROVE  KeyInv'
  <2>1. UNCHANGED iam /\ \A v \in Workers : wk'[v].pc = "idle" \/ wk'[v] = wk[v]
    BY <1>4, Zenon DEF StepFacts, CacheFacts, Catches
  <2>2. QED
    BY <1>1, <2>1, Zenon
<1>5. QED
  BY <1>2, <1>3, <1>4, Zenon

(* There are no users at the start.                                        *)
LEMMA InitKeys == Init => KeyInv
  BY DEF Init, KeyInv, KeyCall, IdleWorker, Locals

(* Every step of a single process keeps it.                                *)
LEMMA KeyStep ==
    ASSUME StepFacts, SingleProcess, TypeInv, KeyInv, [Next]_vars
    PROVE  KeyInv'
<1>1. ASSUME NEW w \in Workers, WorkerStep(w)
      PROVE  KeyInv'
  BY <1>1, CallKeepsKeys, Zenon DEF SingleProcess
<1>2. CASE UNCHANGED vars
  <2>1. UNCHANGED <<iam, wk>>
    BY <1>2, Zenon DEF vars
  <2>2. QED
    BY <2>1, Zenon DEF KeyInv, KeyCall
<1>3. QED
  BY <1>1, <1>2, OthersKeepKeys, Zenon DEF Next

(* A step that gives a user a new key finds it without any.                *)
LEMMA StepReplacesKeys ==
    ASSUME StepFacts, TypeInv, KeyInv, [Next]_vars, NEW u \in Users,
           iam[u] # None, iam'[u] # None, ~(iam'[u].keys \subseteq iam[u].keys)
    PROVE  iam[u].keys = {}
<1>1. PICK w \in Workers : WorkerStep(w)
  <2>1. ~Environment
    BY Zenon DEF StepFacts, EnvironmentFacts
  <2>2. ~UNCHANGED iam
    BY Zenon
  <2>3. QED
    BY <2>1, <2>2, Zenon DEF StepFacts, StartFacts, Starts, CacheFacts, Catches, Next, vars
<1>2. wk[w].pc = "CreateAccessKey" /\ u = UserName(w)
  BY <1>1, Zenon DEF StepFacts, UserFacts, ChangesUsers
<1>3. KeyCall(wk[w])
  BY Zenon DEF KeyInv
<1>4. QED
  BY <1>2, <1>3, Zenon DEF KeyCall, UserName

-----------------------------------------------------------------------------
(* A request that goes leaves no secret *)

(* A call works on the secret its request names, and has seen it gone when *)
(* it removes the finalizer.                                               *)
GoneCall(k) ==
    /\ k.pc # "idle" => k.cr.ref = k.base.ref
    /\ k.pc = "removeDeprovisionFinalizer" => secrets[k.cr.ref] = None

GoneInv == \A w \in Workers : GoneCall(wk[w])

(* Every step of a single process keeps this when the cache is up to date  *)
(* wherever the process looks, as long as nobody else creates secrets.     *)
LEMMA StepKeepsGone ==
    ASSUME StepFacts, SingleProcess, FreshReads, "secretEdits" \notin Disturbances,
           TypeInv, GoneInv, [Next]_vars
    PROVE  GoneInv'
<1>1. ASSUME NEW w \in Workers, WorkerStep(w)
      PROVE  GoneInv'
  <2>1. Proceeds(w) /\ WritesSecret(w)
    BY <1>1, Zenon DEF StepFacts, CallFacts, SecretFacts
  <2>2. GoneCall(wk[w]) /\ \A v \in Workers : v = w
    BY Zenon DEF GoneInv, SingleProcess
  <2>3. ASSUME wk'[w].pc # "idle"
        PROVE  wk'[w].cr.ref = wk'[w].base.ref /\ wk'[w].cr.ref = wk[w].cr.ref
    BY <2>1, <2>2, <2>3, Zenon DEF Proceeds, SameButStatus, GoneCall
  <2>4. ASSUME wk'[w].pc = "removeDeprovisionFinalizer"
        PROVE  secrets'[wk[w].cr.ref] = None
    <3>1. wk[w].pc = "deleteTargetSecret"
      BY <2>1, <2>4, Zenon DEF Proceeds
    <3>2. wk[w].cr.ref \in Refs
      BY <3>1, Zenon DEF StepFacts, RunningFacts, At, CredentialsRequest
    <3>3. \/ secrets[wk[w].cr.ref] = None /\ UNCHANGED secrets
          \/ secrets' = [secrets EXCEPT ![wk[w].cr.ref] = None]
      BY <2>1, <2>4, <3>1, Zenon DEF WritesSecret, FreshReads
    <3>4. QED
      BY <3>2, <3>3, Zenon DEF TypeInv, TypeOK
  <2>5. GoneCall(wk[w])'
    BY <2>3, <2>4, Zenon DEF GoneCall
  <2>6. QED
    BY <2>2, <2>5, Zenon DEF GoneInv
<1>2. CASE Environment
  <2>1. UNCHANGED wk /\ \A r \in Refs : secrets'[r] \in {secrets[r], None}
    BY <1>2, Zenon DEF StepFacts, EnvironmentFacts, OutsideFacts
  <2>2. ASSUME NEW w \in Workers
        PROVE  GoneCall(wk[w])'
    <3>1. wk[w].pc = "removeDeprovisionFinalizer" => wk[w].cr.ref \in Refs
      BY Zenon DEF StepFacts, RunningFacts, At, CredentialsRequest
    <3>2. QED
      BY <2>1, <3>1, Zenon DEF GoneInv, GoneCall
  <2>3. QED
    BY <2>2, Zenon DEF GoneInv
<1>3. ASSUME NEW w \in Workers, NEW c \in CRs, Reconcile(w, c)
      PROVE  GoneInv'
  <2>1. /\ UNCHANGED secrets /\ \A v \in Workers \ {w} : wk'[v] = wk[v]
        /\ wk'[w].cr = wk'[w].base /\ wk'[w].pc # "removeDeprovisionFinalizer"
    BY <1>3, Zenon DEF StepFacts, StartFacts, Starts
  <2>2. GoneCall(wk[w])'
    BY <2>1, Zenon DEF GoneCall
  <2>3. ASSUME NEW v \in Workers, v # w PROVE GoneCall(wk[v])'
    <3>1. wk'[v] = wk[v] /\ GoneCall(wk[v])
      BY <2>1, <2>3, Zenon DEF GoneInv
    <3>2. QED
      BY <2>1, <3>1, Zenon DEF GoneCall
  <2>4. QED
    BY <2>2, <2>3, Zenon DEF GoneInv
<1>4. ASSUME NEW w \in Workers,
             \/ Restart(w)
             \/ \E c \in CRs : SyncCRCache(w, c)
             \/ \E r \in Refs : SyncSecretCache(w, r)
      PROVE  GoneInv'
  <2>1. UNCHANGED secrets /\ \A v \in Workers : wk'[v].pc = "idle" \/ wk'[v] = wk[v]
    BY <1>4, Zenon DEF StepFacts, CacheFacts, Catches
  <2>2. ASSUME NEW v \in Workers PROVE GoneCall(wk[v])'
    <3>1. GoneCall(wk[v])
      BY Zenon DEF GoneInv
    <3>2. CASE wk'[v].pc = "idle"
      BY <3>2, Zenon DEF GoneCall
    <3>3. CASE wk'[v] = wk[v]
      BY <2>1, <3>1, <3>3, Zenon DEF GoneCall
    <3>4. QED
      BY <2>1, <3>2, <3>3, Zenon
  <2>3. QED
    BY <2>2, Zenon DEF GoneInv
<1>5. CASE UNCHANGED vars
  BY <1>5, Zenon DEF vars, GoneInv, GoneCall
<1>6. QED
  BY <1>1, <1>2, <1>3, <1>4, <1>5, Zenon DEF Next

(* No call runs at the start.                                              *)
LEMMA InitGone == Init => GoneInv
  BY DEF Init, GoneInv, GoneCall, IdleWorker, Locals

(* Only a call that has seen the secret gone lets a protected request go.  *)
LEMMA StepLeavesNoSecret ==
    ASSUME StepFacts, TypeInv, GoneInv, [Next]_vars, NEW c \in CRs,
           crs[c] # None, crs[c].finalizer, crs'[c] = None
    PROVE  secrets[crs[c].ref] = None
<1>1. ASSUME NEW w \in Workers, WorkerStep(w)
      PROVE  secrets[crs[c].ref] = None
  <2>1. Writes(w) /\ wk[w].pc # "idle"
    BY <1>1, Zenon DEF StepFacts, CallFacts
  <2>2. /\ c = wk[w].req /\ crs[c] = wk[w].base
        /\ wk[w].pc = "removeDeprovisionFinalizer"
    BY <2>1, DistinctAssumption, Zenon DEF Writes, Updated, Protected
  <2>3. QED
    BY <2>2, Zenon DEF GoneInv, GoneCall
<1>2. CASE Environment
  <2>1. CASE UNCHANGED crs
    BY <2>1, Zenon
  <2>2. CASE \E d \in CRs : UserWrites(d)
    BY <2>2, DistinctAssumption, Zenon DEF UserWrites
  <2>3. QED
    BY <1>2, <2>1, <2>2, Zenon DEF StepFacts, EnvironmentFacts
<1>3. CASE \/ UNCHANGED vars
           \/ \E w \in Workers :
                \/ Restart(w)
                \/ \E d \in CRs : Reconcile(w, d) \/ SyncCRCache(w, d)
                \/ \E r \in Refs : SyncSecretCache(w, r)
  <2>1. UNCHANGED crs
    BY <1>3, Zenon DEF StepFacts, StartFacts, Starts, CacheFacts, Catches, vars
  <2>2. QED
    BY <2>1, Zenon
<1>4. QED
  BY <1>1, <1>2, <1>3, Zenon DEF Next

=============================================================================
