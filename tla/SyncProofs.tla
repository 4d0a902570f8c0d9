----------------------------- MODULE SyncProofs -----------------------------
(***************************************************************************)
(* The steps of the proof that a skipped sync has nothing to do, for a     *)
(* single operator process: every copy of a request is an older one of the *)
(* stored request, a running sync has seen and made what it relies on, and *)
(* so a request with a recent sync is served.                              *)
(***************************************************************************)
EXTENDS Invariants, TLAPS

-----------------------------------------------------------------------------
(* The copies of one request, in the API server, the cache and the call *)

(* A copy of a request that no sync will work on.                          *)
Released(x) == x = None \/ x.deleting \/ ~x.finalizer

(* x is an older copy of the stored y: its spec is the same as long as the *)
(* generation is, y was last synced for a generation of x or before, and   *)
(* a name in x is the one in y.                                            *)
Behind(x, y) ==
    /\ y # None /\ y.finalizer
    /\ x.gen <= y.gen /\ (x.gen = y.gen => x.ref = y.ref /\ x.policy = y.policy)
    /\ y.status.syncGen <= x.gen
    /\ x.status.user \in {None, y.status.user}

(* What a stored request x says of itself.                                 *)
StoredCopy(x) ==
    x # None => x.status.syncGen <= x.gen /\ (~x.finalizer => x.status = NewStatus)

(* How a cached x relates to the stored y.                                 *)
CachedCopy(x, y) ==
    /\ Deleting(x) => Released(y)
    /\ ~Released(x) => Behind(x, y)

(* How the copies of a running call relate to the cached and the stored    *)
(* one.                                                                    *)
CallCopies(k, cached, stored) ==
    /\ SameButStatus(k.cr, k.base)
    /\ k.pc = "addDeprovisionFinalizer" => ~k.base.finalizer
    /\ k.pc \in SyncPCs => ~k.base.deleting
    /\ k.pc \in DeletePCs => k.base.deleting /\ Released(stored) /\ Released(cached)
    /\ k.pc \in SyncPCs \cup {"updateStatus"} /\ ~k.base.deleting =>
         /\ Behind(k.base, stored)
         /\ cached # None /\ cached.finalizer /\ k.base.gen <= cached.gen
    /\ k.pc \in SyncPCs \cup DeletePCs => SameSync(k.cr.status, k.base.status)
    /\ k.pc = "updateStatus" =>
         \/ SameSync(k.cr.status, k.base.status)
         \/ k.cr.status.syncGen = k.base.gen /\ ~k.base.deleting

LineageInv ==
    /\ \A c \in CRs : StoredCopy(crs[c])
    /\ \A w \in Workers :
         /\ \A c \in CRs : CachedCopy(crCache[w][c], crs[c])
         /\ wk[w].pc # "idle" => CallCopies(wk[w], crCache[w][wk[w].req], crs[wk[w].req])

(* A request as it is stored is behind itself.                             *)
LEMMA BehindItself ==
    ASSUME NEW x \in CredentialsRequest \cup {None}, StoredCopy(x)
    PROVE  CachedCopy(x, x) /\ (x # None /\ x.finalizer => Behind(x, x))
<1>1. CASE x = None
  BY <1>1, Zenon DEF CachedCopy, Released, Deleting
<1>2. CASE x \in CredentialsRequest
  BY <1>2 DEF CachedCopy, Released, Deleting, Behind, StoredCopy, CredentialsRequest, Status
<1>3. QED
  BY <1>1, <1>2, Zenon

(* An older copy of a request that was synced as it is has its spec.       *)
LEMMA BehindSynced ==
    ASSUME NEW x, NEW y, x.gen \in Nat, y.gen \in Nat, Behind(x, y), y.status.syncGen = y.gen
    PROVE  x.gen = y.gen /\ x.ref = y.ref /\ x.policy = y.policy
  BY DEF Behind

(* An older copy of a request is not its next edit.                        *)
LEMMA BehindEdited ==
    ASSUME NEW x, NEW y, x.gen \in Nat, y.gen \in Nat, Behind(x, y)
    PROVE  x.gen # y.gen + 1
  BY DEF Behind

(* A new request has not been synced.                                      *)
LEMMA NewIsUnsynced == NewStatus.syncGen = 0 /\ NewStatus.syncTime = 0 /\ NewStatus.user = None
  BY Zenon DEF NewStatus

(* What a user of the cluster does to a request keeps its older copies     *)
(* behind it.                                                              *)
LEMMA UsersKeepLineage ==
    ASSUME TypeInv, LineageInv, NEW c \in CRs, UserWrites(c)
    PROVE  /\ StoredCopy(crs'[c])
           /\ Released(crs[c]) => Released(crs'[c])
           /\ \A x \in CredentialsRequest : Behind(x, crs[c]) => Behind(x, crs'[c])
<1> DEFINE old == crs[c]
           new == crs'[c]
<1>1. StoredCopy(old)
  BY Zenon DEF LineageInv
<1>2. CASE old = None /\ new \in CredentialsRequest
  <2>1. new.status = NewStatus /\ ~new.finalizer /\ new.gen = 1
    BY <1>2, DistinctAssumption, Zenon DEF UserWrites
  <2>2. QED
    BY <1>2, <2>1 DEF StoredCopy, Released, Behind, NewStatus
<1>3. CASE /\ old \in CredentialsRequest /\ new \in CredentialsRequest
           /\ new.status = old.status /\ new.finalizer = old.finalizer
           /\ new.deleting = old.deleting /\ new.gen = old.gen + 1
  <2>1. old # None /\ new # None
    BY <1>3, DistinctAssumption, Zenon
  <2>2. old.gen \in Nat /\ old.status.syncGen \in Nat
    BY <1>3, Zenon DEF CredentialsRequest, Status
  <2>3. ASSUME NEW x \in CredentialsRequest, Behind(x, old)
        PROVE  Behind(x, new)
    <3>1. x.gen \in Nat
      BY Zenon DEF CredentialsRequest
    <3>2. QED
      BY <1>3, <2>1, <2>2, <2>3, <3>1 DEF Behind
  <2>4. QED
    BY <1>1, <1>3, <2>1, <2>2, <2>3 DEF StoredCopy, Released
<1>4. CASE /\ old \in CredentialsRequest /\ old.finalizer
           /\ new \in CredentialsRequest /\ new = [old EXCEPT !.deleting = TRUE]
  <2>1. /\ old # None /\ new # None /\ new.deleting /\ new.status = old.status
        /\ new.gen = old.gen /\ new.ref = old.ref /\ new.policy = old.policy
        /\ new.finalizer = old.finalizer
    BY <1>4, DistinctAssumption, ZenonT(40) DEF CredentialsRequest
  <2> HIDE DEF old, new
  <2>2. QED
    BY <1>1, <2>1, Zenon DEF StoredCopy, Released, Behind, old, new
<1>5. CASE old \in CredentialsRequest /\ ~old.finalizer /\ new = None
  BY <1>5, Zenon DEF StoredCopy, Released, Behind
<1>6. QED
  BY <1>2, <1>3, <1>4, <1>5, Zenon DEF UserWrites

(* What a step of a call makes of the stored request: the cached copy      *)
(* stays behind it.                                                        *)
LEMMA CallStores ==
    ASSUME StepFacts, TypeInv, OrphanInv, LifeInv, LineageInv, NEW w \in Workers, WorkerStep(w)
    PROVE  /\ StoredCopy(crs'[wk[w].req])
           /\ CachedCopy(crCache[w][wk[w].req], crs'[wk[w].req])
<1> DEFINE k == wk[w]
           old == crs[k.req]
           new == crs'[k.req]
           x == crCache[w][k.req]
<1>1. Writes(w) /\ k.pc # "idle" /\ k.req \in CRs
  BY Zenon DEF StepFacts, CallFacts
<1>2. StoredCopy(old) /\ CachedCopy(x, old) /\ CallCopies(k, x, old)
  BY <1>1, Zenon DEF LineageInv
<1>3. /\ k.base \in CredentialsRequest /\ k.base # None
      /\ k.base.gen \in Nat /\ k.base.status.syncGen \in Nat
      /\ k.base.status.user \in {None, k.cr.status.user}
  BY <1>1, DistinctAssumption, Zenon DEF StepFacts, RunningFacts, At, CredentialsRequest, Status
<1>4. x \in CredentialsRequest \cup {None}
  BY <1>1, Zenon DEF TypeInv, TypeOK
<1>5. CASE new = old
  BY <1>2, <1>5, Zenon
<1>6. CASE k.pc = "removeDeprovisionFinalizer" /\ new = None
  <2>1. Released(x)
    BY <1>2, <1>6, Zenon DEF CallCopies, DeletePCs
  <2>2. QED
    BY <1>6, <2>1, Zenon DEF StoredCopy, CachedCopy, Released
<1>7. CASE old = k.base /\ k.pc = "addDeprovisionFinalizer" /\ Protected(new, k.base)
  <2>1. ~k.base.finalizer /\ new.finalizer /\ new.deleting = k.base.deleting /\ new # None
    BY <1>2, <1>7, DistinctAssumption, Zenon DEF CallCopies, Protected
  <2>2. Deleting(x) => k.base.deleting
    BY <1>1, <1>7, Zenon DEF OrphanInv, CallInv, Deleting
  <2>3. StoredCopy(new)
    BY <1>2, <1>3, <1>7, <2>1, Zenon DEF StoredCopy, Protected
  <2>4. CachedCopy(x, new)
    BY <1>2, <1>7, <2>1, <2>2, Zenon DEF CachedCopy, Behind, Released
  <2>5. QED
    BY <2>3, <2>4, Zenon
<1>8. ASSUME NEW s \in Status, old = k.base, k.base.finalizer, Updated(new, k.base, s),
             s.syncGen <= k.base.gen,
             ~Released(x) => /\ s.syncGen <= x.gen
                             /\ k.base.status.user \in {None, s.user}
      PROVE  StoredCopy(new) /\ CachedCopy(x, new)
  <2>1. /\ new # None /\ new.finalizer /\ new.deleting = old.deleting /\ new.gen = old.gen
        /\ new.ref = old.ref /\ new.policy = old.policy /\ new.status = s
    BY <1>8, DistinctAssumption, Zenon DEF Updated, SameButStatus
  <2>2. StoredCopy(new)
    BY <1>8, <2>1, Zenon DEF StoredCopy
  <2>3. Released(old) => Released(new)
    BY <1>3, <1>8, <2>1, Zenon DEF Released
  <2>4. ASSUME ~Released(x)
        PROVE  Behind(x, new)
    <3>1. Behind(x, old)
      BY <1>2, <2>4, Zenon DEF CachedCopy
    <3> HIDE DEF k, old, new, x
    <3>2. QED
      BY <1>8, <2>1, <2>4, <3>1, Zenon DEF Behind
  <2>5. QED
    BY <1>2, <2>2, <2>3, <2>4, Zenon DEF CachedCopy
<1>9. k.pc \in {"updateStatus", "clearDeprovisionFailure", "userName"} => k.base.finalizer
  BY Zenon DEF LifeInv, ProtectedCall, ProtectedPCs, SyncPCs, DeletePCs
<1>10. k.base.status.syncGen <= k.base.gen \/ old # k.base
  BY <1>2, <1>3, Zenon DEF StoredCopy
<1>11. ASSUME ~Released(x), old = k.base
       PROVE  /\ x.gen \in Nat /\ k.base.status.syncGen <= x.gen
              /\ ~k.base.deleting /\ k.pc = "updateStatus" => k.base.gen <= x.gen
  BY <1>2, <1>4, <1>11, Zenon DEF CachedCopy, Behind, Released, CallCopies, CredentialsRequest
<1>12. CASE old = k.base /\ k.pc = "updateStatus" /\ Updated(new, k.base, k.cr.status)
  <2>1. k.cr.status \in Status
    BY <1>1, Zenon DEF StepFacts, RunningFacts, At
  <2>2. \/ k.cr.status.syncGen = k.base.status.syncGen
        \/ k.cr.status.syncGen = k.base.gen /\ ~k.base.deleting
    BY <1>2, <1>12, Zenon DEF CallCopies, SameSync
  <2>3. k.cr.status.syncGen <= k.base.gen
    <3>1. k.base.gen <= k.base.gen
      BY <1>3
    <3>2. QED
      BY <1>10, <1>12, <2>2, <3>1, Zenon
  <2>4. ~Released(x) => k.cr.status.syncGen <= x.gen
    BY <1>11, <1>12, <2>2, Zenon
  <2>5. QED
    BY <1>3, <1>8, <1>9, <1>12, <2>1, <2>3, <2>4, Zenon
<1>13. CASE /\ old = k.base /\ k.pc = "clearDeprovisionFailure"
            /\ \E s \in Status : /\ s.user = k.cr.status.user /\ SameSync(s, k.cr.status)
                                 /\ Updated(new, k.base, s)
  <2>1. PICK s \in Status : SameSync(s, k.cr.status) /\ Updated(new, k.base, s)
    BY <1>13, Zenon
  <2>2. Released(x) /\ k.cr.status.syncGen = k.base.status.syncGen
    BY <1>2, <1>13, Zenon DEF CallCopies, DeletePCs, SameSync
  <2>3. QED
    BY <1>8, <1>9, <1>10, <1>13, <2>1, <2>2, Zenon DEF SameSync
<1>14. CASE /\ old = k.base /\ k.pc = "userName" /\ UserName(w) = None
            /\ \E u \in Users :
                 \E s \in Status : /\ s.user = u /\ SameSync(s, k.cr.status)
                                   /\ Updated(new, k.base, s)
  <2>1. PICK s \in Status : SameSync(s, k.cr.status) /\ Updated(new, k.base, s)
    BY <1>14, Zenon
  <2>2. k.cr.status.syncGen = k.base.status.syncGen /\ k.base.status.user = None
    BY <1>2, <1>3, <1>14, Zenon DEF CallCopies, SyncPCs, SameSync, UserName
  <2>3. QED
    BY <1>8, <1>9, <1>10, <1>11, <1>14, <2>1, <2>2, Zenon DEF SameSync
<1>15. QED
  BY <1>1, <1>5, <1>6, <1>7, <1>12, <1>13, <1>14, Zenon DEF Writes

(* The copies of the call stay behind the stored request as well.          *)
LEMMA CallKeepsCopies ==
    ASSUME StepFacts, TypeInv, TypeInv', OrphanInv, LifeInv, LineageInv, NEW w \in Workers, WorkerStep(w),
           wk'[w].pc # "idle"
    PROVE  CallCopies(wk'[w], crCache[w][wk[w].req], crs'[wk[w].req])
<1> DEFINE k == wk[w]
           n == wk'[w]
           old == crs[k.req]
           new == crs'[k.req]
           x == crCache[w][k.req]
<1>1. Proceeds(w) /\ Writes(w) /\ k.pc # "idle" /\ k.req \in CRs
  BY Zenon DEF StepFacts, CallFacts
<1>2. CallCopies(k, x, old) /\ StoredCopy(new)
  BY <1>1, CallStores, Zenon DEF LineageInv
<1>3. /\ SameButStatus(n.base, k.base) /\ SameButStatus(n.cr, k.cr)
      /\ n.pc # "addDeprovisionFinalizer"
      /\ n.pc \in SyncPCs => k.pc \in SyncPCs
      /\ n.pc \in DeletePCs => k.pc \in DeletePCs
      /\ n.pc = "updateStatus" => k.pc \in SyncPCs \cup DeletePCs /\ n.base = k.base
      /\ n.base = k.base \/ (n.base = new /\ SameSync(n.base.status, k.cr.status))
  BY <1>1, Zenon DEF Proceeds
<1>4. SameButStatus(n.cr, n.base)
  BY <1>2, <1>3, Zenon DEF CallCopies, SameButStatus
<1>5. ASSUME n.pc \in SyncPCs
      PROVE  ~n.base.deleting
  BY <1>2, <1>3, <1>5, Zenon DEF CallCopies, SameButStatus
<1>6. ASSUME n.pc \in DeletePCs
      PROVE  n.base.deleting /\ Released(new) /\ Released(x)
  <2>1. k.pc \in DeletePCs /\ k.base.deleting /\ Released(old) /\ Released(x)
    BY <1>2, <1>3, <1>6, Zenon DEF CallCopies
  <2>2. k.pc \notin {"addDeprovisionFinalizer", "userName"}
    BY <2>1, Zenon DEF DeletePCs
  <2>3. Released(new)
    <3>1. \/ new \in {old, None}
          \/ \E s : old = k.base /\ Updated(new, k.base, s)
      BY <1>1, <2>2, Zenon DEF Writes
    <3>2. QED
      BY <2>1, <3>1, Zenon DEF Released, Updated, SameButStatus
  <2>4. QED
    BY <1>3, <2>1, <2>3, Zenon DEF SameButStatus
<1>7. ASSUME n.pc \in SyncPCs \cup {"updateStatus"}, ~n.base.deleting
      PROVE  Behind(n.base, new) /\ x # None /\ x.finalizer /\ n.base.gen <= x.gen
  <2>1. k.pc \in SyncPCs /\ ~k.base.deleting
    BY <1>2, <1>3, <1>7, Zenon DEF CallCopies, SameButStatus
  <2>2. Behind(k.base, old) /\ x # None /\ x.finalizer /\ n.base.gen <= x.gen
    BY <1>2, <1>3, <2>1, Zenon DEF CallCopies, SameButStatus
  <2>3. k.base.finalizer
    BY <2>1, Zenon DEF LifeInv, ProtectedCall, ProtectedPCs
  <2>4. CASE n.base = new
    <3>1. n.base \in CredentialsRequest /\ n.base # None
      <4>1. n \in GoodWorkers
        BY Zenon DEF TypeInv
      <4>2. n.base \in CredentialsRequest
        BY <4>1, Zenon DEF GoodWorkers
      <4>3. QED
        BY <4>2, DistinctAssumption, Zenon
    <3>2. n.base.finalizer
      BY <1>3, <2>3, Zenon DEF SameButStatus
    <3>3. QED
      BY <1>2, <2>2, <2>4, <3>1, <3>2, BehindItself, Zenon
  <2>5. CASE n.base = k.base /\ new = old
    BY <2>2, <2>5, Zenon
  <2>6. CASE n.base = k.base /\ new # old
    <3>1. k.pc \notin {"removeDeprovisionFinalizer", "addDeprovisionFinalizer",
                       "updateStatus", "clearDeprovisionFailure"}
      BY <2>1, Zenon DEF SyncPCs
    <3>2. PICK s \in Status : /\ UserName(w) = None /\ SameSync(s, k.cr.status)
                              /\ Updated(new, k.base, s) /\ old = k.base
      BY <1>1, <2>6, <3>1, Zenon DEF Writes
    <3>3. /\ k.base.status.user = None /\ k.base.gen \in Nat
          /\ s.syncGen = k.base.status.syncGen
      BY <1>1, <1>2, <2>1, <3>2, Zenon
         DEF StepFacts, RunningFacts, At, UserName, CallCopies, SameSync, CredentialsRequest
    <3>4. /\ new # None /\ new.finalizer /\ new.gen = k.base.gen /\ new.ref = k.base.ref
          /\ new.policy = k.base.policy /\ new.status = s
      BY <2>3, <3>2, DistinctAssumption, Zenon DEF Updated, SameButStatus
    <3>5. k.base.status.syncGen <= k.base.gen
      BY <2>2, <3>2, Zenon DEF Behind
    <3>6. Behind(k.base, new)
      BY <3>3, <3>4, <3>5 DEF Behind
    <3>7. QED
      BY <2>2, <2>6, <3>6, Zenon
  <2>7. QED
    BY <1>3, <2>4, <2>5, <2>6, Zenon
<1>8. ASSUME n.pc \in SyncPCs \cup DeletePCs
      PROVE  SameSync(n.cr.status, n.base.status)
  <2>1. n.pc # "updateStatus"
    BY <1>8, Zenon DEF SyncPCs, DeletePCs
  <2>2. SameSync(n.cr.status, k.cr.status) /\ SameSync(k.cr.status, k.base.status)
    BY <1>1, <1>2, <1>3, <1>8, <2>1, Zenon DEF Proceeds, CallCopies
  <2>3. QED
    BY <1>3, <2>2, Zenon DEF SameSync
<1>9. ASSUME n.pc = "updateStatus"
      PROVE  \/ SameSync(n.cr.status, n.base.status)
             \/ n.cr.status.syncGen = n.base.gen /\ ~n.base.deleting
  <2>1. n.base = k.base /\ SameSync(k.cr.status, k.base.status)
    BY <1>2, <1>3, <1>9, Zenon DEF CallCopies
  <2>2. CASE SameSync(n.cr.status, k.cr.status)
    BY <2>1, <2>2, Zenon DEF SameSync
  <2>3. CASE SyncDone(w) /\ n.cr.status.syncGen = k.base.gen
    <3>1. k.pc \in SyncPCs
      BY <2>3, Zenon DEF SyncDone, SyncPCs
    <3>2. QED
      BY <1>2, <2>1, <2>3, <3>1, Zenon DEF CallCopies
  <2>4. QED
    BY <1>1, <2>2, <2>3, Zenon DEF Proceeds
<1>10. QED
  BY <1>3, <1>4, <1>5, <1>6, <1>7, <1>8, <1>9, Zenon DEF CallCopies

(* Every other step, of any number of processes.                           *)
LEMMA OthersKeepLineage ==
    ASSUME StepFacts, TypeInv, TypeInv', LineageInv,
           \/ Environment
           \/ \E w \in Workers : \/ Restart(w)
                                 \/ \E c \in CRs : Reconcile(w, c) \/ SyncCRCache(w, c)
                                 \/ \E r \in Refs : SyncSecretCache(w, r)
    PROVE  LineageInv'
<1>0. /\ \A c \in CRs : crs[c] \in CredentialsRequest \cup {None}
      /\ \A w \in Workers, c \in CRs : crCache[w][c] \in CredentialsRequest \cup {None}
  BY Zenon DEF TypeInv, TypeOK
<1>1. CASE Environment
  <2>1. UNCHANGED <<wk, crCache>>
    BY <1>1, Zenon DEF StepFacts, EnvironmentFacts
  <2>2. ASSUME NEW c \in CRs
        PROVE  /\ StoredCopy(crs'[c])
               /\ Released(crs[c]) => Released(crs'[c])
               /\ \A x \in CredentialsRequest : Behind(x, crs[c]) => Behind(x, crs'[c])
    <3>1. CASE crs'[c] = crs[c]
      BY <3>1, Zenon DEF LineageInv
    <3>2. CASE UserWrites(c)
      BY <3>2, UsersKeepLineage, Zenon
    <3>3. UNCHANGED crs \/ \E d \in CRs : UserWrites(d)
      BY <1>1, Zenon DEF StepFacts, EnvironmentFacts
    <3>4. \A d \in CRs \ {c} : UserWrites(d) => crs'[c] = crs[c]
      BY Zenon DEF UserWrites
    <3>5. QED
      BY <3>1, <3>2, <3>3, <3>4, Zenon
  <2>3. ASSUME NEW w \in Workers, NEW c \in CRs
        PROVE  CachedCopy(crCache[w][c], crs'[c])
    <3>1. CachedCopy(crCache[w][c], crs[c])
      BY Zenon DEF LineageInv
    <3>2. ~Released(crCache[w][c]) => crCache[w][c] \in CredentialsRequest
      BY <1>0, Zenon DEF Released
    <3>3. QED
      BY <2>2, <3>1, <3>2, Zenon DEF CachedCopy
  <2>4. ASSUME NEW w \in Workers, wk[w].pc # "idle"
        PROVE  CallCopies(wk[w], crCache[w][wk[w].req], crs'[wk[w].req])
    <3>1. CallCopies(wk[w], crCache[w][wk[w].req], crs[wk[w].req])
      BY <2>4, Zenon DEF LineageInv
    <3>2. wk[w].req \in CRs /\ wk[w].base \in CredentialsRequest
      BY <2>4, Zenon DEF StepFacts, RunningFacts, At
    <3>3. QED
      BY <2>2, <3>1, <3>2, Zenon DEF CallCopies
  <2>5. QED
    BY <2>1, <2>2, <2>3, <2>4, Zenon DEF LineageInv
<1>2. ASSUME NEW w \in Workers, NEW c \in CRs, Reconcile(w, c)
      PROVE  LineageInv'
  <2> DEFINE n == wk'[w]
  <2>1. /\ UNCHANGED <<crs, crCache>> /\ \A v \in Workers \ {w} : wk'[v] = wk[v]
        /\ n.req = c /\ n.base = crCache[w][c] /\ n.cr = n.base /\ n.base # None
        /\ \/ n.pc = "DeleteUserPolicy" /\ n.base.deleting /\ n.base.finalizer
           \/ n.pc = "namespace" /\ ~n.base.deleting /\ n.base.finalizer
           \/ n.pc = "addDeprovisionFinalizer" /\ ~n.base.deleting /\ ~n.base.finalizer
    BY <1>2, Zenon DEF StepFacts, StartFacts, Starts
  <2>2. CachedCopy(crCache[w][c], crs[c]) /\ n.base.gen \in Nat
    BY <1>0, <2>1, Zenon DEF LineageInv, CredentialsRequest
  <2>3. CallCopies(n, crCache[w][c], crs[c])
    <3>1. SameButStatus(n.cr, n.base) /\ SameSync(n.cr.status, n.base.status)
      BY <2>1, Zenon DEF SameButStatus, SameSync
    <3> HIDE DEF n
    <3>2. CASE n.pc = "DeleteUserPolicy" /\ n.base.deleting
      BY <2>1, <2>2, <3>1, <3>2, Zenon DEF CallCopies, CachedCopy, Released, Deleting, SyncPCs
    <3>3. CASE n.pc = "namespace" /\ ~n.base.deleting /\ n.base.finalizer
      <4>1. n.base.gen <= n.base.gen
        BY <2>2
      <4>2. QED
        BY <2>1, <2>2, <3>1, <3>3, <4>1, Zenon DEF CallCopies, CachedCopy, Released, SyncPCs, DeletePCs
    <3>4. CASE n.pc = "addDeprovisionFinalizer" /\ ~n.base.finalizer
      BY <3>1, <3>4, Zenon DEF CallCopies, SyncPCs, DeletePCs
    <3>5. QED
      BY <2>1, <3>2, <3>3, <3>4, Zenon
  <2>4. QED
    BY <2>1, <2>3, Zenon DEF LineageInv
<1>3. ASSUME NEW w \in Workers,
             \/ Restart(w)
             \/ \E c \in CRs : SyncCRCache(w, c)
             \/ \E r \in Refs : SyncSecretCache(w, r)
      PROVE  LineageInv'
  <2>1. /\ UNCHANGED crs
        /\ \A v \in Workers : /\ wk'[v].pc = "idle" \/ wk'[v] = wk[v]
                              /\ \A c \in CRs : crCache'[v][c] \in {crCache[v][c], crs[c]}
    BY <1>3, Zenon DEF StepFacts, CacheFacts, Catches
  <2>2. ASSUME NEW v \in Workers, NEW c \in CRs
        PROVE  CachedCopy(crCache'[v][c], crs[c])
    BY <1>0, <2>1, BehindItself, Zenon DEF LineageInv
  <2>3. ASSUME NEW v \in Workers, wk'[v].pc # "idle"
        PROVE  CallCopies(wk[v], crCache'[v][wk[v].req], crs[wk[v].req])
    <3> DEFINE k == wk[v]
               y == crs[k.req]
    <3>1. k.pc # "idle" /\ CallCopies(k, crCache[v][k.req], y)
      BY <2>1, <2>3, Zenon DEF LineageInv
    <3>2. k.req \in CRs
      BY <3>1, Zenon DEF StepFacts, RunningFacts, At
    <3>3. crCache'[v][k.req] \in {crCache[v][k.req], y}
      BY <2>1, <3>2, Zenon
    <3>4. CallCopies(k, y, y)
      BY <3>1, Zenon DEF CallCopies, Behind
    <3>5. QED
      BY <3>1, <3>3, <3>4, Zenon
  <2>4. QED
    BY <2>1, <2>2, <2>3, Zenon DEF LineageInv
<1>4. QED
  BY <1>1, <1>2, <1>3, Zenon

(* A single process keeps all copies of a request in line.                 *)
LEMMA StepKeepsLineage ==
    ASSUME StepFacts, SingleProcess, TypeInv, TypeInv', OrphanInv, LifeInv, LineageInv, [Next]_vars
    PROVE  LineageInv'
<1>1. ASSUME NEW w \in Workers, WorkerStep(w)
      PROVE  LineageInv'
  <2>1. UNCHANGED crCache /\ wk[w].pc # "idle" /\ wk[w].req \in CRs /\ Writes(w)
    BY <1>1, Zenon DEF StepFacts, CallFacts
  <2>2. wk'[w].pc # "idle" => wk'[w].req = wk[w].req
    BY <1>1, Zenon DEF StepFacts, CallFacts, Proceeds
  <2>3. \A c \in CRs : c # wk[w].req => crs'[c] = crs[c]
    BY <2>1, Zenon DEF Writes
  <2>4. \A v \in Workers : v = w
    BY Zenon DEF SingleProcess
  <2>5. ASSUME NEW c \in CRs
        PROVE  StoredCopy(crs'[c]) /\ CachedCopy(crCache[w][c], crs'[c])
    <3>1. CASE c = wk[w].req
      BY <1>1, <3>1, CallStores, Zenon
    <3>2. CASE c # wk[w].req
      BY <2>3, <3>2, Zenon DEF LineageInv
    <3>3. QED
      BY <3>1, <3>2, Zenon
  <2>6. wk'[w].pc # "idle" => CallCopies(wk'[w], crCache[w][wk'[w].req], crs'[wk'[w].req])
    BY <1>1, <2>2, CallKeepsCopies, Zenon
  <2>7. QED
    BY <2>1, <2>4, <2>5, <2>6, Zenon DEF LineageInv
<1>2. CASE UNCHANGED vars
  BY <1>2, Zenon DEF vars, LineageInv
<1>3. QED
  BY <1>1, <1>2, OthersKeepLineage, Zenon DEF Next

-----------------------------------------------------------------------------
(* A skipped sync has nothing to do *)

(* Only the operator changes secrets and IAM users, and no two requests    *)
(* name the same secret.                                                   *)
Undisturbed ==
    /\ Disturbances \cap {"iamEdits", "secretEdits", "namespaceDeletes"} = {}
    /\ \A c, d \in CRs : c # d => TargetsOf[c] \cap TargetsOf[d] = {}

(* The admin secret is not one that a sync takes for success without doing *)
(* its work: its annotation is one the operator knows, and it has the keys *)
(* it is to pass through.                                                  *)
ProperAdmin == RootMode # "other" /\ (RootMode = "passthrough" => RootClient)

(* Every copy of a request names a secret that is the request's to name.   *)
Targets(c, x) == x # None => x.ref \in TargetsOf[c]

TargetInv ==
    /\ \A c \in CRs : Targets(c, crs[c])
    /\ \A w \in Workers : /\ \A c \in CRs : Targets(c, crCache[w][c])
                          /\ wk[w].pc # "idle" => Targets(wk[w].req, wk[w].base)

(* Specs come from the users of the cluster alone.                         *)
LEMMA StepKeepsTargets ==
    ASSUME StepFacts, TypeInv, TargetInv, [Next]_vars
    PROVE  TargetInv'
<1>1. ASSUME NEW w \in Workers, WorkerStep(w)
      PROVE  TargetInv'
  <2>1. Proceeds(w) /\ Writes(w) /\ UNCHANGED crCache /\ wk[w].pc # "idle" /\ wk[w].req \in CRs
    BY <1>1, Zenon DEF StepFacts, CallFacts
  <2>2. Targets(wk[w].req, wk[w].base) /\ wk[w].base # None
    BY <2>1, DistinctAssumption, Zenon DEF StepFacts, RunningFacts, TargetInv, At
  <2>3. Targets(wk[w].req, crs[wk[w].req])
    BY <2>1, Zenon DEF TargetInv
  <2>4. ASSUME NEW x, \/ Protected(x, wk[w].base) \/ SameButStatus(x, wk[w].base)
        PROVE  Targets(wk[w].req, x)
    BY <2>2, <2>4, Zenon DEF Targets, SameButStatus, Protected
  <2>5. Targets(wk[w].req, crs'[wk[w].req])
    <3>1. \/ crs'[wk[w].req] \in {crs[wk[w].req], None}
          \/ Protected(crs'[wk[w].req], wk[w].base)
          \/ SameButStatus(crs'[wk[w].req], wk[w].base)
      BY <2>1, Zenon DEF Writes, Updated
    <3>2. QED
      BY <2>3, <2>4, <3>1, Zenon DEF Targets
  <2>6. \A c \in CRs : Targets(c, crs'[c])
    BY <2>1, <2>5, Zenon DEF Writes, TargetInv
  <2>7. wk'[w].pc # "idle" => Targets(wk'[w].req, wk'[w].base)
    BY <2>1, <2>4, Zenon DEF Proceeds
  <2>8. \A v \in Workers \ {w} : wk'[v] = wk[v]
    BY <2>1, Zenon DEF Proceeds
  <2>9. QED
    BY <2>1, <2>6, <2>7, <2>8, Zenon DEF TargetInv
<1>2. CASE Environment
  <2>1. UNCHANGED <<wk, crCache>>
    BY <1>2, Zenon DEF StepFacts, EnvironmentFacts
  <2>2. UNCHANGED crs \/ \E c \in CRs : UserWrites(c)
    BY <1>2, Zenon DEF StepFacts, EnvironmentFacts
  <2>3. ASSUME NEW c \in CRs, UserWrites(c)
        PROVE  \A d \in CRs : Targets(d, crs'[d])
    <3>1. Targets(c, crs[c])
      BY Zenon DEF TargetInv
    <3>2. Targets(c, crs'[c])
      <4>1. CASE crs'[c] = [crs[c] EXCEPT !.deleting = TRUE] /\ crs[c] \in CredentialsRequest
        BY <3>1, <4>1, DistinctAssumption, Zenon DEF Targets, CredentialsRequest
      <4>2. CASE crs'[c] = None \/ crs'[c].ref \in TargetsOf[c]
        BY <4>2, Zenon DEF Targets
      <4>3. QED
        BY <2>3, <4>1, <4>2, Zenon DEF UserWrites
    <3>3. QED
      BY <2>3, <3>2, Zenon DEF UserWrites, TargetInv
  <2>4. QED
    BY <2>1, <2>2, <2>3, Zenon DEF TargetInv
<1>3. ASSUME NEW w \in Workers, NEW c \in CRs, Reconcile(w, c)
      PROVE  TargetInv'
  <2>1. /\ UNCHANGED <<crs, crCache>> /\ \A v \in Workers \ {w} : wk'[v] = wk[v]
        /\ wk'[w].req = c /\ wk'[w].base = crCache[w][c]
    BY <1>3, Zenon DEF StepFacts, StartFacts, Starts
  <2>2. QED
    BY <2>1, Zenon DEF TargetInv
<1>4. ASSUME NEW w \in Workers,
             \/ Restart(w)
             \/ \E c \in CRs : SyncCRCache(w, c)
             \/ \E r \in Refs : SyncSecretCache(w, r)
      PROVE  TargetInv'
  <2>1. /\ UNCHANGED crs
        /\ \A v \in Workers : /\ wk'[v].pc = "idle" \/ wk'[v] = wk[v]
                              /\ \A c \in CRs : crCache'[v][c] \in {crCache[v][c], crs[c]}
    BY <1>4, Zenon DEF StepFacts, CacheFacts, Catches
  <2>2. \A v \in Workers, c \in CRs : Targets(c, crCache'[v][c])
    BY <2>1, Zenon DEF TargetInv
  <2>3. QED
    BY <2>1, <2>2, Zenon DEF TargetInv
<1>5. CASE UNCHANGED vars
  BY <1>5, Zenon DEF vars, TargetInv
<1>6. QED
  BY <1>1, <1>2, <1>3, <1>4, <1>5, Zenon DEF Next

(* A call leaves the secrets and the users of other requests alone.        *)
LEMMA OthersUntouched ==
    ASSUME StepFacts, Undisturbed, TypeInv, LifeInv, LineageInv, TargetInv, NEW w \in Workers, WorkerStep(w),
           NEW c \in CRs, c # wk[w].req, crs[c] # None
    PROVE  /\ secrets'[crs[c].ref] = secrets[crs[c].ref]
           /\ crs[c].status.user # None => iam'[crs[c].status.user] = iam[crs[c].status.user]
<1>1. wk[w].pc # "idle" /\ wk[w].req \in CRs
  BY Zenon DEF StepFacts, CallFacts
<1>2. /\ wk[w].base # None /\ wk[w].cr.ref = wk[w].base.ref
      /\ wk[w].cr.ref \in TargetsOf[wk[w].req] /\ crs[c].ref \in TargetsOf[c]
  BY <1>1, DistinctAssumption, Zenon
     DEF StepFacts, RunningFacts, At, LineageInv, CallCopies, SameButStatus, TargetInv, Targets
<1>3. wk[w].cr.ref # crs[c].ref /\ crs[c].ref \in Refs
  BY <1>1, <1>2, SetsAssumption, Zenon DEF Undisturbed
<1>4. secrets'[crs[c].ref] = secrets[crs[c].ref]
  BY <1>3, Zenon DEF StepFacts, SecretFacts, WritesSecret, TypeInv, TypeOK
<1>5. ASSUME NEW u \in Users, u = crs[c].status.user
      PROVE  iam'[u] = iam[u]
  <2>1. Mentions(c, u)
    BY <1>5, Zenon DEF Mentions, Names
  <2>2. UserName(w) # u
    <3> SUFFICES ASSUME UserName(w) = u PROVE FALSE
      BY Zenon
    <3>1. wk[w].cr # None
      BY <1>1, DistinctAssumption, Zenon DEF StepFacts, RunningFacts, At
    <3>2. Mentions(wk[w].req, u)
      BY <1>1, <3>1, Zenon DEF Mentions, Names, UserName
    <3>3. QED
      BY <1>1, <2>1, <3>2, Zenon DEF LifeInv, NamesUnique
  <2>3. QED
    BY <2>2, Zenon DEF StepFacts, IAMFacts, UsesIAM
<1>6. crs[c].status.user \in Users \cup {None}
  BY Zenon DEF TypeInv, TypeOK, CredentialsRequest, Status
<1>7. QED
  BY <1>4, <1>5, <1>6, Zenon

(* What a running sync has established, given the secret s and the user x  *)
(* it works on.                                                            *)
Progress(k, s, x) ==
    LET tagged == x # None /\ x.tagged
    IN  /\ k.pc \in SyncPCs \ {"syncAccessKeySecret"} => k.newKey = None
        /\ k.pc \in {"needsUpdateUser", "needsUpdateKeys", "needsUpdatePolicy",
                     "rotateAccessKeys", "CreateAccessKey", "syncAccessKeySecret"}
             => k.existing = s
        /\ k.pc \in {"needsUpdateUser", "needsUpdateKeys", "needsUpdatePolicy"} => s # None
        /\ k.pc \in {"needsUpdateKeys", "needsUpdatePolicy", "PutUserPolicy", "ListAccessKeys",
                     "rotateAccessKeys", "CreateAccessKey"}
             => tagged
        /\ k.pc \in {"ListAccessKeys", "rotateAccessKeys", "CreateAccessKey"}
             => x.policy = k.cr.policy
        /\ k.pc = "needsUpdatePolicy" => s.key \in x.keys
        /\ k.pc \in {"rotateAccessKeys", "CreateAccessKey"} => s = None \/ s.key \notin x.keys
        /\ k.pc = "syncAccessKeySecret" =>
             \/ k.newKey = RootKey
             \/ /\ k.cr.status.user # None /\ tagged /\ x.policy = k.cr.policy
                /\ \/ k.newKey \in x.keys
                   \/ k.newKey = None /\ s # None /\ s.key \in x.keys

CallProgress(k) == Progress(k, secrets[k.cr.ref], iam[k.cr.status.user])

(* A step of sync goes on from what it has established.                    *)
LEMMA SyncProgresses ==
    ASSUME StepFacts, FreshReads, ProperAdmin, TypeInv, NEW w \in Workers, WorkerStep(w),
           CallProgress(wk[w]), wk'[w].pc \in SyncPCs
    PROVE  CallProgress(wk[w])'
<1> DEFINE k == wk[w]
           n == wk'[w]
           s == secrets[k.cr.ref]
           x == iam[UserName(w)]
           y == iam'[UserName(w)]
<1>1. Proceeds(w) /\ UsesIAM(w) /\ Advances(w) /\ UNCHANGED secrets
  BY Zenon DEF StepFacts, CallFacts, IAMFacts, SecretFacts, WritesSecret
<1>2. /\ k.pc \in {"sync", "cloudCreds", "ListAccessKeys"} => TargetSecret(w) = s
      /\ TheUser(w) = x
  BY Zenon DEF FreshReads, TheUser
<1>3. /\ n.cr.ref = k.cr.ref /\ n.cr.policy = k.cr.policy
      /\ n.cr.status.user = UserName(w) \/ k.pc = "userName"
      /\ k.pc \in SyncPCs
  BY <1>1, Zenon DEF Proceeds, SameButStatus, UserName, DrawsName, SyncPCs
<1>4. Progress(k, s, x)
  BY Zenon DEF CallProgress, UserName
<1>5. k.pc \in NamedPCs => UserName(w) # None
  BY DistinctAssumption, Zenon DEF StepFacts, NamedFacts
<1> HIDE DEF k, n, s, x, y
<1>6. ASSUME n.pc \in {"sync", "cloudCreds", "userName", "GetUser", "CreateUser", "TagUser"},
             n.newKey = k.newKey, k.pc # "syncAccessKeySecret"
      PROVE  \A a, b : Progress(n, a, b)
  BY <1>3, <1>4, <1>6, Zenon DEF Progress, SyncPCs
<1>7. ASSUME n.cr.status.user = UserName(w), Progress(n, s, y)
      PROVE  CallProgress(wk[w])'
  BY <1>1, <1>3, <1>7, Zenon DEF CallProgress, n, s, y
<1>8. ASSUME \A a, b : Progress(n, a, b)
      PROVE  CallProgress(wk[w])'
  BY <1>8, Zenon DEF CallProgress, n
<1>9. /\ k.pc \notin {"CreateUser", "DeleteUser", "TagUser", "PutUserPolicy", "rotateAccessKeys",
                      "CreateAccessKey"} => y = x
      /\ k.pc \in {"PutUserPolicy", "rotateAccessKeys", "CreateAccessKey"} /\ y # x =>
           x # None /\ y # None /\ y.tagged = x.tagged
      /\ k.pc \in {"rotateAccessKeys", "CreateAccessKey"} /\ y # x => y.policy = x.policy
      /\ k.pc = "rotateAccessKeys" /\ y # x => y.keys \subseteq x.keys
  <2>1. k.pc \notin DeletePCs
    BY <1>3, Zenon DEF SyncPCs, DeletePCs
  <2>2. QED
    BY <1>1, <2>1, Zenon DEF UsesIAM, k, x, y
<1>10. CASE n.pc \in {"sync", "cloudCreds", "userName", "GetUser", "CreateUser", "TagUser"}
  <2>1. n.newKey = k.newKey /\ k.pc # "syncAccessKeySecret"
    BY <1>1, <1>10, Zenon DEF Advances, k, n
  <2>2. QED
    BY <1>6, <1>8, <1>10, <2>1, Zenon
<1>11. CASE n.pc \in {"needsUpdateUser", "needsUpdateKeys", "needsUpdatePolicy"}
  <2>1. /\ k.pc \in {"sync", "needsUpdateUser", "needsUpdateKeys"} /\ n.newKey = k.newKey
        /\ \/ n.pc = "needsUpdateUser" /\ n.existing = s /\ s # None
           \/ /\ k.pc = "needsUpdateUser" /\ n.pc = "needsUpdateKeys"
              /\ n.existing = k.existing /\ x # None /\ x.tagged
           \/ /\ k.pc = "needsUpdateKeys" /\ n.pc = "needsUpdatePolicy"
              /\ n.existing = k.existing /\ k.existing.key \in x.keys
    BY <1>1, <1>2, <1>11, Zenon DEF Advances, Keeps, k, n
  <2>2. Progress(n, s, y)
    BY <1>4, <1>9, <2>1, Zenon DEF Progress, SyncPCs
  <2>3. QED
    BY <1>3, <1>7, <2>1, <2>2, Zenon
<1>12. CASE n.pc \in {"PutUserPolicy", "ListAccessKeys"}
  <2>1. /\ k.pc \in {"GetUser", "TagUser", "PutUserPolicy"} /\ n.newKey = k.newKey
        /\ \/ n.pc = "PutUserPolicy" /\ y # None /\ y.tagged
           \/ /\ k.pc = "PutUserPolicy" /\ n.pc = "ListAccessKeys"
              /\ y # None /\ y.policy = k.cr.policy
    BY <1>1, <1>12, Zenon DEF Advances, k, n, y
  <2>2. Progress(n, s, y)
    BY <1>3, <1>4, <1>9, <2>1, Zenon DEF Progress, SyncPCs
  <2>3. QED
    BY <1>3, <1>7, <2>1, <2>2, Zenon
<1>13. CASE n.pc \in {"rotateAccessKeys", "CreateAccessKey"}
  <2>1. \/ /\ k.pc = "ListAccessKeys" /\ n.pc = "rotateAccessKeys" /\ n.newKey = k.newKey
           /\ n.existing = s /\ (s = None \/ s.key \notin x.keys)
        \/ k.pc = "rotateAccessKeys" /\ n.existing = k.existing /\ n.newKey = k.newKey
    BY <1>1, <1>2, <1>13, Zenon DEF Advances, Keeps, k, n
  <2>2. Progress(n, s, y)
    BY <1>3, <1>4, <1>9, <1>13, <2>1, Zenon DEF Progress, SyncPCs
  <2>3. QED
    BY <1>3, <1>7, <2>1, <2>2, Zenon
<1>14. CASE n.pc = "syncAccessKeySecret"
  <2>1. \/ k.pc = "cloudCreds" /\ n.existing = s /\ n.newKey = RootKey
        \/ /\ k.pc = "ListAccessKeys" /\ n.newKey = k.newKey /\ n.existing = s
           /\ s # None /\ s.key \in x.keys
        \/ /\ k.pc = "CreateAccessKey" /\ n.existing = k.existing
           /\ n.newKey \in y.keys
    <3>1. RootMode = "passthrough" => root.keys
      BY Zenon DEF ProperAdmin, RootClient
    <3>2. QED
      BY <1>1, <1>2, <1>14, <3>1, Zenon DEF Advances, k, n, y
  <2>2. k.pc \in {"ListAccessKeys", "CreateAccessKey"} => n.cr.status.user # None
    BY <1>3, <1>5, Zenon DEF NamedPCs
  <2>3. Progress(n, s, y)
    BY <1>3, <1>4, <1>9, <1>14, <2>1, <2>2, Zenon DEF Progress, SyncPCs
  <2>4. QED
    BY <1>3, <1>7, <2>1, <2>3, Zenon
<1>15. n.pc # "namespace"
  BY <1>1, Zenon DEF Advances, n
<1>16. n.pc \in SyncPCs
  BY Zenon DEF n
<1>17. QED
  BY <1>10, <1>11, <1>12, <1>13, <1>14, <1>15, <1>16, Zenon DEF SyncPCs

(* The secret s holds the admin key, or a key of the user x named u, who   *)
(* is tagged and has the policy p.                                         *)
Serves(s, u, x, p) ==
    /\ s # None
    /\ \/ s.key = RootKey
       \/ /\ u # None /\ x # None /\ x.tagged
          /\ s.key \in x.keys /\ x.policy = p

(* The request z is served as the user u: Usable, for any copy of it.      *)
ServedAs(z, u) == Serves(secrets[z.ref], u, iam[u], z.policy)

(* RecentlySynced for the request z with the status s.                     *)
RecentAs(z, s) == z.gen = s.syncGen /\ s.syncTime # 0 /\ s.syncTime + 1 > now

(* A running call syncs only a request that was due, and saves a recent    *)
(* sync only of a request that is served, or not stored as it was read.    *)
DueCall(k, stored) ==
    /\ k.pc \in SyncPCs \ {"namespace"} => ~RecentAs(k.base, k.base.status)
    /\ k.pc = "updateStatus" /\ ~k.base.deleting /\ stored = k.base
         /\ RecentAs(k.base, k.cr.status)
         => ServedAs(k.base, k.cr.status.user)

SyncInv ==
    /\ \A c \in CRs :
         crs[c] # None /\ ~crs[c].deleting /\ RecentAs(crs[c], crs[c].status)
         => ServedAs(crs[c], crs[c].status.user)
    /\ \A w \in Workers :
         wk[w].pc # "idle" => CallProgress(wk[w]) /\ DueCall(wk[w], crs[wk[w].req])

(* The secret that syncAccessKeySecret wants serves its user.              *)
LEMMA WantedServes ==
    ASSUME StepFacts, TypeInv, NEW w \in Workers, wk[w].pc = "syncAccessKeySecret", CallProgress(wk[w])
    PROVE  Serves(Wanted(w), UserName(w), iam[UserName(w)], wk[w].cr.policy)
<1> DEFINE k == wk[w]
           s == secrets[k.cr.ref]
           x == iam[UserName(w)]
<1>1. /\ k.existing = s
      /\ \/ k.newKey = RootKey
         \/ /\ UserName(w) # None /\ x # None /\ x.tagged /\ x.policy = k.cr.policy
            /\ \/ k.newKey \in x.keys
               \/ k.newKey = None /\ s # None /\ s.key \in x.keys
  BY Zenon DEF CallProgress, Progress, UserName
<1>2. x # None /\ UserName(w) # None => x.keys \subseteq Keys
  <2>1. UserName(w) \in Users \cup {None}
    BY Zenon DEF StepFacts, RunningFacts, At, UserName, Status
  <2>2. QED
    BY <2>1, Zenon DEF TypeInv, TypeOK, User
<1>3. Wanted(w).key = IF k.newKey \in {None, EmptyKey} /\ k.existing # None
                      THEN k.existing.key ELSE k.newKey
  BY Zenon DEF Wanted, SecretWith, KeyGiven
<1>4. Wanted(w) # None
  <2>1. Wanted(w) \in Secret
    <3>1. /\ k.req \in CRs /\ k.cr.policy \in Policies /\ k.existing \in Secret \cup {None}
      BY Zenon DEF StepFacts, RunningFacts, At, CredentialsRequest, Worker
    <3>2. Wanted(w).key \in Keys \cup {None, RootKey, NilData}
      <4>1. k.existing # None => k.existing.key \in Keys \cup {None, RootKey, NilData}
        BY <3>1, Zenon DEF Secret
      <4>2. k.newKey \in Keys \cup {None, RootKey}
        BY <1>1, <1>2, Zenon
      <4>3. QED
        BY <1>3, <4>1, <4>2, Zenon
    <3>3. \A j \in Keys \cup {None, RootKey, NilData} : SecretWith(w, j) \in Secret
      BY <3>1, Zenon DEF SecretWith, Secret
    <3>4. Wanted(w) = SecretWith(w, Wanted(w).key)
      BY Zenon DEF Wanted, SecretWith
    <3>5. QED
      BY <3>2, <3>3, <3>4, Zenon
  <2>2. QED
    BY <2>1, DistinctAssumption, Zenon
<1> HIDE DEF k, s, x
<1>5. RootKey # None /\ None \notin Keys /\ RootKey # EmptyKey /\ EmptyKey \notin Keys
  BY DistinctAssumption, Zenon DEF RootKey, EmptyKey
<1>6. QED
  BY <1>1, <1>2, <1>3, <1>4, <1>5, Zenon DEF Serves, k, x

(* A call never breaks what serves its request while the stored request is *)
(* recently synced: it has the same spec then, and it takes away a key     *)
(* only when the secret does not hold it.                                  *)
LEMMA CallKeepsServed ==
    ASSUME StepFacts, TypeInv, OrphanInv, LineageInv, SyncInv, NEW w \in Workers, WorkerStep(w),
           crs[wk[w].req] # None, ~crs[wk[w].req].deleting,
           RecentAs(crs[wk[w].req], crs[wk[w].req].status)
    PROVE  LET z == crs[wk[w].req]
           IN  Serves(secrets'[z.ref], z.status.user, iam'[z.status.user], z.policy)
<1> DEFINE k == wk[w]
           z == crs[k.req]
           v == z.status.user
           x == iam[UserName(w)]
           y == iam'[UserName(w)]
<1>1. /\ WritesSecret(w) /\ UsesIAM(w) /\ k.pc # "idle" /\ k.req \in CRs
      /\ k.pc \in SyncPCs => CallCopies(k, crCache[w][k.req], z)
      /\ k.pc \in DeletePCs => CallCopies(k, crCache[w][k.req], z)
      /\ CallProgress(k) /\ StoredCopy(z) /\ ServedAs(z, v)
  BY Zenon DEF StepFacts, CallFacts, SecretFacts, IAMFacts, LineageInv, SyncInv
<1>2. /\ z \in CredentialsRequest /\ z.gen \in Nat /\ z.ref \in Refs
      /\ v \in Users \cup {None}
  BY <1>1, Zenon DEF TypeInv, TypeOK, CredentialsRequest, Status
<1>3. k.pc \notin DeletePCs
  <2>1. z.finalizer
    BY <1>1, NewIsUnsynced, Zenon DEF StoredCopy, RecentAs
  <2>2. QED
    BY <1>1, <2>1, Zenon DEF CallCopies, Released
<1>4. ASSUME k.pc \in SyncPCs
      PROVE  k.cr.ref = z.ref /\ k.cr.policy = z.policy
  <2>1. k.base.gen \in Nat
    BY <1>1, Zenon DEF StepFacts, RunningFacts, At, CredentialsRequest
  <2>2. Behind(k.base, z) /\ k.cr.ref = k.base.ref /\ k.cr.policy = k.base.policy
    BY <1>1, <1>4, Zenon DEF CallCopies, SameButStatus
  <2>3. z.status.syncGen = z.gen
    BY Zenon DEF RecentAs
  <2>4. QED
    BY <1>2, <2>1, <2>2, <2>3, BehindSynced, Zenon
<1>5. v \in Users /\ v # UserName(w) => iam'[v] = iam[v]
  BY <1>1, Zenon DEF UsesIAM
<1>6. CASE k.pc = "syncAccessKeySecret" /\ ~UNCHANGED secrets
  <2>1. secrets'[z.ref] = Wanted(w)
    BY <1>1, <1>2, <1>4, <1>6, Zenon DEF WritesSecret, TypeInv, TypeOK, SyncPCs
  <2>2. Serves(Wanted(w), UserName(w), x, z.policy)
    BY <1>1, <1>4, <1>6, WantedServes, Zenon DEF SyncPCs
  <2>3. y = x
    BY <1>1, <1>3, <1>6, Zenon DEF UsesIAM
  <2>4. UserName(w) # None => v = UserName(w)
    BY <1>6, Zenon DEF OrphanInv, CallInv, Records, UserName, SyncPCs
  <2>5. QED
    BY <2>1, <2>2, <2>3, <2>4, Zenon DEF Serves
<1>7. CASE UNCHANGED secrets
  <2>1. secrets'[z.ref] = secrets[z.ref] /\ Serves(secrets[z.ref], v, iam[v], z.policy)
    BY <1>1, <1>7, Zenon DEF ServedAs
  <2>2. CASE v # UserName(w) \/ v = None \/ y = x \/ secrets[z.ref].key = RootKey
    BY <1>2, <1>5, <2>1, <2>2, Zenon DEF Serves
  <2>3. CASE v = UserName(w) /\ v # None /\ y # x /\ secrets[z.ref].key # RootKey
    <3> DEFINE s == secrets[z.ref]
    <3>1. s # None /\ x # None /\ x.tagged /\ s.key \in x.keys /\ x.policy = z.policy
      BY <2>1, <2>3, Zenon DEF Serves
    <3>2. k.pc \in {"TagUser", "PutUserPolicy", "rotateAccessKeys", "CreateAccessKey"}
      BY <1>1, <1>3, <2>3, <3>1, Zenon DEF UsesIAM, DeletePCs
    <3>3. k.cr.ref = z.ref /\ k.cr.policy = z.policy
      BY <1>4, <3>2, Zenon DEF SyncPCs
    <3>4. k.pc # "rotateAccessKeys"
      BY <1>1, <3>1, <3>3, Zenon DEF CallProgress, Progress, UserName
    <3>5. y # None /\ y.tagged /\ y.policy = z.policy /\ x.keys \subseteq y.keys
      <4>1. y # None
        BY <1>1, <1>3, <2>3, <3>1, <3>2, Zenon DEF UsesIAM
      <4>2. QED
        BY <1>1, <1>3, <2>3, <3>1, <3>2, <3>3, <3>4, <4>1, Zenon DEF UsesIAM, AddsKeys
    <3>6. QED
      BY <2>1, <2>3, <3>1, <3>5, Zenon DEF Serves
  <2>4. QED
    BY <2>2, <2>3, Zenon
<1>8. UNCHANGED secrets \/ k.pc = "syncAccessKeySecret"
  BY <1>1, <1>3, Zenon DEF WritesSecret, DeletePCs
<1>9. QED
  BY <1>6, <1>7, <1>8, Zenon

(* A sync that succeeds leaves the secret of its request served.           *)
LEMMA SettledServes ==
    ASSUME StepFacts, ProperAdmin, TypeInv, NEW w \in Workers, WorkerStep(w), CallProgress(wk[w]),
           SyncDone(w)
    PROVE  Serves(secrets'[wk[w].cr.ref], UserName(w), iam[UserName(w)], wk[w].cr.policy)
<1> DEFINE k == wk[w]
<1>1. k.pc \in {"needsUpdatePolicy", "syncAccessKeySecret"}
  BY Zenon DEF SyncDone, ProperAdmin
<1>2. CASE k.pc = "needsUpdatePolicy"
  <2>1. /\ UNCHANGED secrets /\ TheUser(w) # None /\ TheUser(w).tagged
        /\ secrets[k.cr.ref] # None /\ secrets[k.cr.ref].key \in TheUser(w).keys
    BY <1>2, Zenon DEF SyncDone, CallProgress, Progress, TheUser, UserName
  <2>2. TheUser(w).policy = k.cr.policy
    BY <1>2, <2>1, Zenon DEF SyncDone, awsPolicyEqualsDesiredPolicy, getCurrentUserPolicy,
       getDesiredUserPolicy, UserExists
  <2>3. UserName(w) # None
    BY <1>2, DistinctAssumption, Zenon DEF StepFacts, NamedFacts, NamedPCs
  <2>4. QED
    BY <2>1, <2>2, <2>3, Zenon DEF Serves, TheUser
<1>3. CASE k.pc = "syncAccessKeySecret"
  <2>1. Serves(Wanted(w), UserName(w), iam[UserName(w)], k.cr.policy)
    BY <1>3, WantedServes, Zenon
  <2>2. k.cr.ref \in Refs /\ k.existing = secrets[k.cr.ref]
    BY <1>3, Zenon DEF StepFacts, RunningFacts, At, CredentialsRequest, CallProgress, Progress
  <2>3. secrets'[k.cr.ref] = Wanted(w)
    BY <1>3, <2>2, Zenon DEF SyncDone, TypeInv, TypeOK
  <2>4. QED
    BY <2>1, <2>3, Zenon
<1>4. QED
  BY <1>1, <1>2, <1>3, Zenon

(* A call that ends goes on to save a recent sync only when its request is *)
(* served.                                                                 *)
LEMMA CallIsDue ==
    ASSUME StepFacts, Undisturbed, ProperAdmin, TypeInv, TypeInv', OrphanInv, LifeInv,
           LineageInv, SyncInv, NEW w \in Workers, WorkerStep(w), wk'[w].pc # "idle"
    PROVE  DueCall(wk[w], crs[wk[w].req])'
<1> DEFINE k == wk[w]
           n == wk'[w]
           old == crs[k.req]
           new == crs'[k.req]
<1>1. /\ Proceeds(w) /\ Writes(w) /\ WritesSecret(w) /\ UsesIAM(w)
      /\ k.pc # "idle" /\ k.req \in CRs /\ UNCHANGED now
      /\ n.pc \in SyncPCs => Advances(w)
  BY Zenon DEF StepFacts, CallFacts, SecretFacts, IAMFacts, OwnFacts, Catches
<1>2. /\ CallCopies(k, crCache[w][k.req], old) /\ CallProgress(k) /\ DueCall(k, old)
      /\ CallCopies(n, crCache[w][k.req], new)
  BY <1>1, CallKeepsCopies, Zenon DEF LineageInv, SyncInv
<1>3. /\ n.req = k.req /\ n.base.gen = k.base.gen /\ n.base.deleting = k.base.deleting
      /\ n.base.ref = k.base.ref /\ n.base.policy = k.base.policy
      /\ n.cr.gen = n.base.gen /\ k.cr.ref = k.base.ref /\ k.cr.policy = k.base.policy
      /\ n.base = k.base \/ SameSync(n.base.status, k.cr.status)
      /\ n.pc = "updateStatus" => k.pc \in SyncPCs \cup DeletePCs /\ n.base = k.base
      /\ n.pc \in SyncPCs => k.pc \in SyncPCs
      /\ k.pc # "userName" => n.cr.status.user = UserName(w)
  BY <1>1, <1>2, Zenon DEF Proceeds, SameButStatus, CallCopies, UserName, DrawsName
<1>4. k.pc \in SyncPCs \cup DeletePCs => SameSync(k.cr.status, k.base.status)
  BY <1>2, Zenon DEF CallCopies
<1>5. ASSUME n.pc \in SyncPCs \ {"namespace"}
      PROVE  ~RecentAs(n.base, n.base.status)
  <2>1. CASE k.pc = "namespace"
    <3>1. ~RecentlySynced(n.cr)
      BY <1>1, <1>5, <2>1, Zenon DEF Advances
    <3>2. SameSync(n.cr.status, n.base.status)
      BY <1>2, <1>5, Zenon DEF CallCopies
    <3>3. QED
      BY <1>3, <3>1, <3>2, Zenon DEF RecentlySynced, RecentAs, SameSync
  <2>2. CASE k.pc # "namespace"
    <3>1. ~RecentAs(k.base, k.base.status) /\ SameSync(k.cr.status, k.base.status)
      BY <1>2, <1>3, <1>4, <1>5, <2>2, Zenon DEF DueCall
    <3>2. QED
      BY <1>3, <3>1, Zenon DEF RecentAs, SameSync
  <2>3. QED
    BY <2>1, <2>2, Zenon
<1>6. ASSUME n.pc = "updateStatus", ~n.base.deleting, new = n.base,
             RecentAs(n.base, n.cr.status)
      PROVE  Serves(secrets'[n.base.ref], n.cr.status.user, iam'[n.cr.status.user], n.base.policy)
  <2>1. n.base = k.base /\ k.pc \in SyncPCs /\ k.pc \notin DeletePCs
    BY <1>2, <1>3, <1>6, Zenon DEF CallCopies
  <2>2. CASE SameSync(n.cr.status, k.cr.status)
    <3>1. RecentAs(k.base, k.base.status)
      BY <1>4, <1>6, <2>1, <2>2, Zenon DEF RecentAs, SameSync
    <3>2. k.pc = "namespace"
      BY <1>2, <2>1, <3>1, Zenon DEF DueCall
    <3>3. UNCHANGED secrets /\ iam'[UserName(w)] = iam[UserName(w)] /\ new = old
      BY <1>1, <2>1, <3>2, Zenon DEF WritesSecret, UsesIAM, Writes
    <3>4. ServedAs(old, old.status.user) /\ old = k.base
      BY <1>1, <1>6, <2>1, <3>1, <3>3, DistinctAssumption, Zenon
         DEF StepFacts, RunningFacts, SyncInv, At
    <3>5. UserName(w) = old.status.user
      <4>1. old.status.user \in {None, UserName(w)}
        BY <1>1, <3>4, Zenon DEF StepFacts, RunningFacts, At, UserName
      <4>2. UserName(w) # None => old.status.user = UserName(w)
        BY <2>1, Zenon DEF OrphanInv, CallInv, Records, UserName
      <4>3. QED
        BY <4>1, <4>2, Zenon
    <3>6. n.cr.status.user = UserName(w)
      BY <1>3, <3>2, Zenon
    <3>7. QED
      BY <2>1, <3>3, <3>4, <3>5, <3>6, Zenon DEF ServedAs
  <2>3. CASE SyncDone(w)
    <3>1. k.pc \in {"needsUpdatePolicy", "syncAccessKeySecret"}
      BY <2>3, Zenon DEF SyncDone, ProperAdmin
    <3>2. n.cr.status.user = UserName(w) /\ iam'[UserName(w)] = iam[UserName(w)]
      BY <1>1, <1>3, <2>1, <3>1, Zenon DEF UsesIAM
    <3>3. Serves(secrets'[k.cr.ref], UserName(w), iam[UserName(w)], k.cr.policy)
      BY <1>2, <2>3, SettledServes, Zenon
    <3>4. QED
      BY <1>3, <2>1, <3>2, <3>3, Zenon
  <2>4. QED
    BY <1>1, <1>6, <2>2, <2>3, Zenon DEF Proceeds
<1>7. QED
  <2>1. n.pc \in SyncPCs \ {"namespace"} => ~RecentAs(wk[w].base, wk[w].base.status)'
    BY <1>1, <1>5, Zenon DEF RecentAs
  <2>2. n.pc = "updateStatus" /\ ~n.base.deleting /\ new = n.base
          /\ RecentAs(wk[w].base, wk[w].cr.status)'
          => ServedAs(wk[w].base, wk[w].cr.status.user)'
    BY <1>1, <1>6, Zenon DEF RecentAs, ServedAs
  <2>3. QED
    BY <1>3, <2>1, <2>2, Zenon DEF DueCall

(* A step of a call keeps the requests that look synced served.            *)
LEMMA CallKeepsSynced ==
    ASSUME StepFacts, Undisturbed, TypeInv, TypeInv', OrphanInv, LifeInv, LineageInv, TargetInv, SyncInv,
           NEW w \in Workers, WorkerStep(w), NEW c \in CRs,
           crs'[c] # None, ~crs'[c].deleting, RecentAs(crs[c], crs[c].status)'
    PROVE  ServedAs(crs[c], crs[c].status.user)'
<1> DEFINE k == wk[w]
           old == crs[c]
           new == crs'[c]
<1>1. /\ Writes(w) /\ WritesSecret(w) /\ UsesIAM(w) /\ k.pc # "idle" /\ k.req \in CRs
      /\ UNCHANGED now
  BY Zenon DEF StepFacts, CallFacts, SecretFacts, IAMFacts, OwnFacts, Catches
<1>2. RecentAs(new, new.status)
  BY <1>1, Zenon DEF RecentAs
<1>3. CASE new = old
  <2>1. ServedAs(old, old.status.user)
    BY <1>2, <1>3, Zenon DEF SyncInv
  <2>2. CASE c = k.req
    <3>1. Serves(secrets'[old.ref], old.status.user, iam'[old.status.user], old.policy)
      BY <1>2, <1>3, <2>2, CallKeepsServed, Zenon
    <3>2. QED
      BY <1>3, <3>1, Zenon DEF ServedAs
  <2>3. CASE c # k.req
    <3>1. /\ secrets'[old.ref] = secrets[old.ref]
          /\ old.status.user # None => iam'[old.status.user] = iam[old.status.user]
      BY <1>3, <2>3, OthersUntouched, Zenon
    <3>2. QED
      BY <1>3, <2>1, <3>1, Zenon DEF ServedAs, Serves
  <2>4. QED
    BY <2>2, <2>3, Zenon
<1>4. CASE new # old
  <2>1. c = k.req
    BY <1>1, <1>4, Zenon DEF Writes
  <2>2. CallCopies(k, crCache[w][k.req], old) /\ StoredCopy(old) /\ DueCall(k, old)
    BY <1>1, <2>1, Zenon DEF LineageInv, SyncInv
  <2>3. k.base # None /\ new # None
    BY <1>1, DistinctAssumption, Zenon DEF StepFacts, RunningFacts, At
  <2>4. CASE old = k.base /\ k.pc = "addDeprovisionFinalizer" /\ Protected(new, k.base)
    <3>1. new.status = NewStatus
      BY <2>2, <2>3, <2>4, Zenon DEF CallCopies, StoredCopy, Protected
    <3>2. QED
      BY <1>2, <3>1, NewIsUnsynced, Zenon DEF RecentAs
  <2>5. CASE old = k.base /\ k.pc = "updateStatus" /\ Updated(new, k.base, k.cr.status)
    <3>1. /\ new.gen = k.base.gen /\ new.ref = k.base.ref /\ new.policy = k.base.policy
          /\ new.status = k.cr.status /\ ~k.base.deleting
      BY <2>5, Zenon DEF Updated, SameButStatus
    <3>2. ServedAs(k.base, k.cr.status.user)
      BY <1>2, <2>2, <2>5, <3>1, Zenon DEF DueCall, RecentAs
    <3>3. UNCHANGED secrets /\ iam'[k.cr.status.user] = iam[k.cr.status.user]
      BY <1>1, <2>5, Zenon DEF WritesSecret, UsesIAM, UserName, DeletePCs
    <3>4. QED
      BY <3>1, <3>2, <3>3, Zenon DEF ServedAs
  <2>6. CASE /\ old = k.base /\ k.pc = "clearDeprovisionFailure"
             /\ \E s : Updated(new, k.base, s)
    BY <2>2, <2>6, Zenon DEF CallCopies, DeletePCs, Updated, SameButStatus
  <2>7. CASE /\ old = k.base /\ k.pc = "userName"
             /\ \E s : SameSync(s, k.cr.status) /\ Updated(new, k.base, s)
    <3>1. /\ ~RecentAs(k.base, k.base.status) /\ SameSync(k.cr.status, k.base.status)
      BY <2>2, <2>7, Zenon DEF DueCall, CallCopies, SyncPCs
    <3>2. new.gen = k.base.gen /\ SameSync(new.status, k.cr.status)
      BY <2>7, Zenon DEF Updated, SameButStatus
    <3>3. QED
      BY <1>2, <3>1, <3>2, Zenon DEF RecentAs, SameSync
  <2>8. QED
    BY <1>1, <1>4, <2>1, <2>3, <2>4, <2>5, <2>6, <2>7, Zenon DEF Writes
<1>5. QED
  BY <1>3, <1>4, Zenon

(* What is recent was recent before, as time only passes.                  *)
LEMMA RecentBefore ==
    ASSUME TypeInv, now' \in Nat, now <= now', NEW z, NEW s \in Status,
           z.gen = s.syncGen /\ s.syncTime # 0 /\ s.syncTime + 1 > now'
    PROVE  RecentAs(z, s)
  BY DEF RecentAs, TypeInv, TypeOK, Status

(* What a step outside the calls does: it changes at most one request,     *)
(* touches no secret and no user, and a call goes on, ends or starts.      *)
LEMMA OutsideCalls ==
    ASSUME StepFacts, Undisturbed, TypeInv, TypeInv',
           \/ Environment
           \/ \E w \in Workers : \/ Restart(w)
                                 \/ \E c \in CRs : Reconcile(w, c) \/ SyncCRCache(w, c)
                                 \/ \E r \in Refs : SyncSecretCache(w, r)
    PROVE  /\ UNCHANGED <<iam, secrets>> /\ now <= now' /\ now' \in Nat
           /\ UNCHANGED crs \/ \E c \in CRs : UserWrites(c)
           /\ \A w \in Workers :
                \/ wk'[w] = wk[w] \/ wk'[w].pc = "idle"
                \/ /\ wk'[w].pc \in {"DeleteUserPolicy", "namespace", "addDeprovisionFinalizer"}
                   /\ wk'[w].newKey = None
<1>1. UNCHANGED <<iam, secrets>> /\ now <= now' /\ now' \in Nat
  <2>1. CASE Environment
    <3>1. Disturbances \cap {"secretEdits", "namespaceDeletes"} = {} /\ "iamEdits" \notin Disturbances
      BY Zenon DEF Undisturbed
    <3>2. QED
      BY <2>1, <3>1, Zenon DEF StepFacts, OutsideFacts, TypeInv, TypeOK
  <2>2. CASE ~Environment
    <3>1. UNCHANGED <<iam, secrets>>
      BY <2>2, Zenon DEF StepFacts, StartFacts, Starts, CacheFacts, Catches
    <3>2. UNCHANGED now
      BY <2>2, Zenon DEF StepFacts, OwnFacts, Catches
    <3>3. QED
      BY <3>1, <3>2 DEF TypeInv, TypeOK
  <2>3. QED
    BY <2>1, <2>2, Zenon
<1>2. UNCHANGED crs \/ \E c \in CRs : UserWrites(c)
  BY Zenon DEF StepFacts, EnvironmentFacts, StartFacts, Starts, CacheFacts, Catches
<1>3. ASSUME NEW w \in Workers
      PROVE  \/ wk'[w] = wk[w] \/ wk'[w].pc = "idle"
             \/ /\ wk'[w].pc \in {"DeleteUserPolicy", "namespace", "addDeprovisionFinalizer"}
                /\ wk'[w].newKey = None
  <2>1. CASE Environment
    BY <2>1, Zenon DEF StepFacts, EnvironmentFacts
  <2>2. ASSUME NEW v \in Workers, NEW c \in CRs, Reconcile(v, c)
        PROVE  \/ wk'[w] = wk[w]
               \/ /\ wk'[w].pc \in {"DeleteUserPolicy", "namespace", "addDeprovisionFinalizer"}
                  /\ wk'[w].newKey = None
    BY <2>2, Zenon DEF StepFacts, StartFacts, Starts
  <2>3. ASSUME NEW v \in Workers,
               \/ Restart(v)
               \/ \E c \in CRs : SyncCRCache(v, c)
               \/ \E r \in Refs : SyncSecretCache(v, r)
        PROVE  wk'[w] = wk[w] \/ wk'[w].pc = "idle"
    BY <2>3, Zenon DEF StepFacts, CacheFacts, Catches
  <2>4. QED
    BY <2>1, <2>2, <2>3, Zenon
<1>4. QED
  BY <1>1, <1>2, <1>3, Zenon

(* A call about to save its status finds the request as it read it only    *)
(* when nobody has changed it: no user restores an older spec, as every    *)
(* edit raises the generation.                                             *)
LEMMA StillStored ==
    ASSUME StepFacts, TypeInv, LineageInv, NEW w \in Workers, wk[w].pc = "updateStatus",
           ~wk[w].base.deleting, UNCHANGED crs \/ \E c \in CRs : UserWrites(c),
           crs'[wk[w].req] = wk[w].base
    PROVE  crs[wk[w].req] = wk[w].base
<1> DEFINE k == wk[w]
<1>1. k.req \in CRs /\ k.base \in CredentialsRequest /\ k.base # None /\ k.base.gen \in Nat
  BY DistinctAssumption, Zenon DEF StepFacts, RunningFacts, At, CredentialsRequest
<1>2. Behind(k.base, crs[k.req])
  BY Zenon DEF LineageInv, CallCopies
<1>3. ASSUME UserWrites(k.req)
      PROVE  FALSE
  <2>1. CASE crs[k.req] \in CredentialsRequest /\ crs'[k.req].gen = crs[k.req].gen + 1
    <3>1. crs[k.req].gen \in Nat
      BY <2>1, Zenon DEF CredentialsRequest
    <3>2. k.base.gen # crs[k.req].gen + 1
      BY <1>1, <1>2, <3>1, BehindEdited, Zenon
    <3>3. QED
      BY <2>1, <3>2, Zenon
  <2>2. CASE /\ crs[k.req] \in CredentialsRequest
             /\ crs'[k.req] = [crs[k.req] EXCEPT !.deleting = TRUE]
    BY <2>2, Zenon DEF CredentialsRequest
  <2>3. crs[k.req] # None
    BY <1>2, Zenon DEF Behind
  <2>4. QED
    BY <1>1, <1>3, <2>1, <2>2, <2>3, Zenon DEF UserWrites
<1>4. \A d \in CRs \ {k.req} : UserWrites(d) => crs'[k.req] = crs[k.req]
  BY <1>1, Zenon DEF UserWrites
<1>5. QED
  BY <1>1, <1>3, <1>4, Zenon

(* The steps outside the call: nobody else touches secrets and users.      *)
LEMMA OthersKeepSynced ==
    ASSUME StepFacts, Undisturbed, TypeInv, TypeInv', LineageInv, SyncInv,
           \/ Environment
           \/ \E w \in Workers : \/ Restart(w)
                                 \/ \E c \in CRs : Reconcile(w, c) \/ SyncCRCache(w, c)
                                 \/ \E r \in Refs : SyncSecretCache(w, r)
    PROVE  SyncInv'
<1>1. UNCHANGED <<iam, secrets>> /\ now <= now' /\ now' \in Nat
  BY OutsideCalls, Zenon
<1>3. UNCHANGED crs \/ \E c \in CRs : UserWrites(c)
  BY OutsideCalls, Zenon
<1>4. ASSUME NEW c \in CRs, crs'[c] # None, ~crs'[c].deleting, RecentAs(crs[c], crs[c].status)'
      PROVE  ServedAs(crs[c], crs[c].status.user)'
  <2>1. CASE crs'[c] = crs[c]
    <3>1. crs[c].status \in Status
      BY <1>4, <2>1, Zenon DEF TypeInv, TypeOK, CredentialsRequest
    <3>2. RecentAs(crs[c], crs[c].status)
      <4>1. /\ crs[c].gen = crs[c].status.syncGen /\ crs[c].status.syncTime # 0
            /\ crs[c].status.syncTime + 1 > now'
        BY <1>4, <2>1, Zenon DEF RecentAs
      <4>2. QED
        BY <1>1, <3>1, <4>1, RecentBefore, Zenon
    <3>3. ServedAs(crs[c], crs[c].status.user)
      BY <1>4, <2>1, <3>2, Zenon DEF SyncInv
    <3>4. QED
      BY <1>1, <2>1, <3>3, Zenon DEF ServedAs
  <2>2. CASE UserWrites(c)
    <3> DEFINE old == crs[c]
               new == crs'[c]
    <3>1. StoredCopy(old)
      BY Zenon DEF LineageInv
    <3>2. CASE new.status = NewStatus
      BY <1>4, <3>2, NewIsUnsynced, Zenon DEF RecentAs
    <3>3. CASE old \in CredentialsRequest /\ new.status = old.status /\ new.gen = old.gen + 1
      <4>1. old # None /\ old.gen \in Nat /\ old.status.syncGen \in Nat
        BY <3>3, DistinctAssumption, Zenon DEF CredentialsRequest, Status
      <4>2. old.status.syncGen <= old.gen
        BY <3>1, <4>1, Zenon DEF StoredCopy
      <4>3. new.gen # new.status.syncGen
        BY <3>3, <4>1, <4>2
      <4>4. QED
        BY <1>4, <4>3, Zenon DEF RecentAs
    <3>4. CASE old \in CredentialsRequest /\ new = [old EXCEPT !.deleting = TRUE]
      BY <1>4, <3>4, Zenon DEF CredentialsRequest
    <3>5. QED
      BY <1>4, <2>2, <3>2, <3>3, <3>4, Zenon DEF UserWrites
  <2>3. \A d \in CRs \ {c} : UserWrites(d) => crs'[c] = crs[c]
    BY Zenon DEF UserWrites
  <2>4. QED
    BY <1>3, <2>1, <2>2, <2>3, Zenon
<1>5. ASSUME NEW w \in Workers, wk'[w] = wk[w], wk[w].pc # "idle"
      PROVE  CallProgress(wk[w])' /\ DueCall(wk[w], crs[wk[w].req])'
  <2> DEFINE k == wk[w]
  <2>1. CallProgress(k) /\ DueCall(k, crs[k.req]) /\ k.req \in CRs
    BY <1>5, Zenon DEF StepFacts, RunningFacts, SyncInv, At
  <2>2. /\ k.base \in CredentialsRequest /\ k.base # None /\ k.base.gen \in Nat
        /\ k.base.status \in Status /\ k.cr.status \in Status
    BY <1>5, DistinctAssumption, Zenon DEF StepFacts, RunningFacts, At, CredentialsRequest
  <2>3. CallProgress(wk[w])'
    BY <1>1, <1>5, <2>1, Zenon DEF CallProgress
  <2>4. /\ RecentAs(k.base, k.base.status)' => RecentAs(k.base, k.base.status)
        /\ RecentAs(k.base, k.cr.status)' => RecentAs(k.base, k.cr.status)
    <3>1. \A s \in Status :
            k.base.gen = s.syncGen /\ s.syncTime # 0 /\ s.syncTime + 1 > now'
            => RecentAs(k.base, s)
      BY <1>1, RecentBefore, Zenon
    <3>2. QED
      BY <1>5, <2>2, <3>1, Zenon DEF RecentAs
  <2>5. ASSUME k.pc = "updateStatus", ~k.base.deleting, crs'[k.req] = k.base
        PROVE  crs[k.req] = k.base
    BY <1>3, <2>5, StillStored, Zenon
  <2>6. DueCall(wk[w], crs[wk[w].req])'
    <3>1. k.pc \in SyncPCs \ {"namespace"} => ~RecentAs(k.base, k.base.status)'
      BY <2>1, <2>2, <2>4, Zenon DEF DueCall
    <3>2. k.pc = "updateStatus" /\ ~k.base.deleting /\ crs'[k.req] = k.base
            /\ RecentAs(k.base, k.cr.status)'
            => ServedAs(k.base, k.cr.status.user)
      BY <2>1, <2>2, <2>4, <2>5, Zenon DEF DueCall
    <3>3. ServedAs(k.base, k.cr.status.user) => ServedAs(k.base, k.cr.status.user)'
      BY <1>1, <1>5, Zenon DEF ServedAs
    <3>4. QED
      BY <1>5, <3>1, <3>2, <3>3, Zenon DEF DueCall
  <2>7. QED
    BY <2>3, <2>6, Zenon
<1>6. ASSUME NEW w \in Workers, wk'[w].pc \in {"DeleteUserPolicy", "namespace", "addDeprovisionFinalizer"},
             wk'[w].newKey = None
      PROVE  CallProgress(wk[w])' /\ DueCall(wk[w], crs[wk[w].req])'
  BY <1>6, Zenon DEF CallProgress, Progress, DueCall, SyncPCs
<1>7. ASSUME NEW w \in Workers, wk'[w].pc # "idle"
      PROVE  CallProgress(wk[w])' /\ DueCall(wk[w], crs[wk[w].req])'
  <2>1. \/ wk'[w] = wk[w]
        \/ /\ wk'[w].pc \in {"DeleteUserPolicy", "namespace", "addDeprovisionFinalizer"}
           /\ wk'[w].newKey = None
    BY <1>7, OutsideCalls, Zenon
  <2>2. QED
    BY <1>5, <1>6, <1>7, <2>1, Zenon
<1>8. QED
  BY <1>4, <1>7, Zenon DEF SyncInv

(* Every step of a single process that sees the secrets as they are, and   *)
(* of its undisturbed environment.                                         *)
LEMMA StepKeepsSynced ==
    ASSUME StepFacts, SingleProcess, Undisturbed, FreshReads, ProperAdmin, TypeInv, TypeInv',
           OrphanInv, LifeInv, LineageInv, TargetInv, SyncInv, [Next]_vars
    PROVE  SyncInv'
<1>1. ASSUME NEW w \in Workers, WorkerStep(w)
      PROVE  SyncInv'
  <2>1. /\ wk[w].pc # "idle" /\ CallProgress(wk[w])
        /\ \A v \in Workers : v = w
    BY <1>1, Zenon DEF StepFacts, CallFacts, SyncInv, SingleProcess
  <2>2. ASSUME wk'[w].pc # "idle"
        PROVE  CallProgress(wk[w])'
    <3>1. CASE wk'[w].pc \in SyncPCs
      BY <1>1, <2>1, <3>1, SyncProgresses, Zenon
    <3>2. CASE wk'[w].pc \notin SyncPCs
      BY <3>2, Zenon DEF CallProgress, Progress, SyncPCs
    <3>3. QED
      BY <3>1, <3>2, Zenon
  <2>3. wk'[w].pc # "idle" => DueCall(wk[w], crs[wk[w].req])'
    BY <1>1, CallIsDue, Zenon
  <2>4. \A c \in CRs : crs'[c] # None /\ ~crs'[c].deleting /\ RecentAs(crs[c], crs[c].status)'
                       => ServedAs(crs[c], crs[c].status.user)'
    BY <1>1, CallKeepsSynced, Zenon
  <2>5. QED
    BY <2>1, <2>2, <2>3, <2>4, Zenon DEF SyncInv
<1>2. CASE UNCHANGED vars
  BY <1>2, Zenon DEF vars, SyncInv, CallProgress, DueCall, ServedAs, RecentAs
<1>3. QED
  BY <1>1, <1>2, OthersKeepSynced, Zenon DEF Next

(* Nothing is stored, cached or running at the start.                      *)
LEMMA InitSync == Init => LineageInv /\ TargetInv /\ SyncInv
<1> SUFFICES ASSUME Init PROVE LineageInv /\ TargetInv /\ SyncInv
  BY Zenon
<1>1. /\ \A c \in CRs : crs[c] = None /\ \A w \in Workers : crCache[w][c] = None
      /\ \A w \in Workers : wk[w].pc = "idle"
  BY Zenon DEF Init, IdleWorker, Locals
<1>2. LineageInv
  BY <1>1, Zenon DEF LineageInv, StoredCopy, CachedCopy, Released, Deleting
<1>3. TargetInv /\ SyncInv
  BY <1>1, Zenon DEF TargetInv, Targets, SyncInv
<1>4. QED
  BY <1>2, <1>3, Zenon

(* A request that was synced for its spec less than an hour ago is served. *)
LEMMA SyncedIsServed == SyncInv => SkippedSyncIsSound
  BY Zenon DEF SyncInv, SkippedSyncIsSound, RecentlySynced, RecentAs, ServedAs, Serves, Usable

=============================================================================
