----------------------------- MODULE Invariants -----------------------------
(***************************************************************************)
(* The invariants of a single operator process that more than one proof    *)
(* argues from.                                                            *)
(***************************************************************************)
EXTENDS Steps

(* One operator process: replicas is 1, and no rollout overlaps.           *)
SingleProcess == \E p : Workers = {p}

-----------------------------------------------------------------------------
(* No orphaned user *)

(* A copy of a request that names no user a sync could still create.       *)
Closed(x) == x = None \/ x.deleting \/ x.status.user = None

Deleting(x) == x # None /\ x.deleting

(* A request that will delete the user: Owns, as a property of the object. *)
Records(x, u) == x # None /\ x.finalizer /\ x.status.user = u

(* What ties the caches and the running call to the stored requests.       *)
CacheInv(w) ==
    \A c \in CRs :
        LET x == crCache[w][c]
        IN  /\ Deleting(x) => Closed(crs[c])
            /\ ~Closed(x) /\ x.finalizer => Records(crs[c], x.status.user)

CallInv(w) ==
    LET k == wk[w]
    IN  /\ k.pc # "idle" /\ ~k.base.deleting /\ Deleting(crCache[w][k.req])
             => Deleting(crs[k.req])
        /\ k.pc \in SyncPCs /\ k.cr.status.user # None => Records(crs[k.req], k.cr.status.user)
        /\ k.pc \in DeletePCs => Closed(crCache[w][k.req]) /\ Closed(crs[k.req])
        /\ k.pc \in DeletedPCs => k.cr.status.user = None \/ iam[k.cr.status.user] = None

OrphanInv == NoOrphanUser /\ \A w \in Workers : CacheInv(w) /\ CallInv(w)

-----------------------------------------------------------------------------
(* Every name belongs to one request *)

Names(x, u) == x # None /\ x.status.user = u

(* Somebody takes the user name for that of the request: the API server, a *)
(* cache, or a running call.                                               *)
Mentions(c, u) ==
    \/ Names(crs[c], u)
    \/ \E w \in Workers : \/ Names(crCache[w][c], u)
                          \/ wk[w].pc # "idle" /\ wk[w].req = c /\ Names(wk[w].cr, u)

(* No two requests share a user name, in any copy of them.                 *)
NamesUnique ==
    \A c, d \in CRs, u \in Users : Mentions(c, u) /\ Mentions(d, u) => c = d

(* A request without the finalizer has no user yet.                        *)
UnprotectedUnnamed ==
    \A c \in CRs : crs[c] # None /\ ~crs[c].finalizer => crs[c].status.user = None

(* The steps of Reconcile after the finalizer is found.                    *)
ProtectedPCs == SyncPCs \cup DeletePCs \cup {"updateStatus"}

(* A call past that point holds a request with the finalizer, and saves a  *)
(* new name in its last update only for a request that is not deleted.     *)
ProtectedCall(k) ==
    /\ k.pc \in ProtectedPCs => k.base.finalizer
    /\ k.pc = "updateStatus" /\ k.base.deleting => k.base.status.user = k.cr.status.user

LifeInv ==
    /\ NamesUnique
    /\ UnprotectedUnnamed
    /\ \A w \in Workers : ProtectedCall(wk[w])

-----------------------------------------------------------------------------
(* Keys are replaced whole *)

(* A call that replaces the keys has listed every key that is left, and    *)
(* creates new ones when none is left.                                     *)
KeyCall(k) ==
    LET u == k.cr.status.user
    IN  iam[u] # None => /\ k.pc = "rotateAccessKeys" => iam[u].keys \subseteq k.keyList
                         /\ k.pc = "CreateAccessKey" => iam[u].keys = {}

KeyInv == \A w \in Workers : KeyCall(wk[w])

-----------------------------------------------------------------------------
(* No lost wake-up *)

(* RecentlySynced at a given hour.                                         *)
RecentAt(x, hour) ==
    /\ x.gen = x.status.syncGen
    /\ x.status.syncTime # 0 /\ x.status.syncTime + 1 > hour

(* A sync that was recorded less than an hour ago for the current spec     *)
(* succeeded, and only a request with the finalizer outlives its deletion. *)
Honest(x, hour) ==
    x # None =>
      /\ x.status.syncGen <= x.gen
      /\ RecentAt(x, hour) => x.status.provisioned
      /\ x.deleting => x.finalizer

(* The copies of a running call; a sync that went beyond the namespace was *)
(* not skipped.                                                            *)
HonestCall(k, hour) ==
    k.pc # "idle" =>
      /\ Honest(k.base, hour) /\ Honest(k.cr, hour) /\ SameButStatus(k.cr, k.base)
      /\ k.pc \in ActuatorPCs => ~RecentAt(k.cr, hour)

HonestInv ==
    /\ \A c \in CRs : Honest(crs[c], now)
    /\ \A w \in Workers : /\ \A c \in CRs : Honest(crCache[w][c], now)
                          /\ HonestCall(wk[w], now)

(* A copy of a request that a Reconcile call has nothing to do for, unless *)
(* its namespace is one of the open ones: those that exist and whose       *)
(* creation the process has handled.                                       *)
Calm(x, open) ==
    /\ x.finalizer /\ ~x.deleting
    /\ \/ x.status.provisioned /\ x.status.syncGen = x.gen
       \/ Missing(x.status) /\ (x.status.provisioned \/ NamespaceOf[x.ref] \notin open)

(* The stored y has gone beyond the cached x and does not come back to it  *)
(* before the process has seen what is between them: the finalizer was     *)
(* added, or removed after the deletion, or the status was written.        *)
Past(x, y) ==
    \/ ~x.finalizer /\ y # None /\ y.finalizer
    \/ x.deleting /\ (y # None => ~y.finalizer)
    \/ /\ x.finalizer /\ ~x.deleting
       /\ y # None /\ y.finalizer /\ y.status # x.status

(* The cached x leaves nothing to do, or the watch will report a newer y.  *)
Quiet(x, y, open) == x = None \/ Calm(x, open) \/ Past(x, y)

(* A status that Reconcile returns an error for.                           *)
Failing(status) == ~status.provisioned /\ ~Missing(status)

(* What a call k that nothing has woken again knows of its request, x as   *)
(* cached and y as stored: it works on x, or has recorded a name since.    *)
CallKnows(k, x, y, open) ==
    /\ x # None /\ SameButStatus(k.base, x) /\ SameButStatus(k.cr, x)
    /\ k.pc = "addDeprovisionFinalizer" => k.base = x /\ ~x.finalizer /\ ~x.deleting
    /\ k.pc = "namespace" => k.base = x /\ k.cr = x
    /\ k.pc \in SyncPCs => x.finalizer /\ ~x.deleting
    /\ k.pc \in ActuatorPCs => ~Missing(k.cr.status)
    /\ k.pc \in DeletePCs => x.deleting
    /\ k.pc = "updateStatus" =>
         \/ x.deleting
         \/ /\ x.finalizer
            /\ Failing(k.cr.status) \/ Calm(k.cr, open)
            /\ Missing(k.cr.status) => k.cr.status.provisioned = x.status.provisioned
    /\ ~x.deleting /\ k.base # x =>
         /\ x.status.user = None /\ k.base.status.user # None
         /\ y # None /\ y.finalizer /\ y.status # x.status

(* The call has a step to make.                                            *)
Busy(k) == k.pc \notin PanicPCs \cup {"idle"}

(* A call that nothing has woken again goes on knowing its request, or     *)
(* returns an error, or leaves the request quiet.                          *)
KnowsOrEnds(w, open) ==
    LET k == wk[w]
        n == wk'[w]
        x == crCache[w][k.req]
        y == crs'[k.req]
    IN  /\ Busy(n) => CallKnows(n, x, y, open)
        /\ n.pc = "idle" => ReturnsError(w) \/ Quiet(x, y, open)

(* CallMinds, for every call.                                              *)
MindFacts ==
    \A w \in Workers, open \in SUBSET namespaces :
        WorkerStep(w) /\ CallKnows(wk[w], crCache[w][wk[w].req], crs[wk[w].req], open)
        => KnowsOrEnds(w, open)

=============================================================================
