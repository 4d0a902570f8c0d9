------------------------------ MODULE Operator ------------------------------
(***************************************************************************)
(* The running operator: the controller of Reconciler driven by its watches*)
(* and its work queue, each Reconcile call followed by the deferred        *)
(* syncOperatorStatus.  Where Reconciler lets any request be reconciled at *)
(* any time, here a request is reconciled because something woke it.       *)
(***************************************************************************)
EXTENDS Reconciler, ClusterOperatorStatus, WorkQueue

CONSTANTS
    Central,        \* the requests in the operator's own namespace
    Version,        \* RELEASE_VERSION of the running operator
    COLag,          \* whether the ClusterOperator informer may lag
    MaxStatusFaults \* bound: failed calls, crashes and deletions around the ClusterOperator

VARIABLES
    queue,          \* each process's work queue
    nsEvents,       \* namespaces seen by the cache, their handler not run yet
    op,             \* each process's deferred syncOperatorStatus
    co,             \* the ClusterOperator in the API server
    coCache,        \* each process's cached ClusterOperator
    coCurrent,      \* whether that copy has the latest resourceVersion
    statusFaults

coVars == <<co, coCache, coCurrent, statusFaults>>
operatorVars == <<queue, nsEvents, op, co, coCache, coCurrent, statusFaults>>
allVars == <<vars, operatorVars>>

ASSUME FiniteAssumption == IsFiniteSet(CRs)
ASSUME StatusAssumption == Central \subseteq CRs /\ MaxStatusFaults \in Nat

-----------------------------------------------------------------------------
ClusterOperator == [conds: [OperatorCondTypes -> [status: {"Unset", "True", "False"},
                                                  numbers: Seq(Nat)]],
                    version: {None, Version}]

BlankOperator == [conds |-> BlankConditions, version |-> None]

NoDeferred == [pc |-> "none", failed |-> FALSE, current |-> FALSE, new |-> None]

(* Reconcile has returned, and syncOperatorStatus is about to run.         *)
Deferred(failed) == [NoDeferred EXCEPT !.pc = "syncOperatorStatus", !.failed = failed]

OperatorTypeOK ==
    /\ queue \in [Workers -> Queue(CRs)]
    /\ nsEvents \in [Workers -> SUBSET Namespaces]
    /\ op \in [Workers -> [pc: {"none", "syncOperatorStatus", "create", "update"},
                           failed: BOOLEAN, current: BOOLEAN,
                           new: ClusterOperator \cup {None}]]
    /\ co \in ClusterOperator \cup {None}
    /\ coCache \in [Workers -> ClusterOperator \cup {None}]
    /\ coCurrent \in [Workers -> BOOLEAN]
    /\ statusFaults \in 0..MaxStatusFaults

OperatorInit ==
    /\ Init
    /\ queue = [w \in Workers |-> EmptyQueue]
    /\ nsEvents = [w \in Workers |-> namespaces]
    /\ op = [w \in Workers |-> NoDeferred]
    /\ co = BlankOperator
    /\ coCache = [w \in Workers |-> co]
    /\ coCurrent = [w \in Workers |-> TRUE]
    /\ statusFaults = 0

Add(w, requests) == queue' = [queue EXCEPT ![w] = AddAll(@, requests)]

-----------------------------------------------------------------------------
(* Watches *)

WatchCR(w, c) ==
    /\ SyncCRCache(w, c)
    /\ Add(w, {c})
    /\ UNCHANGED <<nsEvents, op, coVars>>

(* The request named in the annotation of a secret.                        *)
mapFn(secret) == IF secret = None \/ secret.owner = None THEN {} ELSE {secret.owner}

(* The predicate looks at the old object when there is one; the mapping is *)
(* applied to both.                                                        *)
WatchSecret(w, r) ==
    LET old == secretCache[w][r]
        passes == mapFn(IF old # None THEN old ELSE secrets[r]) # {}
    IN  /\ SyncSecretCache(w, r)
        /\ Add(w, IF passes THEN mapFn(old) \cup mapFn(secrets[r]) ELSE {})
        /\ UNCHANGED <<nsEvents, op, coVars>>

(* The cached requests that target the new namespace, except for those     *)
(* that are marked as provisioned.                                         *)
namespaceMapFn(w, n) ==
    {c \in CRs : /\ crCache[w][c] # None
                 /\ ~crCache[w][c].status.provisioned
                 /\ NamespaceOf[crCache[w][c].ref] = n}

WatchNamespace(w, n) ==
    /\ n \in nsEvents[w]
    /\ nsEvents' = [nsEvents EXCEPT ![w] = @ \ {n}]
    /\ Add(w, namespaceMapFn(w, n))
    /\ UNCHANGED <<vars, op, coVars>>

(* The informers hand out everything they hold once more, every ten hours; *)
(* updates of namespaces are filtered out.                                 *)
Resync(w) ==
    LET held == {c \in CRs : crCache[w][c] # None}
                \cup UNION {mapFn(secretCache[w][r]) : r \in Refs}
    IN  /\ ~ held \subseteq queue[w].dirty
        /\ Add(w, held)
        /\ UNCHANGED <<vars, nsEvents, op, coVars>>

BackoffOver(w, c) ==
    /\ c \in queue[w].delayed
    /\ queue' = [queue EXCEPT ![w] = Retry(@, c)]
    /\ UNCHANGED <<vars, nsEvents, op, coVars>>

-----------------------------------------------------------------------------
(* The worker *)

(* A request that is gone, or deleted and without the finalizer, leaves    *)
(* Reconcile nothing to do; operator status is synced all the same.        *)
processNextWorkItem(w) ==
    LET c == Head(queue[w].list)
        cr == crCache[w][c]
    IN  /\ At(w, "idle") /\ op[w].pc = "none"
        /\ queue[w].list # <<>>
        /\ queue' = [queue EXCEPT ![w] = Get(@)]
        /\ \/ Reconcile(w, c) /\ UNCHANGED op
           \/ /\ cr # None => cr.deleting /\ ~cr.finalizer
              /\ op' = [op EXCEPT ![w] = Deferred(FALSE)]
              /\ UNCHANGED vars
        /\ UNCHANGED <<nsEvents, coVars>>

(* The deferred call also runs when Reconcile panics.                      *)
ReconcileStep(w) ==
    /\ WorkerStep(w)
    /\ op' = IF wk'[w].pc \in PanicPCs \cup {"idle"}
             THEN [op EXCEPT ![w] = Deferred(ReturnsError(w))]
             ELSE op
    /\ UNCHANGED <<queue, nsEvents, coVars>>

-----------------------------------------------------------------------------
(* syncOperatorStatus *)

(* An error is only logged.  Either way processNextWorkItem comes to its   *)
(* end with the result of Reconcile.                                       *)
FinishItem(w) ==
    /\ op' = [op EXCEPT ![w] = NoDeferred]
    /\ queue' = [queue EXCEPT ![w] = Done(@, op[w].failed)]

(* Mutant: RELEASE_VERSION is not set.                                     *)
StatusFromUnversioned(conds, requests) ==
    [conds |-> computeStatusConditions(conds, [c \in {} |-> requests[c].status]),
     version |-> ""]

(* The status the given copies of the requests add up to.                  *)
StatusFrom(conds, requests) ==
    LET listed == {c \in Central : requests[c] # None}
    IN  [conds |-> computeStatusConditions(conds, [c \in listed |-> requests[c].status]),
         version |-> Version]

(* Reads of the object, the namespace and the list of requests, all from   *)
(* caches, and the decision what to write.                                 *)
syncOperatorStatus(w) ==
    LET read == IF COLag THEN coCache[w] ELSE co
        old == IF read = None THEN BlankOperator ELSE read
        new == StatusFrom(old.conds, crCache[w])
    IN  /\ op[w].pc = "syncOperatorStatus"
        /\ UNCHANGED <<vars, nsEvents, coVars>>
        /\ \/ /\ read = None
              /\ op' = [op EXCEPT ![w].pc = "create", ![w].new = new]
              /\ UNCHANGED queue
           \/ /\ read # None
              /\ ~ConditionsEqual(old.conds, new.conds) \/ old.version # new.version
              /\ op' = [op EXCEPT ![w].pc = "update", ![w].new = new,
                                  ![w].current = COLag => coCurrent[w]]
              /\ UNCHANGED queue
           \/ /\ read # None
              /\ ConditionsEqual(old.conds, new.conds) /\ old.version = new.version
              /\ FinishItem(w)

StatusFault ==
    /\ statusFaults < MaxStatusFaults
    /\ statusFaults' = statusFaults + 1

(* A write gives the object a new resourceVersion: every other copy of it  *)
(* is out of date.                                                         *)
WriteOperator(object) ==
    /\ co' = object
    /\ coCurrent' = [w \in Workers |-> FALSE]
    /\ UNCHANGED coCache

NoWrite == UNCHANGED <<co, coCache, coCurrent>>

(* The status is a subresource: the new object has none until it is updated.*)
createClusterOperator(w) ==
    /\ op[w].pc = "create"
    /\ UNCHANGED <<vars, nsEvents>>
    /\ \/ /\ co = None /\ WriteOperator(BlankOperator)
          /\ op' = [op EXCEPT ![w].pc = "update", ![w].current = TRUE]
          /\ UNCHANGED <<queue, statusFaults>>
       \/ co # None /\ NoWrite /\ FinishItem(w) /\ UNCHANGED statusFaults
       \/ NoWrite /\ FinishItem(w) /\ StatusFault

updateClusterOperator(w) ==
    /\ op[w].pc = "update"
    /\ UNCHANGED <<vars, nsEvents>>
    /\ FinishItem(w)
    /\ \/ op[w].current /\ WriteOperator(op[w].new) /\ UNCHANGED statusFaults
       \/ ~op[w].current /\ NoWrite /\ UNCHANGED statusFaults
       \/ NoWrite /\ StatusFault

SyncCOCache(w) ==
    /\ COLag
    /\ ~coCurrent[w]
    /\ coCache' = [coCache EXCEPT ![w] = co]
    /\ coCurrent' = [coCurrent EXCEPT ![w] = TRUE]
    /\ UNCHANGED <<vars, queue, nsEvents, op, co, statusFaults>>

(* Somebody deletes the object.                                            *)
DeleteClusterOperator ==
    /\ co # None
    /\ StatusFault
    /\ WriteOperator(None)
    /\ op' = [w \in Workers |-> [op[w] EXCEPT !.current = FALSE]]
    /\ UNCHANGED <<vars, queue, nsEvents>>

(* The cluster-version operator applies the manifest of the payload again. *)
ApplyManifest ==
    /\ co = None
    /\ WriteOperator(BlankOperator)
    /\ UNCHANGED <<vars, queue, nsEvents, op, statusFaults>>

-----------------------------------------------------------------------------
(* A process starts again, after a crash in Reconcile or behind it: the    *)
(* watches report every object they find as new.                           *)
RestartProcess(w) ==
    /\ \/ Restart(w) /\ (wk[w].pc \in PanicPCs => op[w].pc = "none") /\ UNCHANGED statusFaults
       \/ op[w].pc # "none" /\ At(w, "idle") /\ StatusFault /\ UNCHANGED vars
    /\ queue' = [queue EXCEPT ![w] = AddAll(EmptyQueue,
                                                {c \in CRs : crCache'[w][c] # None})]
    /\ nsEvents' = [nsEvents EXCEPT ![w] = namespaces]
    /\ op' = [op EXCEPT ![w] = NoDeferred]
    /\ coCache' = [coCache EXCEPT ![w] = co]
    /\ coCurrent' = [coCurrent EXCEPT ![w] = TRUE]
    /\ UNCHANGED co

(* A new namespace reaches the handlers after it has reached the cache.    *)
ClusterChange ==
    /\ Environment
    /\ nsEvents' = [w \in Workers |-> nsEvents[w] \cup (namespaces' \ namespaces)]
    /\ UNCHANGED <<queue, op, coVars>>

OperatorStep(w) ==
    \/ processNextWorkItem(w) \/ ReconcileStep(w)
    \/ syncOperatorStatus(w) \/ createClusterOperator(w) \/ updateClusterOperator(w)

OperatorNext ==
    \/ \E w \in Workers :
         \/ OperatorStep(w) \/ RestartProcess(w) \/ Resync(w) \/ SyncCOCache(w)
         \/ \E c \in CRs : WatchCR(w, c) \/ BackoffOver(w, c)
         \/ \E r \in Refs : WatchSecret(w, r)
         \/ \E n \in Namespaces : WatchNamespace(w, n)
    \/ ClusterChange
    \/ DeleteClusterOperator \/ ApplyManifest

OperatorSpec == OperatorInit /\ [][OperatorNext]_allVars

(* The worker goroutine runs on, a process that panicked comes up again,   *)
(* the watches deliver, and timers expire, the one of the resync included. *)
OperatorFairness ==
    \A w \in Workers :
        /\ WF_allVars(OperatorStep(w))
        /\ WF_allVars(wk[w].pc \in PanicPCs /\ RestartProcess(w))
        /\ WF_allVars(Resync(w)) /\ WF_allVars(SyncCOCache(w))
        /\ \A c \in CRs : WF_allVars(WatchCR(w, c)) /\ WF_allVars(BackoffOver(w, c))
        /\ \A r \in Refs : WF_allVars(WatchSecret(w, r))
        /\ \A n \in Namespaces : WF_allVars(WatchNamespace(w, n))

OperatorFairSpec == OperatorSpec /\ OperatorFairness

-----------------------------------------------------------------------------
(* Properties *)

(* Nothing will reconcile the request until something about it changes.    *)
AtRest(c) ==
    \A w \in Workers :
        /\ wk[w].req # c
        /\ c \notin queue[w].dirty \cup queue[w].delayed \cup queue[w].processing
        /\ crCache[w][c] = crs[c]
        /\ crs[c] # None => NamespaceOf[crs[c].ref] \notin nsEvents[w]

(* The request needs no Reconcile call: it is synced for its current spec, *)
(* or waits for its namespace.                                             *)
Settled(c) ==
    /\ crs[c].finalizer /\ ~crs[c].deleting
    /\ \/ crs[c].status.provisioned /\ crs[c].status.syncGen = crs[c].gen
       \/ NamespaceOf[crs[c].ref] \notin namespaces

(* No wake-up is lost: a request nothing will reconcile needs none, be the *)
(* event hidden in the queue behind a running call, taken off by a failed  *)
(* one, or delivered before the cache has the change (the watches of add,  *)
(* the retries of processNextWorkItem).  Left out are the requests that    *)
(* namespaceMapFn leaves out.                                              *)
NoLostWakeup ==
    \A c \in CRs :
        crs[c] # None /\ AtRest(c)
        => \/ Settled(c)
           \/ crs[c].status.provisioned /\ crs[c].status.conds[MissingNamespace] = "True"

(* A request that was added and not yet reconciled waits in the queue, and *)
(* only once, unless it is being reconciled, in which case it is added     *)
(* when that call is done: the promise of the queue that NoLostWakeup      *)
(* rests on, with every watch, resync, back-off and restart.               *)
QueueConsistent == \A w \in Workers : Consistent(queue[w])

(* Reconciler assumes strong fairness for the Reconcile of each request.   *)
(* The first in, first out queue, the retries and the resync keep that     *)
(* promise, with weak fairness only, unless the users of the cluster never *)
(* stop changing it: no request starves behind another one that fails or   *)
(* changes all the time.                                                   *)
NobodyStarves ==
    \/ []<><<ClusterChange>>_allVars
    \/ \A w \in Workers, c \in CRs : SF_vars(Reconcile(w, c))

(* As long as there are requests, the ClusterOperator ends up with the     *)
(* conditions and the version that the requests of the operator's own      *)
(* namespace add up to, although errors of syncOperatorStatus are only     *)
(* logged and nothing watches the ClusterOperator.                         *)
StatusMatches == co # None /\ co = StatusFrom(co.conds, crs)

StatusConverges ==
    \/ []<><<ClusterChange>>_allVars
    \/ <>[](\A c \in CRs : crs[c] = None)
    \/ <>[]StatusMatches

-----------------------------------------------------------------------------
(* Statements of the repository that some behaviour of the code refutes    *)

(* README: "If this namespace does not yet exist, the controller will      *)
(* immediately sync when it sees that namespace being created."            *)
SyncedWhenNamespaceCreated ==
    \A c \in CRs : crs[c] # None /\ AtRest(c) => Settled(c)

=============================================================================
