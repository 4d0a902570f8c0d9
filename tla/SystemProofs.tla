---------------------------- MODULE SystemProofs ----------------------------
(***************************************************************************)
(* The theorems about the controller and the running operator, put         *)
(* together from their parts: CallProofs shows that the steps of Reconcile *)
(* calls are as Steps states them, the other modules derive from this, and *)
(* from nothing else about the steps, that the invariants are kept.        *)
(***************************************************************************)
EXTENDS CallProofs, LifecycleProofs, SecretProofs, OperatorProofs

-----------------------------------------------------------------------------
(* The controller: IAM users *)

(* Types, and what the rest of the invariants say for any number of        *)
(* processes.                                                              *)
LEMMA NamesHold == Spec => [](TypeInv /\ LifeInv)
<1>1. TypeInv /\ LifeInv /\ [Next]_vars => LifeInv'
  BY LifeStep, StepsAreAsStated, Zenon
<1>2. QED
  BY <1>1, InitLife, CallsAreGood, PTL DEF Spec

(* What they say for a single process.                                     *)
LEMMA OrphanInvHolds ==
    ASSUME SingleProcess
    PROVE  Spec => [](TypeInv /\ LifeInv /\ OrphanInv)
<1>1. TypeInv /\ TypeInv' /\ OrphanInv /\ [Next]_vars => OrphanInv'
  BY OrphanStep, StepsAreAsStated, Zenon
<1>2. QED
  BY <1>1, InitOrphanInv, NamesHold, PTL DEF Spec

(* With a single operator process, every IAM user the operator has made is *)
(* recorded in a request that still carries the deprovision finalizer,     *)
(* however stale the caches are and whatever fails, for any number of      *)
(* requests, users and faults.                                             *)
THEOREM NoOrphans ==
    ASSUME SingleProcess
    PROVE  Spec => []NoOrphanUser
<1>1. OrphanInv => NoOrphanUser
  BY Zenon DEF OrphanInv
<1>2. QED
  BY <1>1, OrphanInvHolds, PTL

(* Everything a single operator process does to the users and the requests *)
(* is what CredentialLifecycle allows, for any number of requests, users   *)
(* and faults: Reconcile, sync and Delete protect, record, create, remove  *)
(* and release in this order, whatever is stale, lost or interrupted.      *)
THEOREM ReconcilerImplementsLifecycle ==
    ASSUME SingleProcess
    PROVE  Spec => ImplementsLifecycle
<1>1. TypeInv /\ LifeInv /\ OrphanInv /\ [Next]_vars => [Lifecycle!Next]_(Lifecycle!vars)
  BY StepRefines, StepsAreAsStated, Zenon
<1>2. QED
  BY <1>1, InitRefines, OrphanInvHolds, PTL DEF Spec, ImplementsLifecycle, Lifecycle!Spec

(* No two requests ever share an IAM user name, in the API server, in any  *)
(* informer cache or in any running call, with any number of processes:    *)
(* the names are drawn at random and only copied (generateUserName).       *)
THEOREM NamesAreUnique == Spec => []NamesUnique
<1>1. LifeInv => NamesUnique
  BY Zenon DEF LifeInv
<1>2. QED
  BY <1>1, NamesHold, PTL

(* A single operator process deletes an IAM user only when the request     *)
(* that records it has been deleted, however stale its copy of the request *)
(* is (Actuator.Delete), when nobody else deletes users in AWS.            *)
THEOREM UsersOutliveRequests ==
    ASSUME SingleProcess, "iamEdits" \notin Disturbances
    PROVE  Spec => UserDeletedOnlyWithRequest
<1> DEFINE Outlives == \A u \in Users :
                          iam[u] # None /\ iam'[u] = None
                          => \E c \in CRs : Owns(c, u) /\ crs[c].deleting
<1>1. TypeInv /\ LifeInv /\ OrphanInv /\ [Next]_vars => [Outlives]_vars
  BY StepOutlives, StepsAreAsStated, Zenon
<1>2. QED
  BY <1>1, OrphanInvHolds, PTL DEF Spec, UserDeletedOnlyWithRequest

(* What a call that replaces keys has seen of them, with a single process. *)
LEMMA KeyInvHolds ==
    ASSUME SingleProcess
    PROVE  Spec => []KeyInv
<1>1. TypeInv /\ KeyInv /\ [Next]_vars => KeyInv'
  BY KeyStep, StepsAreAsStated, Zenon
<1>2. QED
  BY <1>1, InitKeys, CallsAreGood, PTL DEF Spec

(* deleteAllAccessKeys has deleted every key a user has when               *)
(* createAccessKey gives it a new one, with or without a retry of the SDK: *)
(* however calls are interrupted and whatever others delete in AWS, no key *)
(* that was lost on the way survives the next rotation.                    *)
THEOREM KeysAreReplacedWhole ==
    ASSUME SingleProcess
    PROVE  Spec => KeysAreReplaced
<1> DEFINE Replaced == \A u \in Users :
                          /\ iam[u] # None /\ iam'[u] # None
                          /\ ~(iam'[u].keys \subseteq iam[u].keys)
                          => iam[u].keys = {}
<1>1. TypeInv /\ KeyInv /\ [Next]_vars => [Replaced]_vars
  BY StepReplacesKeys, StepsAreAsStated, Zenon
<1>2. QED
  BY <1>1, KeyInvHolds, CallsAreGood, PTL DEF Spec, KeysAreReplaced

-----------------------------------------------------------------------------
(* The controller: target secrets *)

(* A request goes only when the secret its latest spec names is gone, also *)
(* when the spec changes during the deletion, namespaces go, calls fail    *)
(* and processes crash, and although the cache may lag at any other time,  *)
(* as long as it is up to date when the call looks the secret up.          *)
THEOREM DeletionsLeaveNoSecret ==
    ASSUME SingleProcess, "secretEdits" \notin Disturbances
    PROVE  Spec /\ []FreshReads => DeletedRequestLeavesNoSecret
<1> DEFINE Leaves == \A c \in CRs : crs[c] # None /\ crs[c].finalizer /\ crs'[c] = None
                                    => secrets[crs[c].ref] = None
<1>1. FreshReads /\ TypeInv /\ GoneInv /\ [Next]_vars => GoneInv'
  BY StepKeepsGone, StepsAreAsStated, Zenon
<1>2. TypeInv /\ GoneInv /\ [Next]_vars => [Leaves]_vars
  BY StepLeavesNoSecret, StepsAreAsStated, Zenon
<1>3. QED
  BY <1>1, <1>2, InitGone, CallsAreGood, PTL DEF Spec, DeletedRequestLeavesNoSecret

(* The invariants of a single process, together.                           *)
LEMMA SyncInvHolds ==
    ASSUME SingleProcess, Undisturbed
    PROVE  Spec /\ []FreshReads /\ []ProperAdmin
           => [](TypeInv /\ LifeInv /\ OrphanInv /\ LineageInv /\ TargetInv /\ SyncInv)
<1>1. TypeInv /\ TypeInv' /\ OrphanInv /\ LifeInv /\ LineageInv /\ [Next]_vars => LineageInv'
  BY StepKeepsLineage, StepsAreAsStated, Zenon
<1>2. TypeInv /\ TargetInv /\ [Next]_vars => TargetInv'
  BY StepKeepsTargets, StepsAreAsStated, Zenon
<1>3. /\ FreshReads /\ ProperAdmin
      /\ TypeInv /\ TypeInv' /\ OrphanInv /\ LifeInv /\ LineageInv /\ TargetInv /\ SyncInv
      /\ [Next]_vars
      => SyncInv'
  BY StepKeepsSynced, StepsAreAsStated, Zenon
<1>4. QED
  BY <1>1, <1>2, <1>3, InitSync, OrphanInvHolds, PTL DEF Spec

(* When Reconcile returns early because the request was synced less than   *)
(* an hour ago and has not changed, there is nothing to sync, whatever     *)
(* failed or crashed before, as long as only the operator changes target   *)
(* secrets and IAM users, the cache is up to date when a sync looks the    *)
(* secret up, and the annotation of the admin secret, whose value may      *)
(* change, is never one that a sync takes for success.                     *)
THEOREM SkippedSyncsAreSound ==
    ASSUME SingleProcess, Undisturbed
    PROVE  Spec /\ []FreshReads /\ []ProperAdmin => []SkippedSyncIsSound
  BY SyncedIsServed, SyncInvHolds, PTL

(* Once a request is synced for its current spec, no secret that it wrote  *)
(* under an earlier spec holds a key that AWS still accepts, whatever      *)
(* failed, crashed or was edited on the way, under the same conditions and *)
(* when the admin secret stays what it is: passing the admin key on        *)
(* instead would leave the old key alive.                                  *)
THEOREM AbandonedSecretsAreDead ==
    ASSUME SingleProcess, Undisturbed, "rootEdits" \notin Disturbances
    PROVE  Spec /\ []FreshReads /\ []ProperAdmin => []AbandonedSecretIsDead
<1>1. /\ ProperAdmin
      /\ TypeInv /\ TypeInv' /\ OrphanInv /\ LifeInv /\ LineageInv /\ TargetInv /\ SyncInv
      /\ KeyInv /\ DeadInv /\ [Next]_vars
      => DeadInv'
  BY DeadStep, StepsAreAsStated, Zenon
<1>2. QED
  BY <1>1, InitDead, AbandonedIsDead, SyncInvHolds, KeyInvHolds, PTL DEF Spec

-----------------------------------------------------------------------------
(* The running operator *)

(* Types and good queues, in every reachable state.                        *)
LEMMA OperatorInvariant == OperatorSpec => [](TypeInv /\ QueueInv /\ OperatorTypeOK)
<1>1. OperatorInit => TypeInv /\ QueueInv /\ OperatorTypeOK
  <2>1. OperatorInit => TypeInv
    BY InitType, Zenon DEF OperatorInit
  <2>2. QED
    BY <2>1, InitQueue, OperatorTypeInit, Zenon
<1>2. TypeInv /\ QueueInv /\ [OperatorNext]_allVars => TypeInv' /\ QueueInv'
  BY OperatorStepOK, StepType, Zenon
<1>3. TypeInv' /\ QueueInv' /\ OperatorTypeOK /\ [OperatorNext]_allVars => OperatorTypeOK'
  BY OperatorTypeStep, Zenon
<1>4. QED
  BY <1>1, <1>2, <1>3, PTL DEF OperatorSpec

(* The operator, woken by its watches, its retries and its resyncs and     *)
(* followed by the report of its status, implements Reconciler, in which   *)
(* any request may be reconciled at any time: every step of add's event    *)
(* handlers, of processNextWorkItem and of syncOperatorStatus is a step of *)
(* Reconciler or none.                                                     *)
THEOREM OperatorImplementsReconciler == OperatorSpec => Spec
<1>1. OperatorInit => Init
  BY Zenon DEF OperatorInit
<1>2. TypeInv /\ QueueInv /\ [OperatorNext]_allVars => [Next]_vars
  BY OperatorStepOK, Zenon
<1>3. QED
  BY <1>1, <1>2, OperatorInvariant, PTL DEF OperatorSpec, Spec

(* The queues, the deferred syncOperatorStatus and the ClusterOperator, in *)
(* the API server and in the caches, have the shape stated.                *)
THEOREM OperatorTypeCorrect == OperatorSpec => []OperatorTypeOK
  BY OperatorInvariant, PTL

(* No request that was added and not reconciled is missing from the queue, *)
(* and none is in it twice, for any number of processes and requests.      *)
THEOREM QueuesAreConsistent == OperatorSpec => []QueueConsistent
<1>1. QueueInv => QueueConsistent
  BY QueueHolds, Zenon
<1>2. QED
  BY <1>1, OperatorInvariant, PTL

(* A request that no watch, queue or timer of a single operator process    *)
(* will bring up again needs no Reconcile call, or is one of those that    *)
(* namespaceMapFn leaves out.                                              *)
THEOREM NoWakeupIsLost ==
    ASSUME SingleProcess
    PROVE  OperatorSpec => []NoLostWakeup
<1>1. OperatorSpec => []HonestInv
  BY OperatorImplementsReconciler, CopiesAreHonest, PTL
<1>2. /\ TypeInv /\ TypeInv' /\ HonestInv /\ OperatorTypeOK /\ QueueInv /\ WakeInv
      /\ [OperatorNext]_allVars
      => WakeInv'
  BY WakeStep, StepsAreAsStated, CallsKnow, Zenon
<1>3. HonestInv /\ WakeInv => NoLostWakeup
  BY WakeSuffices, Zenon DEF SingleProcess
<1>4. QED
  BY <1>1, <1>2, <1>3, WakeInit, OperatorInvariant, PTL DEF OperatorSpec

(* The running operator leaves no orphaned IAM user, as long as there is   *)
(* one process.                                                            *)
THEOREM OperatorLeavesNoOrphans ==
    ASSUME SingleProcess
    PROVE  OperatorSpec => []NoOrphanUser
  BY OperatorImplementsReconciler, NoOrphans, PTL

=============================================================================
