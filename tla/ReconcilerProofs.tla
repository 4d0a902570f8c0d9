-------------------------- MODULE ReconcilerProofs --------------------------
(***************************************************************************)
(* Proofs about Reconciler, for any sets of requests, secrets, users, keys *)
(* and operator processes, and any bounds: the types, and the stability of *)
(* recorded user names.                                                    *)
(***************************************************************************)
EXTENDS Steps, TLAPS

-----------------------------------------------------------------------------
(* Types *)

(* Setting a condition (SetCredentialsRequestCondition) keeps the type of  *)
(* the conditions.                                                         *)
LEMMA ConditionsType ==
    ASSUME NEW conds \in [CondTypes -> CondStatus]
    PROVE  /\ \A t \in CondTypes, on \in BOOLEAN :
                SetCondition(conds, t, on) \in [CondTypes -> CondStatus]
           /\ \A reason : updateActuatorConditions(conds, reason) \in [CondTypes -> CondStatus]
<1>1. ASSUME NEW cs \in [CondTypes -> CondStatus], NEW t \in CondTypes, NEW on \in BOOLEAN
      PROVE  SetCondition(cs, t, on) \in [CondTypes -> CondStatus]
  BY Zenon DEF SetCondition, SetCredentialsRequestCondition, CondStatus
<1>2. ProvisionFailure \in CondTypes /\ Insufficient \in CondTypes
  BY Zenon DEF CondTypes
<1>3. QED
  BY <1>1, <1>2, Zenon DEF updateActuatorConditions

(* A Reconcile call that moves to a good local state.                      *)
LEMMA LocalStep ==
    ASSUME wk \in [Workers -> GoodWorkers], NEW w \in Workers, NEW k \in GoodWorkers,
           wk' = [wk EXCEPT ![w] = k]
    PROVE  wk' \in [Workers -> GoodWorkers]
  BY Zenon

(* The locals of a call that is not idle.                                  *)
LEMMA Running ==
    ASSUME TypeInv, NEW w \in Workers, ~At(w, "idle")
    PROVE  /\ wk[w] \in Worker
           /\ wk[w].req \in CRs
           /\ wk[w].base \in CredentialsRequest
           /\ wk[w].cr \in CredentialsRequest
           /\ wk[w].base.status \in Status
           /\ wk[w].cr.status \in Status
           /\ wk[w].base.status.user \in {None, wk[w].cr.status.user}
           /\ crs[wk[w].req] \in CredentialsRequest \cup {None}
  BY Zenon DEF TypeInv, TypeOK, GoodWorkers, At, CredentialsRequest

(* Reconcile returns.                                                      *)
LEMMA ReturnType ==
    ASSUME TypeInv, NEW w \in Workers, Return(w)
    PROVE  wk' \in [Workers -> GoodWorkers]
<1>1. IdleWorker \in GoodWorkers
  BY Zenon DEF IdleWorker, Locals, GoodWorkers, Worker, PCs, NamedPCs, SyncPCs, DeletePCs, PanicPCs
<1>2. QED
  BY <1>1, LocalStep, Zenon DEF Return, TypeInv

(* The call goes on to save a status that keeps the name of the user.      *)
LEMMA FinishType ==
    ASSUME TypeInv, NEW w \in Workers, ~At(w, "idle"), NEW status \in Status,
           wk[w].base.status.user \in {None, status.user}, Finish(w, status)
    PROVE  wk' \in [Workers -> GoodWorkers]
<1> DEFINE cr == [wk[w].cr EXCEPT !.status = status]
           k == Locals("updateStatus", wk[w].req, wk[w].base, cr)
<1>1. cr \in CredentialsRequest /\ cr.status = status
  BY Running, Zenon DEF CredentialsRequest
<1>2. k \in Worker
  BY <1>1, Running, Zenon DEF Worker, PCs, Locals
<1>3. k \in GoodWorkers
  BY <1>1, <1>2, Running, Zenon DEF GoodWorkers, NamedPCs, SyncPCs, DeletePCs, Locals
<1>4. wk' = [wk EXCEPT ![w] = k]
  BY Zenon DEF Finish
<1>5. QED
  BY <1>3, <1>4, LocalStep, Zenon DEF TypeInv

(* The call goes on to another step of the same kind with the same request *)
(* and copies.                                                             *)
LEMMA SameCall ==
    ASSUME TypeInv, NEW w \in Workers, ~At(w, "idle"), NEW k \in Worker,
           wk' = [wk EXCEPT ![w] = k],
           k.req = wk[w].req, k.base = wk[w].base, k.cr = wk[w].cr,
           k.pc \notin {"idle", "addDeprovisionFinalizer"},
           k.pc \in SyncPCs => wk[w].pc \in SyncPCs,
           k.pc \in DeletePCs => wk[w].pc \in DeletePCs,
           k.pc \in NamedPCs => UserName(w) # None
    PROVE  wk' \in [Workers -> GoodWorkers]
<1>1. wk[w] \in GoodWorkers
  BY Zenon DEF TypeInv
<1>2. k \in GoodWorkers
  BY <1>1, Running, Zenon DEF GoodWorkers, UserName
<1>3. QED
  BY <1>2, LocalStep, Zenon DEF TypeInv

(* The call goes on to a step of the same kind.                            *)
LEMMA GotoType ==
    ASSUME TypeInv, NEW w \in Workers, ~At(w, "idle"), NEW label \in PCs, Goto(w, label),
           label \notin {"idle", "addDeprovisionFinalizer"},
           label \in SyncPCs => wk[w].pc \in SyncPCs,
           label \in DeletePCs => wk[w].pc \in DeletePCs,
           label \in NamedPCs => UserName(w) # None
    PROVE  wk' \in [Workers -> GoodWorkers]
<1> DEFINE k == [wk[w] EXCEPT !.pc = label]
<1>1. /\ k \in Worker /\ k.pc = label
      /\ k.req = wk[w].req /\ k.base = wk[w].base /\ k.cr = wk[w].cr
  BY Running, Zenon DEF Worker
<1>2. wk' = [wk EXCEPT ![w] = k]
  BY Zenon DEF Goto
<1> HIDE DEF k
<1>3. QED
  BY <1>1, <1>2, SameCall, Zenon

(* Reconcile records the result of the actuator.                           *)
LEMMA SucceedType ==
    ASSUME TypeInv, NEW w \in Workers, ~At(w, "idle"), Succeed(w)
    PROVE  wk' \in [Workers -> GoodWorkers]
<1> DEFINE s == [wk[w].cr.status EXCEPT !.conds = updateActuatorConditions(@, ""),
                                        !.provisioned = TRUE,
                                        !.syncTime = now,
                                        !.syncGen = wk[w].base.gen]
<1>1. updateActuatorConditions(wk[w].cr.status.conds, "") \in [CondTypes -> CondStatus]
  BY Running, ConditionsType, Zenon DEF Status
<1>2. wk[w].base.gen \in Nat /\ now \in Nat
  BY Running, Zenon DEF CredentialsRequest, TypeInv, TypeOK
<1>3. s \in Status /\ s.user = wk[w].cr.status.user
  BY <1>1, <1>2, Running, Zenon DEF Status
<1> HIDE DEF s
<1>4. QED
  BY <1>3, Running, FinishType, Zenon DEF Succeed, s

(* Reconcile records the failure of a sync (updateActuatorConditions).     *)
LEMMA FailType ==
    ASSUME TypeInv, NEW w \in Workers, ~At(w, "idle"), NEW reason, NEW status \in Status,
           wk[w].base.status.user \in {None, status.user},
           Finish(w, FailedStatus(status, reason))
    PROVE  wk' \in [Workers -> GoodWorkers]
<1>1. updateActuatorConditions(status.conds, reason) \in [CondTypes -> CondStatus]
  BY ConditionsType, Zenon DEF Status
<1>2. FailedStatus(status, reason) \in Status /\ FailedStatus(status, reason).user = status.user
  BY <1>1, Zenon DEF Status, FailedStatus
<1>3. QED
  BY <1>2, FinishType, Zenon

(* Reconcile records the failure of a deletion.                            *)
LEMMA DeprovisionFailType ==
    ASSUME TypeInv, NEW w \in Workers, ~At(w, "idle"), DeprovisionFail(w)
    PROVE  wk' \in [Workers -> GoodWorkers]
<1> DEFINE s == [wk[w].cr.status EXCEPT !.conds = SetCondition(@, DeprovisionFailure, TRUE)]
<1>1. SetCondition(wk[w].cr.status.conds, DeprovisionFailure, TRUE) \in [CondTypes -> CondStatus]
  BY Running, ConditionsType, Zenon DEF Status, CondTypes
<1>2. s \in Status /\ s.user = wk[w].cr.status.user
  BY <1>1, Running, Zenon DEF Status
<1> HIDE DEF s
<1>3. QED
  BY <1>2, Running, FinishType, Zenon DEF DeprovisionFail, s

(* The types of everything but the running calls.                          *)
RestOK ==
    /\ crs \in [CRs -> CredentialsRequest \cup {None}]
    /\ secrets \in [Refs -> Secret \cup {None}]
    /\ namespaces \subseteq Namespaces
    /\ root \in AdminSecret \cup {None}
    /\ iam \in [Users -> User \cup {None}]
    /\ now \in Nat
    /\ crCache \in [Workers -> [CRs -> CredentialsRequest \cup {None}]]
    /\ secretCache \in [Workers -> [Refs -> Secret \cup {None}]]
    /\ faults \in Nat

(* The type invariant, split into the running calls and the rest.          *)
LEMMA TypeSplit == TypeInv <=> RestOK /\ wk \in [Workers -> GoodWorkers]
<1>1. GoodWorkers \subseteq Worker
  BY Zenon DEF GoodWorkers
<1>2. QED
  BY <1>1, Zenon DEF TypeInv, TypeOK, RestOK

(* The same after a step.                                                  *)
LEMMA TypeSplitPrime == TypeInv' <=> RestOK' /\ wk' \in [Workers -> GoodWorkers]
<1>1. GoodWorkers \subseteq Worker
  BY DEF GoodWorkers
<1>2. QED
  BY <1>1, Zenon DEF TypeInv, TypeOK, RestOK

(* A fault is counted.                                                     *)
LEMMA FaultType ==
    ASSUME faults \in Nat, NEW kind, Fault(kind)
    PROVE  faults' \in Nat
  BY DEF Fault

(* The step of a Reconcile call that only reads.                           *)
LEMMA ReadsType ==
    ASSUME TypeInv, Reads, faults' \in Nat, wk' \in [Workers -> GoodWorkers]
    PROVE  TypeInv'
<1>1. RestOK'
  BY TypeSplit, Zenon DEF RestOK, Reads, NoAPIWrite, apiVars, cacheVars
<1>2. QED
  BY <1>1, TypeSplitPrime, Zenon

(* The step of a Reconcile call that changes IAM.                          *)
LEMMA IAMType ==
    ASSUME TypeInv, NoAPIWrite, iam' \in [Users -> User \cup {None}], faults' \in Nat,
           wk' \in [Workers -> GoodWorkers]
    PROVE  TypeInv'
<1>1. RestOK'
  BY TypeSplit, Zenon DEF RestOK, NoAPIWrite, apiVars, cacheVars
<1>2. QED
  BY <1>1, TypeSplitPrime, Zenon

(* The user a step works on has a name.                                    *)
LEMMA NamedUser ==
    ASSUME TypeInv, NEW w \in Workers, wk[w].pc \in NamedPCs
    PROVE  UserName(w) \in Users /\ UserName(w) # None /\ TheUser(w) \in User \cup {None}
<1>1. wk[w] \in GoodWorkers /\ ~At(w, "idle")
  BY Zenon DEF TypeInv, At, NamedPCs
<1>2. wk[w].cr.status \in Status /\ wk[w].cr.status.user # None
  BY <1>1, Running, Zenon DEF GoodWorkers
<1>3. QED
  BY <1>2, Zenon DEF UserName, TheUser, Status, TypeInv, TypeOK

(* A sync that fails.                                                      *)
LEMMA FailOfType ==
    ASSUME TypeInv, NEW w \in Workers, ~At(w, "idle"), NEW reason, Fail(w, reason)
    PROVE  wk' \in [Workers -> GoodWorkers]
  BY Running, FailType, Zenon DEF Fail

(* Every step of sync that only reads keeps the types.                     *)
LEMMA ReadStepsType ==
    ASSUME TypeInv, NEW w \in Workers,
           \/ sync(w) \/ needsUpdateUser(w) \/ needsUpdateKeys(w) \/ needsUpdatePolicy(w)
           \/ cloudCreds(w) \/ GetUser(w) \/ ListAccessKeys(w) \/ DeleteListAccessKeys(w)
    PROVE  TypeInv'
<1> USE TypeSplit DEF At, PCs, SyncPCs, NamedPCs, DeletePCs
<1>0. faults \in Nat /\ wk[w] \in GoodWorkers
  BY Zenon DEF RestOK
<1>1. CASE sync(w)
  <2>1. ~At(w, "idle") /\ wk[w].pc \in SyncPCs /\ wk[w].cr.ref \in Refs
    BY <1>1, Running, Zenon DEF sync, CredentialsRequest
  <2>2. TargetSecret(w) \in Secret \cup {None}
    BY <2>1, Zenon DEF TargetSecret, ReadSecret, RestOK
  <2>3. faults' \in Nat
    BY <1>0, <1>1, FaultType, Zenon DEF sync
  <2>4. CASE Goto(w, "cloudCreds")
    BY <1>1, <2>1, <2>3, <2>4, GotoType, ReadsType, Zenon DEF sync
  <2>5. CASE Fail(w, ProvisionFailure)
    BY <1>1, <2>1, <2>3, <2>5, FailOfType, ReadsType, Zenon DEF sync
  <2>6. CASE Return(w)
    BY <1>1, <2>1, <2>3, <2>6, ReturnType, ReadsType, Zenon DEF sync
  <2>7. CASE /\ Exists(w)
             /\ wk' = [wk EXCEPT ![w].pc = "needsUpdateUser", ![w].existing = TargetSecret(w)]
    <3> DEFINE k == [wk[w] EXCEPT !.pc = "needsUpdateUser", !.existing = TargetSecret(w)]
    <3>1. /\ k \in Worker /\ k.pc = "needsUpdateUser"
          /\ k.req = wk[w].req /\ k.base = wk[w].base /\ k.cr = wk[w].cr
      <4>1. wk[w] \in Worker /\ "needsUpdateUser" \in PCs
        BY <2>1, Running, Zenon
      <4> HIDE DEF PCs
      <4>2. QED
        BY ONLY <2>2, <4>1, Zenon DEF Worker
    <3>2. wk' = [wk EXCEPT ![w] = k]
      BY <2>7, Zenon
    <3>3. UserName(w) # None /\ "needsUpdateUser" \in SyncPCs
      BY <2>7, Zenon DEF Exists
    <3> HIDE DEF k
    <3>4. wk' \in [Workers -> GoodWorkers]
      BY <2>1, <3>1, <3>2, <3>3, SameCall, Zenon
    <3>5. QED
      BY <1>1, <2>3, <3>4, ReadsType, Zenon DEF sync
  <2>8. QED
    BY <1>1, <2>4, <2>5, <2>6, <2>7, Zenon DEF sync
<1>2. CASE needsUpdateUser(w)
  <2>1. ~At(w, "idle") /\ wk[w].pc \in SyncPCs
    BY <1>2, Zenon DEF needsUpdateUser
  <2>2. faults' \in Nat /\ Reads
    BY <1>0, <1>2, FaultType, Zenon DEF needsUpdateUser
  <2>3. UserName(w) # None
    BY <1>2, NamedUser, Zenon DEF needsUpdateUser
  <2>4. \/ Goto(w, "needsUpdateKeys") \/ Goto(w, "cloudCreds") \/ Fail(w, ProvisionFailure)
    BY <1>2, Zenon DEF needsUpdateUser
  <2>5. QED
    BY <2>1, <2>2, <2>3, <2>4, GotoType, FailOfType, ReadsType, Zenon
<1>3. CASE needsUpdateKeys(w)
  <2>1. ~At(w, "idle") /\ wk[w].pc \in SyncPCs
    BY <1>3, Zenon DEF needsUpdateKeys
  <2>2. faults' \in Nat /\ Reads
    BY <1>0, <1>3, FaultType, Zenon DEF needsUpdateKeys
  <2>3. UserName(w) # None
    BY <1>3, NamedUser, Zenon DEF needsUpdateKeys
  <2>4. \/ Goto(w, "needsUpdatePolicy") \/ Goto(w, "cloudCreds") \/ Fail(w, ProvisionFailure)
    BY <1>3, Zenon DEF needsUpdateKeys
  <2>5. QED
    BY <2>1, <2>2, <2>3, <2>4, GotoType, FailOfType, ReadsType, Zenon
<1>4. CASE needsUpdatePolicy(w)
  <2>1. ~At(w, "idle") /\ wk[w].pc \in SyncPCs
    BY <1>4, Zenon DEF needsUpdatePolicy
  <2>2. faults' \in Nat /\ Reads
    BY <1>0, <1>4, FaultType, Zenon DEF needsUpdatePolicy
  <2>3. Succeed(w) \/ Goto(w, "cloudCreds")
    BY <1>4, Zenon DEF needsUpdatePolicy
  <2>4. QED
    BY <2>1, <2>2, <2>3, GotoType, SucceedType, ReadsType, Zenon
<1>5. CASE cloudCreds(w)
  <2>1. ~At(w, "idle") /\ wk[w].pc \in SyncPCs /\ wk[w].cr.ref \in Refs
    BY <1>5, Running, Zenon DEF cloudCreds, CredentialsRequest
  <2>2. TargetSecret(w) \in Secret \cup {None}
    BY <2>1 DEF TargetSecret, ReadSecret, RestOK
  <2>3. faults' \in Nat /\ Reads
    BY <1>0, <1>5, Zenon DEF cloudCreds
  <2>4. CASE Fail(w, ProvisionFailure) \/ Fail(w, Insufficient)
    BY <2>1, <2>3, <2>4, FailOfType, ReadsType, Zenon
  <2>5. CASE Goto(w, "userName")
    BY <2>1, <2>3, <2>5, GotoType, ReadsType, Zenon
  <2>6. ASSUME NEW key \in {RootKey, EmptyKey},
               wk' = [wk EXCEPT ![w].pc = "syncAccessKeySecret",
                                ![w].existing = TargetSecret(w),
                                ![w].newKey = key]
        PROVE  TypeInv'
    <3> DEFINE k == [wk[w] EXCEPT !.pc = "syncAccessKeySecret",
                                  !.existing = TargetSecret(w), !.newKey = key]
    <3>1. /\ k \in Worker /\ k.pc = "syncAccessKeySecret"
          /\ k.req = wk[w].req /\ k.base = wk[w].base /\ k.cr = wk[w].cr
      <4>1. wk[w] \in Worker /\ "syncAccessKeySecret" \in PCs
        BY <2>1, Running, Zenon
      <4> HIDE DEF PCs
      <4>2. QED
        BY ONLY <2>2, <2>6, <4>1, Zenon DEF Worker
    <3>2. wk' = [wk EXCEPT ![w] = k]
      BY <2>6, Zenon
    <3> HIDE DEF k
    <3>3. wk' \in [Workers -> GoodWorkers]
      BY <2>1, <3>1, <3>2, SameCall, Zenon
    <3>4. QED
      BY <2>3, <3>3, ReadsType, Zenon
  <2>7. CASE Succeed(w)
    BY <2>1, <2>3, <2>7, SucceedType, ReadsType, Zenon
  <2>8. QED
    BY <1>5, <2>4, <2>5, <2>6, <2>7, Zenon DEF cloudCreds
<1>6. CASE GetUser(w)
  <2>1. ~At(w, "idle") /\ wk[w].pc \in SyncPCs /\ UserName(w) # None
    BY <1>6, NamedUser, Zenon DEF GetUser
  <2>2. faults' \in Nat /\ Reads
    BY <1>0, <1>6, FaultType, Zenon DEF GetUser
  <2>3. CASE Fail(w, ProvisionFailure)
    BY <2>1, <2>2, <2>3, FailOfType, ReadsType, Zenon
  <2>4. ASSUME NEW label \in {"CreateUser", "PutUserPolicy", "TagUser"},
               wk' = [wk EXCEPT ![w].rootClient = RootClient, ![w].pc = label]
        PROVE  TypeInv'
    <3> DEFINE k == [wk[w] EXCEPT !.rootClient = RootClient, !.pc = label]
    <3>0. RootClient \in BOOLEAN /\ label \in PCs
      BY Zenon DEF RootClient
    <3>1. /\ k \in Worker /\ k.pc = label
          /\ k.req = wk[w].req /\ k.base = wk[w].base /\ k.cr = wk[w].cr
      <4> HIDE DEF PCs
      <4>1. wk[w] \in Worker
        BY <2>1, Running, Zenon
      <4>2. QED
        BY <3>0, <4>1, Zenon DEF Worker
    <3>2. wk' = [wk EXCEPT ![w] = k]
      BY <2>4, Zenon
    <3> HIDE DEF k
    <3>3. wk' \in [Workers -> GoodWorkers]
      BY <2>1, <3>1, <3>2, SameCall, Zenon
    <3>4. QED
      BY <2>2, <3>3, ReadsType, Zenon
  <2>5. QED
    BY <1>6, <2>3, <2>4, Zenon DEF GetUser
<1>7. CASE ListAccessKeys(w)
  <2>1. /\ ~At(w, "idle") /\ wk[w].pc \in SyncPCs /\ UserName(w) # None
        /\ wk[w].cr.ref \in Refs /\ TheUser(w) \in User \cup {None}
    BY <1>7, NamedUser, Running, Zenon DEF ListAccessKeys, CredentialsRequest
  <2>2. TargetSecret(w) \in Secret \cup {None}
    BY <2>1, Zenon DEF TargetSecret, ReadSecret, RestOK
  <2>3. faults' \in Nat /\ Reads
    BY <1>0, <1>7, FaultType, Zenon DEF ListAccessKeys
  <2>4. CASE Fail(w, ProvisionFailure)
    BY <2>1, <2>3, <2>4, FailOfType, ReadsType, Zenon
  <2>5. ASSUME NEW label \in {"syncAccessKeySecret", "rotateAccessKeys"}, UserExists(w),
               wk' = [wk EXCEPT ![w].pc = label, ![w].existing = TargetSecret(w),
                                ![w].keyList = TheUser(w).keys]
        PROVE  TypeInv'
    <3> DEFINE k == [wk[w] EXCEPT !.pc = label, !.existing = TargetSecret(w),
                                  !.keyList = TheUser(w).keys]
    <3>1. TheUser(w).keys \in SUBSET Keys /\ label \in PCs
      BY <2>1, <2>5, Zenon DEF User, UserExists
    <3>2. /\ k \in Worker /\ k.pc = label
          /\ k.req = wk[w].req /\ k.base = wk[w].base /\ k.cr = wk[w].cr
      <4> HIDE DEF PCs
      <4>1. wk[w] \in Worker
        BY <2>1, Running, Zenon
      <4>2. QED
        BY <2>2, <3>1, <4>1, Zenon DEF Worker
    <3>3. wk' = [wk EXCEPT ![w] = k]
      BY <2>5, Zenon
    <3> HIDE DEF k
    <3>4. wk' \in [Workers -> GoodWorkers]
      BY <2>1, <3>2, <3>3, SameCall, Zenon
    <3>5. QED
      BY <2>3, <3>4, ReadsType, Zenon
  <2>6. QED
    BY <1>7, <2>4, <2>5, Zenon DEF ListAccessKeys
<1>8. CASE DeleteListAccessKeys(w)
  <2>1. /\ ~At(w, "idle") /\ wk[w].pc \in DeletePCs /\ UserName(w) # None
        /\ TheUser(w) \in User \cup {None}
    BY <1>8, NamedUser, Zenon DEF DeleteListAccessKeys
  <2>2. faults' \in Nat /\ Reads
    BY <1>0, <1>8, FaultType, Zenon DEF DeleteListAccessKeys
  <2>3. CASE DeprovisionFail(w)
    BY <2>1, <2>2, <2>3, DeprovisionFailType, ReadsType, Zenon
  <2>4. CASE Goto(w, "clearDeprovisionFailure")
    BY <2>1, <2>2, <2>4, GotoType, ReadsType, Zenon
  <2>5. CASE /\ UserExists(w)
             /\ wk' = [wk EXCEPT ![w].pc = "DeleteAccessKeys", ![w].keyList = TheUser(w).keys]
    <3> DEFINE k == [wk[w] EXCEPT !.pc = "DeleteAccessKeys", !.keyList = TheUser(w).keys]
    <3>1. TheUser(w).keys \in SUBSET Keys
      BY <2>1, <2>5, Zenon DEF User, UserExists
    <3>2. /\ k \in Worker /\ k.pc = "DeleteAccessKeys"
          /\ k.req = wk[w].req /\ k.base = wk[w].base /\ k.cr = wk[w].cr
      <4>1. wk[w] \in Worker /\ "DeleteAccessKeys" \in PCs
        BY <2>1, Running, Zenon
      <4> HIDE DEF PCs
      <4>2. QED
        BY ONLY <3>1, <4>1, Zenon DEF Worker
    <3>3. wk' = [wk EXCEPT ![w] = k]
      BY <2>5, Zenon
    <3> HIDE DEF k
    <3>4. wk' \in [Workers -> GoodWorkers]
      BY <2>1, <3>2, <3>3, SameCall, ZenonT(30)
    <3>5. QED
      BY <2>2, <3>4, ReadsType
  <2>6. QED
    BY <1>8, <2>3, <2>4, <2>5, Zenon DEF DeleteListAccessKeys
<1>9. QED
  BY <1>1, <1>2, <1>3, <1>4, <1>5, <1>6, <1>7, <1>8, Zenon

(* A call creates keys that nothing mentions, and goes on with one of them *)
(* or fails.                                                               *)
Creates(w, new, k) ==
    /\ k \in new /\ new \subseteq Keys
    /\ \A j \in new : FreshKey(j)
    /\ UserExists(w)
    /\ iam' = [iam EXCEPT ![UserName(w)].keys = @ \cup new]
    /\ \/ Fail(w, ProvisionFailure)
       \/ wk' = [wk EXCEPT ![w].pc = "syncAccessKeySecret", ![w].newKey = k]

(* What createAccessKey does, with or without a retry of the SDK.          *)
LEMMA CreatesKeys ==
    ASSUME NEW w, CreateAccessKey(w)
    PROVE  \/ UNCHANGED iam /\ Fail(w, ProvisionFailure)
           \/ \E new, k : Creates(w, new, k)
<1>1. PICK k \in Keys :
        /\ FreshKey(k)
        /\ \/ UNCHANGED iam /\ Fail(w, ProvisionFailure)
           \/ /\ UserExists(w)
              /\ iam' = [iam EXCEPT ![UserName(w)].keys = @ \cup {k}]
              /\ \/ Fail(w, ProvisionFailure)
                 \/ wk' = [wk EXCEPT ![w].pc = "syncAccessKeySecret", ![w].newKey = k]
           \/ \E first \in Keys :
                /\ FreshKey(first) /\ UserExists(w)
                /\ iam' = [iam EXCEPT ![UserName(w)].keys = @ \cup {first, k}]
                /\ wk' = [wk EXCEPT ![w].pc = "syncAccessKeySecret", ![w].newKey = k]
  BY Zenon DEF CreateAccessKey, Call
<1>2. ASSUME UserExists(w), iam' = [iam EXCEPT ![UserName(w)].keys = @ \cup {k}],
             \/ Fail(w, ProvisionFailure)
             \/ wk' = [wk EXCEPT ![w].pc = "syncAccessKeySecret", ![w].newKey = k]
      PROVE  Creates(w, {k}, k)
  BY <1>1, <1>2, Zenon DEF Creates
<1>3. ASSUME NEW first \in Keys, FreshKey(first), UserExists(w),
             iam' = [iam EXCEPT ![UserName(w)].keys = @ \cup {first, k}],
             wk' = [wk EXCEPT ![w].pc = "syncAccessKeySecret", ![w].newKey = k]
      PROVE  Creates(w, {first, k}, k)
  BY <1>1, <1>3, Zenon DEF Creates
<1>4. QED
  BY <1>1, <1>2, <1>3, Zenon

(* Every step of sync that changes the IAM user keeps the types.           *)
LEMMA MintStepsType ==
    ASSUME TypeInv, NEW w \in Workers,
           \/ CreateUser(w) \/ TagUser(w) \/ PutUserPolicy(w) \/ rotateAccessKeys(w)
           \/ CreateAccessKey(w)
    PROVE  TypeInv'
<1> USE DEF At, PCs, PanicPCs, SyncPCs, NamedPCs, DeletePCs
<1> DEFINE u == UserName(w)
<1>1. /\ ~At(w, "idle") /\ wk[w].pc \in SyncPCs \cap NamedPCs
      /\ NoAPIWrite
  BY Zenon DEF CreateUser, TagUser, PutUserPolicy, rotateAccessKeys, CreateAccessKey
<1>2. u \in Users /\ u # None /\ TheUser(w) \in User \cup {None} /\ TheUser(w) = iam[u]
  BY <1>1, NamedUser, Zenon DEF TheUser
<1>3. faults \in Nat /\ iam \in [Users -> User \cup {None}] /\ wk \in [Workers -> GoodWorkers]
  BY TypeSplit, Zenon DEF RestOK
<1>4. wk[w] \in Worker /\ wk[w].cr.policy \in Policies /\ wk[w].keyList \in SUBSET Keys
  BY <1>1, Running, Zenon DEF CredentialsRequest, Worker
<1> HIDE DEF u
<1>5. CASE CreateUser(w)
  <2>1. faults' \in Nat
    BY <1>3, <1>5, FaultType, Zenon DEF CreateUser
  <2>2. iam' \in [Users -> User \cup {None}]
    <3>1. iam' = iam \/ iam' = [iam EXCEPT ![u] = User0]
      BY <1>5, Zenon DEF CreateUser, u
    <3>2. User0 \in User
      BY Zenon DEF User0, User
    <3>3. QED
      BY <1>2, <1>3, <3>1, <3>2, Zenon
  <2>3. Goto(w, "TagUser") \/ Goto(w, "panicNilUser") \/ Fail(w, ProvisionFailure)
    BY <1>5, Zenon DEF CreateUser
  <2>4. QED
    BY <1>1, <1>2, <2>1, <2>2, <2>3, GotoType, FailOfType, IAMType, Zenon DEF u
<1>6. CASE TagUser(w)
  <2>1. faults' \in Nat
    BY <1>3, <1>6, FaultType, Zenon DEF TagUser, Call
  <2>2. iam' = iam \/ (UserExists(w) /\ iam' = [iam EXCEPT ![u].tagged = TRUE])
    BY <1>6, Zenon DEF TagUser, Call, u
  <2>3. UserExists(w) => [iam[u] EXCEPT !.tagged = TRUE] \in User
    BY <1>2, Zenon DEF UserExists, User
  <2>4. iam' \in [Users -> User \cup {None}]
    BY <1>2, <1>3, <2>2, <2>3, Zenon
  <2>5. Goto(w, "PutUserPolicy") \/ Fail(w, ProvisionFailure)
    BY <1>6, Zenon DEF TagUser, Call
  <2>6. QED
    BY <1>1, <1>2, <2>1, <2>4, <2>5, GotoType, FailOfType, IAMType, Zenon DEF u
<1>7. CASE PutUserPolicy(w)
  <2>1. faults' \in Nat
    BY <1>3, <1>7, FaultType, Zenon DEF PutUserPolicy, Call
  <2>2. iam' = iam \/ (UserExists(w) /\ iam' = [iam EXCEPT ![u].policy = wk[w].cr.policy])
    BY <1>7, Zenon DEF PutUserPolicy, setUserPolicy, getDesiredUserPolicy, Call, u
  <2>3. UserExists(w) => [iam[u] EXCEPT !.policy = wk[w].cr.policy] \in User
    BY <1>2, <1>4, Zenon DEF UserExists, User
  <2>4. iam' \in [Users -> User \cup {None}]
    BY <1>2, <1>3, <2>2, <2>3, Zenon
  <2>5. Goto(w, "ListAccessKeys") \/ Fail(w, ProvisionFailure)
    BY <1>7, Zenon DEF PutUserPolicy, Call
  <2>6. QED
    BY <1>1, <1>2, <2>1, <2>4, <2>5, GotoType, FailOfType, IAMType, Zenon DEF u
<1>8. CASE rotateAccessKeys(w)
  <2>1. CASE wk[w].keyList = {} /\ Goto(w, "CreateAccessKey") /\ UNCHANGED <<iam, faults>>
    BY <1>1, <1>2, <1>3, <2>1, GotoType, IAMType, Zenon DEF u
  <2>2. CASE \E k \in wk[w].keyList : deleteAccessKey(w, k, Fail(w, ProvisionFailure))
    <3>1. PICK k \in wk[w].keyList : deleteAccessKey(w, k, Fail(w, ProvisionFailure))
      BY <2>2, Zenon
    <3>2. faults' \in Nat
      BY <1>3, <3>1, FaultType, Zenon DEF deleteAccessKey, Call
    <3>3. iam' = iam \/ (UserExists(w) /\ iam' = [iam EXCEPT ![u].keys = @ \ {k}])
      BY <3>1, Zenon DEF deleteAccessKey, Call, u
    <3>4. UserExists(w) => [iam[u] EXCEPT !.keys = @ \ {k}] \in User
      BY <1>2, Zenon DEF UserExists, User
    <3>5. iam' \in [Users -> User \cup {None}]
      BY <1>2, <1>3, <3>3, <3>4, Zenon
    <3>6. \/ Fail(w, ProvisionFailure)
          \/ wk' = [wk EXCEPT ![w].keyList = @ \ {k}]
      BY <3>1, Zenon DEF deleteAccessKey, Call
    <3>7. ASSUME wk' = [wk EXCEPT ![w].keyList = @ \ {k}]
          PROVE  wk' \in [Workers -> GoodWorkers]
      <4> DEFINE x == [wk[w] EXCEPT !.keyList = @ \ {k}]
      <4>1. /\ x \in Worker /\ x.pc = wk[w].pc
            /\ x.req = wk[w].req /\ x.base = wk[w].base /\ x.cr = wk[w].cr
        <5> HIDE DEF PCs
        <5>1. QED
          BY <1>4, Zenon DEF Worker
      <4>2. wk' = [wk EXCEPT ![w] = x]
        BY <3>7, Zenon
      <4> HIDE DEF x
      <4>3. QED
        BY <1>1, <1>2, <4>1, <4>2, SameCall, Zenon DEF u
    <3>8. QED
      BY <1>1, <3>2, <3>5, <3>6, <3>7, FailOfType, IAMType, Zenon
  <2>3. QED
    BY <1>8, <2>1, <2>2, Zenon DEF rotateAccessKeys
<1>9. CASE CreateAccessKey(w)
  <2>1. UNCHANGED iam \/ \E new, k : Creates(w, new, k)
    BY <1>9, CreatesKeys, Zenon
  <2>2. faults' \in Nat
    BY <1>3, <1>9, FaultType, Zenon DEF CreateAccessKey, Call
  <2>3. ASSUME NEW new, NEW k, Creates(w, new, k)
        PROVE  iam' \in [Users -> User \cup {None}] /\ k \in Keys
    <3>1. /\ new \subseteq Keys /\ k \in new /\ UserExists(w)
          /\ iam' = [iam EXCEPT ![u].keys = @ \cup new]
      BY <2>3, Zenon DEF Creates, u
    <3>2. [iam[u] EXCEPT !.keys = @ \cup new] \in User
      BY <1>2, <3>1, Zenon DEF UserExists, User
    <3>3. QED
      BY <1>2, <1>3, <3>1, <3>2, Zenon
  <2>4. iam' \in [Users -> User \cup {None}]
    BY <1>3, <2>1, <2>3, Zenon
  <2>5. \/ Fail(w, ProvisionFailure)
        \/ \E k \in Keys : wk' = [wk EXCEPT ![w].pc = "syncAccessKeySecret", ![w].newKey = k]
    BY <1>9, <2>3, CreatesKeys, Zenon DEF Creates
  <2>6. ASSUME NEW k \in Keys, wk' = [wk EXCEPT ![w].pc = "syncAccessKeySecret", ![w].newKey = k]
        PROVE  wk' \in [Workers -> GoodWorkers]
    <3> DEFINE x == [wk[w] EXCEPT !.pc = "syncAccessKeySecret", !.newKey = k]
    <3>1. /\ x \in Worker /\ x.pc = "syncAccessKeySecret"
          /\ x.req = wk[w].req /\ x.base = wk[w].base /\ x.cr = wk[w].cr
      <4>1. "syncAccessKeySecret" \in PCs
        BY Zenon
      <4> HIDE DEF PCs
      <4>2. QED
        BY <1>4, <2>6, <4>1, Zenon DEF Worker
    <3>2. wk' = [wk EXCEPT ![w] = x]
      BY <2>6, Zenon
    <3> HIDE DEF x
    <3>3. QED
      BY <1>1, <3>1, <3>2, SameCall, Zenon
  <2>7. QED
    BY <1>1, <2>2, <2>4, <2>5, <2>6, FailOfType, IAMType, Zenon
<1>10. QED
  BY <1>5, <1>6, <1>7, <1>8, <1>9, Zenon

(* Every step of Actuator.Delete that changes the IAM user keeps the       *)
(* types.                                                                  *)
LEMMA DeleteStepsType ==
    ASSUME TypeInv, NEW w \in Workers, DeleteUserPolicy(w) \/ DeleteAccessKeys(w) \/ DeleteUser(w)
    PROVE  TypeInv'
<1> USE DEF At, PCs, PanicPCs, SyncPCs, NamedPCs, DeletePCs
<1> DEFINE u == UserName(w)
<1>1. ~At(w, "idle") /\ wk[w].pc \in DeletePCs /\ NoAPIWrite
  BY Zenon DEF DeleteUserPolicy, DeleteAccessKeys, DeleteUser
<1>2. /\ u \in Users \cup {None}
      /\ u \in Users => TheUser(w) \in User \cup {None} /\ TheUser(w) = iam[u]
      /\ wk[w].pc \in NamedPCs => u \in Users
  BY <1>1, NamedUser, Running, TypeSplit, Zenon DEF TheUser, Status, UserName, RestOK
<1>3. faults \in Nat /\ iam \in [Users -> User \cup {None}] /\ wk \in [Workers -> GoodWorkers]
  BY TypeSplit, Zenon DEF RestOK
<1>4. wk[w] \in Worker /\ wk[w].keyList \in SUBSET Keys
  BY <1>1, Running, Zenon DEF Worker
<1>5. None \notin Users /\ None \notin User
  BY DistinctAssumption, Zenon
<1> HIDE DEF u
<1>6. CASE DeleteUserPolicy(w)
  <2>1. faults' \in Nat
    BY <1>3, <1>6, FaultType, Zenon DEF DeleteUserPolicy, Call
  <2>2. \/ iam' = iam
        \/ /\ u # None
           /\ iam' = [iam EXCEPT ![u] = IF @ = None THEN @ ELSE [@ EXCEPT !.policy = None]]
    BY <1>6, Zenon DEF DeleteUserPolicy, Call, u
  <2>3. u \in Users /\ iam[u] # None => [iam[u] EXCEPT !.policy = None] \in User
    BY <1>2, Zenon DEF User
  <2>4. iam' \in [Users -> User \cup {None}]
    BY <1>2, <1>3, <2>2, <2>3, Zenon
  <2>5. \/ Goto(w, "clearDeprovisionFailure") \/ DeprovisionFail(w)
        \/ (u # None /\ Goto(w, "DeleteListAccessKeys"))
    BY <1>6, Zenon DEF DeleteUserPolicy, Call, u
  <2>6. QED
    BY <1>1, <2>1, <2>4, <2>5, GotoType, DeprovisionFailType, IAMType, Zenon DEF u
<1>7. CASE DeleteAccessKeys(w)
  <2>0. u \in Users /\ u # None
    BY <1>2, <1>5, <1>7, Zenon DEF DeleteAccessKeys
  <2>1. CASE wk[w].keyList = {} /\ Goto(w, "DeleteUser") /\ UNCHANGED <<iam, faults>>
    BY <1>1, <1>3, <2>0, <2>1, GotoType, IAMType, Zenon DEF u
  <2>2. CASE \E k \in wk[w].keyList : deleteAccessKey(w, k, DeprovisionFail(w))
    <3>1. PICK k \in wk[w].keyList : deleteAccessKey(w, k, DeprovisionFail(w))
      BY <2>2, Zenon
    <3>2. faults' \in Nat
      BY <1>3, <3>1, FaultType, Zenon DEF deleteAccessKey, Call
    <3>3. iam' = iam \/ (UserExists(w) /\ iam' = [iam EXCEPT ![u].keys = @ \ {k}])
      BY <3>1, Zenon DEF deleteAccessKey, Call, u
    <3>4. UserExists(w) => [iam[u] EXCEPT !.keys = @ \ {k}] \in User
      BY <1>2, <2>0, Zenon DEF UserExists, User
    <3>5. iam' \in [Users -> User \cup {None}]
      BY <1>3, <2>0, <3>3, <3>4, Zenon
    <3>6. DeprovisionFail(w) \/ wk' = [wk EXCEPT ![w].keyList = @ \ {k}]
      BY <3>1, Zenon DEF deleteAccessKey, Call
    <3>7. ASSUME wk' = [wk EXCEPT ![w].keyList = @ \ {k}]
          PROVE  wk' \in [Workers -> GoodWorkers]
      <4> DEFINE x == [wk[w] EXCEPT !.keyList = @ \ {k}]
      <4>1. /\ x \in Worker /\ x.pc = wk[w].pc
            /\ x.req = wk[w].req /\ x.base = wk[w].base /\ x.cr = wk[w].cr
        <5> HIDE DEF PCs
        <5>1. QED
          BY <1>4, Zenon DEF Worker
      <4>2. wk' = [wk EXCEPT ![w] = x]
        BY <3>7, Zenon
      <4> HIDE DEF x
      <4>3. QED
        BY <1>1, <2>0, <4>1, <4>2, SameCall, ZenonT(30) DEF u
    <3>8. QED
      BY <1>1, <3>2, <3>5, <3>6, <3>7, DeprovisionFailType, IAMType, Zenon
  <2>3. QED
    BY <1>7, <2>1, <2>2, Zenon DEF DeleteAccessKeys
<1>8. CASE DeleteUser(w)
  <2>1. faults' \in Nat
    BY <1>3, <1>8, FaultType, Zenon DEF DeleteUser, Call
  <2>2. iam' = iam \/ iam' = [iam EXCEPT ![u] = None]
    BY <1>8, Zenon DEF DeleteUser, Call, u
  <2>3. iam' \in [Users -> User \cup {None}]
    BY <1>3, <2>2, Zenon
  <2>4. Goto(w, "clearDeprovisionFailure") \/ DeprovisionFail(w)
    BY <1>8, Zenon DEF DeleteUser, Call
  <2>5. QED
    BY <1>1, <2>1, <2>3, <2>4, GotoType, DeprovisionFailType, IAMType, Zenon
<1>9. QED
  BY <1>6, <1>7, <1>8, Zenon

(* The step of a Reconcile call that writes the request.                   *)
LEMMA StoreType ==
    ASSUME TypeInv, NEW w \in Workers, ~At(w, "idle"),
           UNCHANGED <<secrets, namespaces, root, iam, now, cacheVars>>,
           NEW object \in CredentialsRequest \cup {None},
           UNCHANGED crs \/ Store(w, object),
           faults' \in Nat, wk' \in [Workers -> GoodWorkers]
    PROVE  TypeInv'
<1>1. crs' \in [CRs -> CredentialsRequest \cup {None}]
  BY Running, TypeSplit, Zenon DEF RestOK, Store
<1>2. RestOK'
  BY <1>1, TypeSplit, Zenon DEF RestOK, cacheVars
<1>3. QED
  BY <1>2, TypeSplitPrime, Zenon

(* Drawing and saving the name of the user keeps the types.                *)
LEMMA userNameType ==
    ASSUME TypeInv, NEW w \in Workers, userName(w)
    PROVE  TypeInv'
<1> USE DEF At, PCs, SyncPCs, NamedPCs, DeletePCs
<1>1. /\ ~At(w, "idle") /\ wk[w].pc = "userName"
      /\ UNCHANGED <<secrets, namespaces, root, iam, now, cacheVars>>
  BY Zenon DEF userName
<1>2. faults \in Nat /\ wk \in [Workers -> GoodWorkers] /\ wk[w] \in Worker
  BY <1>1, TypeSplit, Running, Zenon DEF RestOK
<1>3. CASE UserName(w) # None /\ Goto(w, "GetUser") /\ UNCHANGED <<crs, faults>>
  BY <1>1, <1>2, <1>3, Running, GotoType, StoreType, Zenon
<1>4. CASE UserName(w) = None /\ updateProviderStatus(w)
  <2> DEFINE named(u) == [wk[w].cr EXCEPT !.status.user = u]
             stored(u) == [wk[w].base EXCEPT !.status = named(u).status]
  <2>1. PICK u \in Users :
          Call(NoConflict(w), Store(w, stored(u)), UNCHANGED crs,
               wk' = [wk EXCEPT ![w].cr = named(u), ![w].base = stored(u), ![w].pc = "GetUser"],
               Finish(w, FailedStatus(named(u).status, ProvisionFailure)))
    BY <1>4, Zenon DEF updateProviderStatus
  <2>2. /\ named(u) \in CredentialsRequest /\ named(u).status \in Status
        /\ named(u).status.user = u
    <3>1. wk[w].cr \in CredentialsRequest /\ wk[w].cr.status \in Status
      BY <1>1, Running, Zenon
    <3>2. [wk[w].cr.status EXCEPT !.user = u] \in Status
      BY <3>1, Zenon DEF Status
    <3>3. QED
      BY <3>1, <3>2, Zenon DEF CredentialsRequest, Status
  <2> HIDE DEF named
  <2>3. /\ stored(u) \in CredentialsRequest /\ stored(u).status = named(u).status
        /\ stored(u).finalizer = wk[w].base.finalizer
        /\ stored(u).deleting = wk[w].base.deleting
    BY <1>1, <2>2, Running, Zenon DEF CredentialsRequest
  <2> HIDE DEF stored
  <2>4. wk[w].base.finalizer /\ ~wk[w].base.deleting /\ wk[w].base.status.user = None
    <3>1. wk[w] \in GoodWorkers /\ wk[w].base.status.user \in {None, wk[w].cr.status.user}
      BY <1>1, <1>2, Running, Zenon
    <3>2. QED
      BY <1>1, <1>4, <3>1, Zenon DEF GoodWorkers, UserName
  <2>5. faults' \in Nat
    BY <1>2, <2>1, FaultType, Zenon DEF Call
  <2>6. UNCHANGED crs \/ Store(w, stored(u))
    BY <2>1, Zenon DEF Call
  <2>7. CASE Finish(w, FailedStatus(named(u).status, ProvisionFailure))
    BY <1>1, <2>2, <2>3, <2>4, <2>5, <2>6, <2>7, FailType, StoreType, Zenon
  <2>8. CASE wk' = [wk EXCEPT ![w].cr = named(u), ![w].base = stored(u), ![w].pc = "GetUser"]
    <3> DEFINE x == [wk[w] EXCEPT !.cr = named(u), !.base = stored(u), !.pc = "GetUser"]
    <3>1. /\ x \in Worker /\ x.pc = "GetUser" /\ x.req = wk[w].req
          /\ x.base = stored(u) /\ x.cr = named(u)
      <4>1. "GetUser" \in PCs
        BY Zenon
      <4> HIDE DEF PCs
      <4>2. QED
        BY <1>2, <2>2, <2>3, <4>1, Zenon DEF Worker
    <3>2. wk' = [wk EXCEPT ![w] = x]
      BY <2>8, ZenonT(30)
    <3> HIDE DEF x
    <3>3. x.req \in CRs /\ u # None
      BY <1>1, <3>1, Running, DistinctAssumption, Zenon
    <3>4. x \in GoodWorkers
      BY <2>2, <2>3, <2>4, <3>1, <3>3, ZenonT(30) DEF GoodWorkers
    <3>5. QED
      BY <1>1, <1>2, <2>3, <2>5, <2>6, <3>2, <3>4, LocalStep, StoreType, Zenon
  <2>9. QED
    BY <2>1, <2>7, <2>8, Zenon DEF Call
<1>5. QED
  BY <1>3, <1>4, Zenon DEF userName

(* The step of a Reconcile call that writes a secret.                      *)
LEMMA SecretType ==
    ASSUME TypeInv, UNCHANGED <<crs, namespaces, root, iam, now, cacheVars>>,
           NEW r \in Refs, NEW s \in Secret \cup {None},
           UNCHANGED secrets \/ secrets' = [secrets EXCEPT ![r] = s],
           faults' \in Nat, wk' \in [Workers -> GoodWorkers]
    PROVE  TypeInv'
<1>1. secrets' \in [Refs -> Secret \cup {None}]
  BY TypeSplit, Zenon DEF RestOK
<1>2. RestOK'
  BY <1>1, TypeSplit, Zenon DEF RestOK, cacheVars
<1>3. QED
  BY <1>2, TypeSplitPrime, Zenon

(* Writing the target secret keeps the types.                              *)
LEMMA syncAccessKeySecretType ==
    ASSUME TypeInv, NEW w \in Workers, syncAccessKeySecret(w)
    PROVE  TypeInv'
<1> DEFINE r == wk[w].cr.ref
           old == wk[w].existing
           key == IF KeyGiven(w) THEN wk[w].newKey ELSE old.key
           new == SecretWith(w, key)
           made == SecretWith(w, wk[w].newKey)
<1>1. /\ ~At(w, "idle") /\ wk[w].pc = "syncAccessKeySecret"
      /\ UNCHANGED <<crs, namespaces, root, iam, now, cacheVars>>
  BY Zenon DEF syncAccessKeySecret, At
<1>2. /\ faults \in Nat /\ r \in Refs /\ wk[w].req \in CRs /\ wk[w].cr.policy \in Policies
      /\ old \in Secret \cup {None} /\ wk[w].newKey \in Keys \cup {None, RootKey, EmptyKey}
  BY <1>1, TypeSplit, Running, Zenon DEF RestOK, CredentialsRequest, Worker
<1>3. (KeyGiven(w) => made \in Secret) /\ (old # None => new \in Secret)
  BY <1>2, Zenon DEF SecretWith, Secret, KeyGiven
<1> HIDE DEF new, made
<1>4. faults' \in Nat
  BY <1>2, FaultType, ZenonT(30) DEF syncAccessKeySecret, createSecret, updateSecret, Call
<1>5. \/ UNCHANGED secrets
      \/ (KeyGiven(w) /\ secrets' = [secrets EXCEPT ![r] = made])
      \/ (old # None /\ secrets' = [secrets EXCEPT ![r] = new])
  BY ZenonT(30) DEF syncAccessKeySecret, createSecret, updateSecret, Call, made, new
<1>6. Succeed(w) \/ Fail(w, ProvisionFailure) \/ Goto(w, "panicNilData")
  BY ZenonT(30) DEF syncAccessKeySecret, createSecret, updateSecret, Call
<1>7. wk' \in [Workers -> GoodWorkers]
  BY <1>1, <1>6, SucceedType, FailOfType, GotoType, Zenon
     DEF PCs, PanicPCs, SyncPCs, NamedPCs, DeletePCs
<1>8. QED
  BY <1>1, <1>2, <1>3, <1>4, <1>5, <1>7, SecretType, Zenon

(* Starting a Reconcile call keeps the types.                              *)
LEMMA ReconcileType ==
    ASSUME TypeInv, NEW w \in Workers, NEW c \in CRs, Reconcile(w, c)
    PROVE  TypeInv'
<1> DEFINE cr == crCache[w][c]
           pc == IF cr.deleting THEN "DeleteUserPolicy"
                 ELSE IF cr.finalizer THEN "namespace" ELSE "addDeprovisionFinalizer"
           k == Locals(pc, c, cr, cr)
<1>1. cr \in CredentialsRequest /\ Reads /\ faults' \in Nat
  BY TypeSplit, Zenon DEF Reconcile, RestOK
<1>2. wk' = [wk EXCEPT ![w] = k]
  BY Zenon DEF Reconcile
<1>3. pc \in PCs
  BY Zenon DEF PCs, SyncPCs, DeletePCs
<1>4. k \in Worker
  BY <1>1, <1>3, Zenon DEF Worker, Locals
<1>5. k \in GoodWorkers
  BY <1>1, <1>4, Zenon DEF GoodWorkers, Locals, NamedPCs, SyncPCs, DeletePCs, CredentialsRequest
<1>6. QED
  BY <1>1, <1>2, <1>5, TypeSplit, LocalStep, ReadsType, Zenon

(* The steps of Reconcile that read the namespace or save the request keep *)
(* the types.                                                              *)
LEMMA ReconcileStepsType ==
    ASSUME TypeInv, NEW w \in Workers,
           \/ addDeprovisionFinalizer(w) \/ updateStatus(w) \/ removeDeprovisionFinalizer(w)
           \/ deleteTargetSecret(w)
    PROVE  TypeInv'
<1> USE DEF At
<1>1. ~At(w, "idle")
  BY Zenon DEF addDeprovisionFinalizer, updateStatus, removeDeprovisionFinalizer, deleteTargetSecret
<1>2. /\ faults \in Nat /\ wk[w].base \in CredentialsRequest /\ wk[w].cr.status \in Status
      /\ wk[w].cr.ref \in Refs
  BY <1>1, TypeSplit, Running, Zenon DEF RestOK, CredentialsRequest
<1>3. CASE addDeprovisionFinalizer(w)
  <2> DEFINE o == [wk[w].base EXCEPT !.finalizer = TRUE]
  <2>1. o \in CredentialsRequest
    BY <1>2, ZenonT(30) DEF CredentialsRequest
  <2>2. faults' \in Nat /\ Return(w) /\ (UNCHANGED crs \/ Store(w, o))
    BY <1>2, <1>3, FaultType, Zenon DEF addDeprovisionFinalizer, Call
  <2> HIDE DEF o
  <2>3. QED
    BY <1>1, <1>3, <2>1, <2>2, ReturnType, StoreType, Zenon DEF addDeprovisionFinalizer
<1>4. CASE updateStatus(w)
  <2>1. WithStatus(w) \in CredentialsRequest
    BY <1>2, Zenon DEF CredentialsRequest, WithStatus
  <2>2. faults' \in Nat /\ Return(w) /\ (UNCHANGED crs \/ Store(w, WithStatus(w)))
    BY <1>2, <1>4, FaultType, Zenon DEF updateStatus, Call
  <2>3. QED
    BY <1>1, <1>4, <2>1, <2>2, ReturnType, StoreType, Zenon DEF updateStatus
<1>5. CASE removeDeprovisionFinalizer(w)
  <2>1. faults' \in Nat /\ Return(w) /\ (UNCHANGED crs \/ Store(w, None))
    BY <1>2, <1>5, FaultType, Zenon DEF removeDeprovisionFinalizer, Call
  <2>2. QED
    BY <1>1, <1>5, <2>1, ReturnType, StoreType, Zenon DEF removeDeprovisionFinalizer
<1>6. CASE deleteTargetSecret(w)
  <2>1. /\ faults' \in Nat
        /\ UNCHANGED secrets \/ secrets' = [secrets EXCEPT ![wk[w].cr.ref] = None]
        /\ Return(w) \/ Goto(w, "removeDeprovisionFinalizer")
        /\ wk[w].pc \in DeletePCs
    BY <1>2, <1>6, FaultType, ZenonT(30) DEF deleteTargetSecret, Call, DeletePCs
  <2>2. wk' \in [Workers -> GoodWorkers]
    BY <1>1, <2>1, ReturnType, GotoType, Zenon DEF PCs, SyncPCs, NamedPCs, DeletePCs
  <2>3. QED
    BY <1>2, <1>6, <2>1, <2>2, SecretType, ZenonT(30) DEF deleteTargetSecret
<1>7. QED
  BY <1>3, <1>4, <1>5, <1>6, Zenon

(* Setting a condition of the working copy changes nothing else of it.     *)
LEMMA WithCondition ==
    ASSUME NEW cr \in CredentialsRequest, NEW t \in CondTypes, NEW on \in BOOLEAN
    PROVE  LET x == [cr EXCEPT !.status.conds = SetCondition(@, t, on)]
           IN  /\ x \in CredentialsRequest
               /\ x.status = [cr.status EXCEPT !.conds = SetCondition(@, t, on)]
               /\ x.status \in Status /\ x.status.user = cr.status.user
<1>1. cr.status \in Status /\ SetCondition(cr.status.conds, t, on) \in [CondTypes -> CondStatus]
  BY ConditionsType, Zenon DEF CredentialsRequest, Status
<1>2. [cr.status EXCEPT !.conds = SetCondition(@, t, on)] \in Status
  BY <1>1, Zenon DEF Status
<1>3. QED
  BY <1>1, <1>2, Zenon DEF CredentialsRequest, Status

(* Looking for the target namespace keeps the types.                       *)
LEMMA checkNamespaceType ==
    ASSUME TypeInv, NEW w \in Workers, checkNamespace(w)
    PROVE  TypeInv'
<1> USE DEF At, SyncPCs, DeletePCs, NamedPCs
<1> DEFINE found == NamespaceOf[wk[w].cr.ref] \in namespaces
           cr == [wk[w].cr EXCEPT !.status.conds = SetCondition(@, MissingNamespace, ~found)]
<1>1. ~At(w, "idle") /\ wk[w].pc = "namespace" /\ Reads
  BY Zenon DEF checkNamespace
<1>2. faults' \in Nat
  BY TypeSplit, FaultType, Zenon DEF checkNamespace, RestOK
<1>3. /\ wk[w] \in GoodWorkers /\ wk[w] \in Worker /\ wk[w].req \in CRs
      /\ wk[w].base \in CredentialsRequest
      /\ wk[w].base.status.user \in {None, wk[w].cr.status.user}
      /\ wk[w].base.finalizer /\ ~wk[w].base.deleting
  BY <1>1, Running, Zenon DEF TypeInv, GoodWorkers
<1>4. cr \in CredentialsRequest /\ cr.status.user = wk[w].cr.status.user
  <2>1. wk[w].cr \in CredentialsRequest /\ MissingNamespace \in CondTypes
    BY <1>1, Running, Zenon DEF CondTypes
  <2> DEFINE y(on) == [wk[w].cr EXCEPT !.status.conds = SetCondition(@, MissingNamespace, on)]
  <2>2. ASSUME NEW on \in BOOLEAN
        PROVE  y(on) \in CredentialsRequest /\ y(on).status.user = wk[w].cr.status.user
    BY <2>1, WithCondition, Zenon
  <2>3. cr = y(TRUE) \/ cr = y(FALSE)
    BY Zenon
  <2> HIDE DEF cr, y
  <2>4. QED
    BY <2>2, <2>3, Zenon
<1> HIDE DEF cr
<1>5. ASSUME NEW label \in {"updateStatus", "sync"},
             wk' = [wk EXCEPT ![w].cr = cr, ![w].pc = label]
      PROVE  wk' \in [Workers -> GoodWorkers]
  <2> DEFINE x == [wk[w] EXCEPT !.cr = cr, !.pc = label]
  <2>1. label \in PCs
    BY Zenon DEF PCs
  <2>2. x \in Worker /\ x.pc = label /\ x.req = wk[w].req /\ x.base = wk[w].base /\ x.cr = cr
    BY <1>3, <1>4, <2>1, Zenon DEF Worker
  <2>3. wk' = [wk EXCEPT ![w] = x]
    BY <1>5, Zenon
  <2> HIDE DEF x
  <2>4. x \in GoodWorkers
    BY <1>3, <1>4, <2>2, Zenon DEF GoodWorkers
  <2>5. QED
    BY <2>3, <2>4, TypeSplit, LocalStep, Zenon
<1>6. \/ Return(w)
      \/ wk' = [wk EXCEPT ![w].cr = cr, ![w].pc = "updateStatus"]
      \/ wk' = [wk EXCEPT ![w].cr = cr, ![w].pc = "sync"]
  BY Zenon DEF checkNamespace, cr
<1>7. QED
  BY <1>1, <1>2, <1>5, <1>6, ReturnType, ReadsType, Zenon

(* Clearing the deprovision failure keeps the types.                       *)
LEMMA clearDeprovisionFailureType ==
    ASSUME TypeInv, NEW w \in Workers, clearDeprovisionFailure(w)
    PROVE  TypeInv'
<1> USE DEF At, SyncPCs, DeletePCs, NamedPCs
<1> DEFINE status == [wk[w].cr.status EXCEPT
                        !.conds = SetCondition(@, DeprovisionFailure, FALSE)]
           stored == [wk[w].base EXCEPT !.status = status]
           cr == [wk[w].cr EXCEPT !.status = status]
           next == [wk EXCEPT ![w].cr.status = status, ![w].pc = "deleteTargetSecret"]
<1>1. /\ ~At(w, "idle") /\ wk[w].pc = "clearDeprovisionFailure"
      /\ UNCHANGED <<secrets, namespaces, root, iam, now, cacheVars>>
  BY ZenonT(30) DEF clearDeprovisionFailure
<1>2. faults' \in Nat
  BY TypeSplit, FaultType, ZenonT(30) DEF clearDeprovisionFailure, Call, RestOK
<1>3. /\ wk[w] \in GoodWorkers /\ wk[w] \in Worker /\ wk[w].req \in CRs
      /\ wk[w].base \in CredentialsRequest /\ wk[w].cr \in CredentialsRequest
      /\ wk[w].base.deleting /\ wk[w].base.status.user = wk[w].cr.status.user
  BY <1>1, Running, Zenon DEF TypeInv, GoodWorkers
<1>4. status \in Status /\ status.user = wk[w].cr.status.user
  BY <1>3, WithCondition, ZenonT(60) DEF CondTypes
<1> HIDE DEF status
<1>5. /\ stored \in CredentialsRequest /\ stored.status = status /\ stored.deleting
      /\ cr \in CredentialsRequest /\ cr.status = status
  BY <1>3, <1>4, Zenon DEF CredentialsRequest
<1>6. /\ UNCHANGED crs \/ Store(w, stored)
      /\ wk' = next \/ wk' = [next EXCEPT ![w].base = stored]
  BY Zenon DEF clearDeprovisionFailure, Call, status
<1> HIDE DEF stored, cr
<1>7. wk' = next => wk' \in [Workers -> GoodWorkers]
  <2> SUFFICES ASSUME wk' = next PROVE wk' \in [Workers -> GoodWorkers]
    BY Zenon
  <2> DEFINE x == [wk[w] EXCEPT !.cr = cr, !.pc = "deleteTargetSecret"]
  <2>1. /\ x \in Worker /\ x.pc = "deleteTargetSecret" /\ x.req = wk[w].req
        /\ x.base = wk[w].base /\ x.cr = cr
    BY <1>3, <1>5, Zenon DEF Worker, PCs
  <2>2. wk' = [wk EXCEPT ![w] = x]
    BY Zenon DEF cr
  <2> HIDE DEF x
  <2>3. x \in GoodWorkers
    BY <1>3, <1>4, <1>5, <2>1, Zenon DEF GoodWorkers
  <2>4. QED
    BY <2>2, <2>3, TypeSplit, LocalStep, Zenon
<1>8. wk' = [next EXCEPT ![w].base = stored] => wk' \in [Workers -> GoodWorkers]
  <2> SUFFICES ASSUME wk' = [next EXCEPT ![w].base = stored]
               PROVE  wk' \in [Workers -> GoodWorkers]
    BY Zenon
  <2> DEFINE x == [wk[w] EXCEPT !.cr = cr, !.pc = "deleteTargetSecret", !.base = stored]
  <2>1. /\ x \in Worker /\ x.pc = "deleteTargetSecret" /\ x.req = wk[w].req
        /\ x.base = stored /\ x.cr = cr
    BY <1>3, <1>5, Zenon DEF Worker, PCs
  <2>2. wk' = [wk EXCEPT ![w] = x]
    BY TypeSplit, Zenon DEF cr
  <2> HIDE DEF x
  <2>3. x \in GoodWorkers
    BY <1>3, <1>4, <1>5, <2>1, Zenon DEF GoodWorkers
  <2>4. QED
    BY <2>2, <2>3, TypeSplit, LocalStep, Zenon
<1>9. QED
  BY <1>1, <1>2, <1>5, <1>6, <1>7, <1>8, StoreType, Zenon

(* Restarts and the informers keep the types.                              *)
LEMMA ProcessStepsType ==
    ASSUME TypeInv, NEW w \in Workers,
           \/ Restart(w)
           \/ \E c \in CRs : SyncCRCache(w, c)
           \/ \E r \in Refs : SyncSecretCache(w, r)
    PROVE  TypeInv'
<1>1. CASE Restart(w)
  <2>1. faults' \in Nat /\ wk' \in [Workers -> GoodWorkers]
    BY <1>1, TypeSplit, FaultType, ReturnType, Zenon DEF Restart, RestOK
  <2>2. RestOK'
    BY <1>1, <2>1, TypeSplit, Zenon DEF RestOK, Restart, apiVars
  <2>3. QED
    BY <2>1, <2>2, TypeSplitPrime, Zenon
<1>2. CASE \E c \in CRs : SyncCRCache(w, c)
  BY <1>2, TypeSplit, TypeSplitPrime DEF RestOK, SyncCRCache, apiVars
<1>3. CASE \E r \in Refs : SyncSecretCache(w, r)
  BY <1>3, TypeSplit, TypeSplitPrime DEF RestOK, SyncSecretCache, apiVars
<1>4. QED
  BY <1>1, <1>2, <1>3, Zenon

(* What users, administrators and other controllers do to the cluster and  *)
(* to AWS keeps the types.                                                 *)
LEMMA EnvironmentType ==
    ASSUME TypeInv, Environment
    PROVE  TypeInv'
<1>0. RestOK /\ wk \in [Workers -> GoodWorkers]
  BY TypeSplit, Zenon
<1>1. ASSUME NEW c \in CRs, CreateCR(c)
      PROVE  TypeInv'
  <2>1. PICK r \in TargetsOf[c], p \in Policies :
          crs' = [crs EXCEPT ![c] = [gen |-> 1, ref |-> r, policy |-> p, finalizer |-> FALSE,
                                     deleting |-> FALSE, status |-> NewStatus]]
    BY <1>1, ZenonT(30) DEF CreateCR
  <2>2. r \in Refs
    BY SetsAssumption, Zenon
  <2>3. NewStatus \in Status
    BY Zenon DEF NewStatus, Status, NoConditions, CondStatus
  <2>4. [gen |-> 1, ref |-> r, policy |-> p, finalizer |-> FALSE,
         deleting |-> FALSE, status |-> NewStatus] \in CredentialsRequest
    BY <2>2, <2>3, Zenon DEF CredentialsRequest
  <2>5. RestOK'
    BY <1>0, <1>1, <2>1, <2>4, Zenon DEF RestOK, CreateCR, cacheVars
  <2>6. QED
    BY <1>0, <1>1, <2>5, TypeSplitPrime, ZenonT(30) DEF CreateCR
<1>2. ASSUME NEW c \in CRs, EditSpec(c)
      PROVE  TypeInv'
  <2>1. PICK r \in TargetsOf[c], p \in Policies :
          crs' = [crs EXCEPT ![c].ref = r, ![c].policy = p, ![c].gen = @ + 1]
    BY <1>2, Zenon DEF EditSpec
  <2>2. r \in Refs /\ crs[c] \in CredentialsRequest
    BY <1>0, <1>2, SetsAssumption, Zenon DEF EditSpec, RestOK
  <2>3. [crs[c] EXCEPT !.ref = r, !.policy = p, !.gen = @ + 1] \in CredentialsRequest
    <3>1. crs[c].gen + 1 \in Nat
      BY <2>2 DEF CredentialsRequest
    <3>2. ASSUME NEW g \in Nat
          PROVE  [crs[c] EXCEPT !.ref = r, !.policy = p, !.gen = g] \in CredentialsRequest
      BY <2>2, Zenon DEF CredentialsRequest
    <3>3. QED
      BY <3>1, <3>2, Zenon
  <2>4. crs' = [crs EXCEPT ![c] = [crs[c] EXCEPT !.ref = r, !.policy = p, !.gen = @ + 1]]
    BY <2>1, Zenon
  <2>5. RestOK'
    BY <1>0, <1>2, <2>3, <2>4, Zenon DEF RestOK, EditSpec, cacheVars
  <2>6. QED
    BY <1>0, <1>2, <2>5, TypeSplitPrime, Zenon DEF EditSpec
<1>3. ASSUME NEW c \in CRs, DeleteCR(c)
      PROVE  TypeInv'
  <2>1. crs[c] \in CredentialsRequest
    BY <1>0, <1>3, Zenon DEF DeleteCR, RestOK
  <2>2. [crs[c] EXCEPT !.deleting = TRUE] \in CredentialsRequest
    BY <2>1, Zenon DEF CredentialsRequest
  <2>3. \/ crs' = [crs EXCEPT ![c] = [crs[c] EXCEPT !.deleting = TRUE]]
        \/ crs' = [crs EXCEPT ![c] = None]
    BY <1>0, <1>3, Zenon DEF DeleteCR, RestOK
  <2>4. RestOK'
    BY <1>0, <1>3, <2>2, <2>3, Zenon DEF RestOK, DeleteCR, cacheVars
  <2>5. QED
    BY <1>0, <1>3, <2>4, TypeSplitPrime, Zenon DEF DeleteCR
<1>4. ASSUME NEW n \in Namespaces, CreateNamespace(n) \/ DeleteNamespace(n)
      PROVE  TypeInv'
  <2>1. RestOK'
    BY <1>0, <1>4 DEF RestOK, CreateNamespace, DeleteNamespace, Fault, cacheVars
  <2>2. QED
    BY <1>0, <1>4, <2>1, TypeSplitPrime, Zenon DEF CreateNamespace, DeleteNamespace
<1>5. ASSUME NEW r \in Refs, EditSecret(r)
      PROVE  TypeInv'
  <2> DEFINE found == IF secrets[r] = None
                      THEN [key |-> None, owner |-> None, applied |-> None]
                      ELSE secrets[r]
  <2>1. found \in Secret
    BY <1>0, Zenon DEF RestOK, Secret
  <2>2. PICK s \in {None} \cup {[found EXCEPT !.key = k] : k \in {None, NilData}} :
          secrets' = [secrets EXCEPT ![r] = s]
    BY <1>5, Zenon DEF EditSecret
  <2> HIDE DEF found
  <2>3. s \in Secret \cup {None}
    BY <2>1 DEF Secret
  <2>4. RestOK'
    BY <1>0, <1>5, <2>2, <2>3, FaultType, Zenon DEF RestOK, EditSecret, cacheVars
  <2>5. QED
    BY <1>0, <1>5, <2>4, TypeSplitPrime, Zenon DEF EditSecret
<1>6. ASSUME NEW u \in Users, EditIAM(u)
      PROVE  TypeInv'
  <2>1. \A k \in iam[u].keys : [iam[u] EXCEPT !.keys = @ \ {k}] \in User
    BY <1>0, <1>6, Zenon DEF RestOK, EditIAM, User
  <2>2. iam' \in [Users -> User \cup {None}]
    BY <1>0, <1>6, <2>1, Zenon DEF RestOK, EditIAM
  <2>3. RestOK'
    BY <1>0, <1>6, <2>2, FaultType, Zenon DEF RestOK, EditIAM, apiVars, cacheVars
  <2>4. QED
    BY <1>0, <1>6, <2>3, TypeSplitPrime, Zenon DEF EditIAM
<1>7. CASE EditRoot
  <2>1. RestOK'
    BY <1>0, <1>7, FaultType, SetsAssumption, Zenon DEF RestOK, EditRoot, cacheVars
  <2>2. QED
    BY <1>0, <1>7, <2>1, TypeSplitPrime, Zenon DEF EditRoot
<1>8. CASE Tick
  <2>1. RestOK'
    BY <1>0, <1>8 DEF RestOK, Tick, apiVars, cacheVars
  <2>2. QED
    BY <1>0, <1>8, <2>1, TypeSplitPrime, Zenon DEF Tick
<1>9. QED
  BY <1>1, <1>2, <1>3, <1>4, <1>5, <1>6, <1>7, <1>8, Zenon DEF Environment

(* The program starts with the right types.                                *)
LEMMA InitType == Init => TypeInv
<1> SUFFICES ASSUME Init PROVE TypeInv
  BY Zenon
<1>1. IdleWorker \in GoodWorkers
  BY Zenon DEF IdleWorker, Locals, GoodWorkers, Worker, PCs, NamedPCs, SyncPCs, DeletePCs, PanicPCs
<1>2. RestOK /\ wk \in [Workers -> GoodWorkers]
  BY <1>1, SetsAssumption, Zenon DEF Init, RestOK
<1>3. QED
  BY <1>2, TypeSplit, Zenon

(* Every step of the program and of its environment keeps the types.       *)
LEMMA StepType == TypeInv /\ [Next]_vars => TypeInv'
<1> SUFFICES ASSUME TypeInv, [Next]_vars PROVE TypeInv'
  BY Zenon
<1>1. ASSUME NEW w \in Workers, WorkerStep(w)
      PROVE  TypeInv'
  BY <1>1, ReadStepsType, MintStepsType, DeleteStepsType, userNameType,
     syncAccessKeySecretType, ReconcileStepsType, checkNamespaceType,
     clearDeprovisionFailureType, Zenon
     DEF WorkerStep, Sync, Delete
<1>2. ASSUME NEW w \in Workers,
             \/ Restart(w)
             \/ \E c \in CRs : Reconcile(w, c) \/ SyncCRCache(w, c)
             \/ \E r \in Refs : SyncSecretCache(w, r)
      PROVE  TypeInv'
  BY <1>2, ReconcileType, ProcessStepsType, Zenon
<1>3. CASE UNCHANGED vars
  <2>1. RestOK'
    BY <1>3, TypeSplit, Zenon DEF RestOK, vars
  <2>2. QED
    BY <1>3, <2>1, TypeSplit, TypeSplitPrime, Zenon DEF vars
<1>4. QED
  BY <1>1, <1>2, <1>3, EnvironmentType, Zenon DEF Next

(* Every reachable state is well typed, and every running Reconcile call   *)
(* holds copies of its request that agree about the user: only a deleted   *)
(* request is deprovisioned, only one with the finalizer is synced.        *)
THEOREM CallsAreGood == Spec => []TypeInv
  BY InitType, StepType, PTL DEF Spec

(* Type correctness, for any number of processes, requests, secrets, users *)
(* and keys.                                                               *)
THEOREM TypeCorrect == Spec => []TypeOK
<1>1. TypeInv => TypeOK
  BY Zenon DEF TypeInv
<1>2. QED
  BY <1>1, CallsAreGood, PTL

-----------------------------------------------------------------------------
(* Recorded user names *)

(* A Reconcile call replaces a request only by one with the same user, or  *)
(* one whose base has none: the API server has compared the base with the  *)
(* stored object.                                                          *)
LEMMA StoreKeepsNames ==
    ASSUME TypeInv, NEW w \in Workers, ~At(w, "idle"), NEW object,
           UNCHANGED crs \/ (NoConflict(w) /\ Store(w, object)),
           object # None /\ wk[w].base.status.user # None
             => object.status.user = wk[w].base.status.user
    PROVE  KeepsNames
  BY Running, TypeSplit, ZenonT(30) DEF KeepsNames, NoConflict, Store, RestOK

(* No step of a Reconcile call changes a recorded user name.               *)
LEMMA WorkerKeepsNames ==
    ASSUME TypeInv, NEW w \in Workers, WorkerStep(w)
    PROVE  KeepsNames
<1>0. UNCHANGED crs => KeepsNames
  BY Zenon DEF KeepsNames
<1>1. CASE addDeprovisionFinalizer(w)
  <2> DEFINE o == [wk[w].base EXCEPT !.finalizer = TRUE]
  <2>1. ~At(w, "idle") /\ (UNCHANGED crs \/ (NoConflict(w) /\ Store(w, o)))
    BY <1>1, Zenon DEF addDeprovisionFinalizer, Call, At
  <2>2. o.status = wk[w].base.status
    BY <2>1, Running, Zenon DEF CredentialsRequest
  <2> HIDE DEF o
  <2>3. QED
    BY <2>1, <2>2, StoreKeepsNames, Zenon
<1>2. CASE updateStatus(w)
  <2>1. ~At(w, "idle") /\ (UNCHANGED crs \/ (NoConflict(w) /\ Store(w, WithStatus(w))))
    BY <1>2, Zenon DEF updateStatus, Call, At
  <2>2. WithStatus(w).status = wk[w].cr.status
    BY <2>1, Running, Zenon DEF CredentialsRequest, WithStatus
  <2>3. QED
    BY <2>1, <2>2, Running, StoreKeepsNames, ZenonT(30)
<1>3. CASE clearDeprovisionFailure(w)
  <2> DEFINE status == [wk[w].cr.status EXCEPT
                          !.conds = SetCondition(@, DeprovisionFailure, FALSE)]
             o == [wk[w].base EXCEPT !.status = status]
  <2>1. ~At(w, "idle") /\ (UNCHANGED crs \/ (NoConflict(w) /\ Store(w, o)))
    BY <1>3, Zenon DEF clearDeprovisionFailure, Call, At
  <2>2. status.user = wk[w].cr.status.user
    BY <2>1, Running, Zenon DEF Status
  <2>3. o.status = status
    BY <2>1, Running, Zenon DEF CredentialsRequest
  <2> HIDE DEF o, status
  <2>4. QED
    BY <2>1, <2>2, <2>3, Running, StoreKeepsNames, Zenon
<1>4. CASE removeDeprovisionFinalizer(w)
  <2>1. ~At(w, "idle") /\ (UNCHANGED crs \/ (NoConflict(w) /\ Store(w, None)))
    BY <1>4, Zenon DEF removeDeprovisionFinalizer, Call, At
  <2>2. QED
    BY <2>1, StoreKeepsNames, Zenon
<1>5. CASE userName(w) /\ crs' # crs
  <2>1. ~At(w, "idle") /\ UserName(w) = None
    BY <1>5, Zenon DEF userName, At
  <2>2. PICK o : NoConflict(w) /\ Store(w, o)
    BY <1>5, ZenonT(30) DEF userName, updateProviderStatus, Call
  <2>3. wk[w].base.status.user = None
    BY <2>1, Running, Zenon DEF UserName
  <2>4. QED
    BY <2>1, <2>2, <2>3, StoreKeepsNames, Zenon
<1>6. CASE checkNamespace(w) \/ (Sync(w) /\ ~userName(w)) \/ Delete(w) \/ deleteTargetSecret(w)
  <2>1. UNCHANGED crs
    BY <1>6, Zenon DEF checkNamespace, Sync, Delete, deleteTargetSecret, sync,
       needsUpdateUser, needsUpdateKeys, needsUpdatePolicy, cloudCreds, GetUser, CreateUser, TagUser,
       PutUserPolicy, ListAccessKeys, rotateAccessKeys, CreateAccessKey, syncAccessKeySecret,
       DeleteUserPolicy, DeleteListAccessKeys, DeleteAccessKeys, DeleteUser, Reads,
       NoAPIWrite, apiVars
  <2>2. QED
    BY <1>0, <2>1, Zenon
<1>7. QED
  BY <1>0, <1>1, <1>2, <1>3, <1>4, <1>5, <1>6, Zenon DEF WorkerStep

(* No user of the cluster changes a recorded user name.                    *)
LEMMA EnvironmentKeepsNames ==
    ASSUME TypeInv, Environment
    PROVE  KeepsNames
<1>0. UNCHANGED crs => KeepsNames
  BY Zenon DEF KeepsNames
<1>1. ASSUME NEW c \in CRs, CreateCR(c)
      PROVE  KeepsNames
  BY <1>1, TypeSplit, Zenon DEF CreateCR, KeepsNames, RestOK
<1>2. ASSUME NEW c \in CRs, EditSpec(c)
      PROVE  KeepsNames
  <2>1. PICK r, p : crs' = [crs EXCEPT ![c].ref = r, ![c].policy = p, ![c].gen = @ + 1]
    BY <1>2, Zenon DEF EditSpec
  <2>2. crs[c] \in CredentialsRequest
    BY <1>2, TypeSplit, Zenon DEF EditSpec, RestOK
  <2>3. crs'[c].status = crs[c].status
    BY <2>1, <2>2, TypeSplit, Zenon DEF RestOK, CredentialsRequest
  <2>4. \A d \in CRs \ {c} : crs'[d] = crs[d]
    BY <2>1, TypeSplit, Zenon DEF RestOK
  <2>5. QED
    BY <2>3, <2>4, Zenon DEF KeepsNames
<1>3. ASSUME NEW c \in CRs, DeleteCR(c)
      PROVE  KeepsNames
  <2>1. crs[c] \in CredentialsRequest
    BY <1>3, TypeSplit, Zenon DEF DeleteCR, RestOK
  <2>2. crs'[c] = None \/ crs'[c].status = crs[c].status
    BY <1>3, <2>1, TypeSplit, Zenon DEF DeleteCR, RestOK, CredentialsRequest
  <2>3. \A d \in CRs \ {c} : crs'[d] = crs[d]
    BY <1>3, TypeSplit, Zenon DEF DeleteCR, RestOK
  <2>4. QED
    BY <2>2, <2>3, Zenon DEF KeepsNames
<1>4. QED
  BY <1>0, <1>1, <1>2, <1>3, Zenon DEF Environment, CreateNamespace, DeleteNamespace, EditSecret,
     EditIAM, EditRoot, Tick, apiVars

(* A user name that has been recorded in the status of a request is never  *)
(* replaced or erased while the request exists, for any number of operator *)
(* processes: every write of a request passes the conflict check with a    *)
(* base that names the same user or none.                                  *)
THEOREM NamesAreStable == Spec => UserNameStable
<1>1. TypeInv /\ [Next]_vars => [KeepsNames]_vars
  <2> SUFFICES ASSUME TypeInv, Next PROVE KeepsNames
    BY Zenon
  <2>1. ASSUME NEW w \in Workers,
               \/ Restart(w)
               \/ \E c \in CRs : Reconcile(w, c) \/ SyncCRCache(w, c)
               \/ \E r \in Refs : SyncSecretCache(w, r)
        PROVE  KeepsNames
    <3>1. UNCHANGED crs
      BY <2>1, Zenon DEF Restart, Reconcile, SyncCRCache, SyncSecretCache, Reads, NoAPIWrite, apiVars
    <3>2. QED
      BY <3>1, Zenon DEF KeepsNames
  <2>2. QED
    BY <2>1, WorkerKeepsNames, EnvironmentKeepsNames, Zenon DEF Next
<1>2. QED
  BY <1>1, CallsAreGood, PTL DEF Spec, UserNameStable, KeepsNames

=============================================================================
