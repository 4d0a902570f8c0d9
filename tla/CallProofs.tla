----------------------------- MODULE CallProofs -----------------------------
(***************************************************************************)
(* What one step of a Reconcile call can do to its own copies of the       *)
(* request, to the stored request and to IAM, for any number of processes. *)
(* The later proofs argue from these facts instead of from the actions.    *)
(***************************************************************************)
EXTENDS ReconcilerProofs, Invariants

-----------------------------------------------------------------------------
(* The copies of the request *)

(* A call goes on with the same request and the same copies.               *)
Goes(w, label) ==
    /\ wk'[w].pc = label
    /\ wk'[w].req = wk[w].req /\ wk'[w].base = wk[w].base /\ wk'[w].cr = wk[w].cr
    /\ \A v \in Workers \ {w} : wk'[v] = wk[v]

(* A call hands a failure to Reconcile, and the status names the same user *)
(* and the same sync.                                                      *)
Ended(w) ==
    \E s \in Status : s.user = UserName(w) /\ SameSync(s, wk[w].cr.status) /\ Finish(w, s)

(* A call hands a success to Reconcile, and the status records the sync.   *)
Succeeded(w) ==
    \E s \in Status : /\ s.user = UserName(w) /\ Finish(w, s)
                      /\ s.syncGen = wk[w].base.gen /\ s.syncTime = now

(* The results of the actuator name the user of the working copy.          *)
LEMMA ResultsKeepUser ==
    ASSUME TypeInv, NEW w \in Workers, ~At(w, "idle")
    PROVE  /\ \A reason : Fail(w, reason) => Ended(w)
           /\ Succeed(w) => Succeeded(w)
           /\ DeprovisionFail(w) => Ended(w)
<1> DEFINE status == wk[w].cr.status
<1>1. /\ status \in Status /\ status.conds \in [CondTypes -> CondStatus]
      /\ wk[w].base.gen \in Nat /\ now \in Nat
  BY Running, Zenon DEF Status, CredentialsRequest, TypeInv, TypeOK
<1> HIDE DEF status
<1>2. ASSUME NEW reason, Fail(w, reason)
      PROVE  Ended(w)
  <2>1. updateActuatorConditions(status.conds, reason) \in [CondTypes -> CondStatus]
    BY <1>1, ConditionsType, Zenon
  <2>2. /\ FailedStatus(status, reason) \in Status
        /\ FailedStatus(status, reason).user = status.user
        /\ SameSync(FailedStatus(status, reason), status)
    BY <1>1, <2>1, Zenon DEF Status, FailedStatus, SameSync
  <2>3. QED
    BY <1>2, <2>2, Zenon DEF Fail, Ended, UserName, status
<1>3. ASSUME Succeed(w)
      PROVE  Succeeded(w)
  <2> DEFINE s == [status EXCEPT !.conds = updateActuatorConditions(@, ""),
                                 !.provisioned = TRUE, !.syncTime = now,
                                 !.syncGen = wk[w].base.gen]
  <2>1. updateActuatorConditions(status.conds, "") \in [CondTypes -> CondStatus]
    BY <1>1, ConditionsType, Zenon
  <2>2. /\ s \in Status /\ s.user = status.user
        /\ s.syncGen = wk[w].base.gen /\ s.syncTime = now
    BY <1>1, <2>1, Zenon DEF Status
  <2>3. Finish(w, s)
    BY <1>3, Zenon DEF Succeed, status
  <2> HIDE DEF s
  <2>4. QED
    BY <2>2, <2>3, Zenon DEF Succeeded, UserName, status
<1>4. ASSUME DeprovisionFail(w)
      PROVE  Ended(w)
  <2> DEFINE s == [status EXCEPT !.conds = SetCondition(@, DeprovisionFailure, TRUE)]
  <2>1. SetCondition(status.conds, DeprovisionFailure, TRUE) \in [CondTypes -> CondStatus]
    BY <1>1, ConditionsType, Zenon DEF CondTypes
  <2>2. s \in Status /\ s.user = status.user /\ SameSync(s, status)
    BY <1>1, <2>1, Zenon DEF Status, SameSync
  <2>3. Finish(w, s)
    BY <1>4, Zenon DEF DeprovisionFail, status
  <2> HIDE DEF s
  <2>4. QED
    BY <2>2, <2>3, Zenon DEF Ended, UserName, status
<1>5. QED
  BY <1>2, <1>3, <1>4, Zenon

(* The ways in which the local steps of a call proceed.                    *)
LEMMA ShapesProceed ==
    ASSUME TypeInv, NEW w \in Workers, ~At(w, "idle")
    PROVE  /\ Return(w) => Proceeds(w)
           /\ /\ Ended(w) \/ (Succeeded(w) /\ SyncDone(w))
              /\ wk[w].pc \in SyncPCs \cup DeletePCs
              => Proceeds(w)
           /\ \A label \in PanicPCs : Goes(w, label) => Proceeds(w)
           /\ wk[w].pc \in SyncPCs =>
                \A label \in SyncPCs : Goes(w, label) => Proceeds(w)
           /\ wk[w].pc \in DeletePCs =>
                \A label \in DeletePCs :
                   /\ Goes(w, label)
                   /\ label = "removeDeprovisionFinalizer" => wk[w].pc = "deleteTargetSecret"
                   => Proceeds(w)
           /\ \A label \in PCs : Goto(w, label) => Goes(w, label)
<1>0. wk \in [Workers -> Worker] /\ wk[w].cr \in CredentialsRequest
  BY Running, Zenon DEF TypeInv, TypeOK
<1>1. ASSUME Return(w) PROVE Proceeds(w)
  BY <1>0, <1>1, Zenon DEF Return, IdleWorker, Locals, Proceeds, At, SyncPCs, DeletePCs
<1>2. ASSUME Ended(w) \/ (Succeeded(w) /\ SyncDone(w)), wk[w].pc \in SyncPCs \cup DeletePCs
      PROVE  Proceeds(w)
  <2>1. PICK s \in Status :
          /\ s.user = UserName(w) /\ Finish(w, s)
          /\ \/ SameSync(s, wk[w].cr.status)
             \/ SyncDone(w) /\ s.syncGen = wk[w].base.gen /\ s.syncTime = now
    BY <1>2, Zenon DEF Ended, Succeeded
  <2> DEFINE cr == [wk[w].cr EXCEPT !.status = s]
  <2>2. cr.status = s /\ SameButStatus(cr, wk[w].cr)
    BY <1>0, Zenon DEF CredentialsRequest, SameButStatus
  <2>3. /\ wk'[w].pc = "updateStatus" /\ wk'[w].req = wk[w].req
        /\ wk'[w].base = wk[w].base /\ wk'[w].cr = cr
        /\ \A v \in Workers \ {w} : wk'[v] = wk[v]
    BY <1>0, <2>1, Zenon DEF Finish, Locals
  <2> HIDE DEF cr
  <2>4. "updateStatus" \notin SyncPCs \cup DeletePCs \cup {"removeDeprovisionFinalizer"}
    BY Zenon DEF SyncPCs, DeletePCs
  <2>5. QED
    BY <1>2, <2>1, <2>2, <2>3, <2>4, Zenon DEF Proceeds, At, UserName, SameButStatus
<1>3. ASSUME NEW label \in PanicPCs, Goes(w, label) PROVE Proceeds(w)
  <2>1. label \notin SyncPCs \cup DeletePCs \cup {"idle", "updateStatus", "addDeprovisionFinalizer",
                                                  "removeDeprovisionFinalizer"}
    BY Zenon DEF PanicPCs, SyncPCs, DeletePCs
  <2>2. QED
    BY <1>3, <2>1, Zenon DEF Goes, Proceeds, At, SameButStatus, SameSync
<1>4. ASSUME NEW label \in SyncPCs, Goes(w, label), wk[w].pc \in SyncPCs PROVE Proceeds(w)
  <2>1. label \notin DeletePCs \cup {"idle", "updateStatus", "addDeprovisionFinalizer",
                                   "removeDeprovisionFinalizer"}
    BY Zenon DEF SyncPCs, DeletePCs
  <2>2. QED
    BY <1>4, <2>1, Zenon DEF Goes, Proceeds, At, SameButStatus, SameSync
<1>5. ASSUME NEW label \in DeletePCs, Goes(w, label), wk[w].pc \in DeletePCs,
             label = "removeDeprovisionFinalizer" => wk[w].pc = "deleteTargetSecret"
      PROVE  Proceeds(w)
  <2>1. label \notin SyncPCs \cup {"idle", "updateStatus", "addDeprovisionFinalizer"}
    BY Zenon DEF SyncPCs, DeletePCs
  <2>2. QED
    BY <1>5, <2>1, Zenon DEF Goes, Proceeds, At, SameButStatus, SameSync
<1>6. ASSUME NEW label \in PCs, Goto(w, label) PROVE Goes(w, label)
  BY <1>0, <1>6, Zenon DEF Goto, Goes, Worker
<1>7. QED
  BY <1>1, <1>2, <1>3, <1>4, <1>5, <1>6, Zenon

(* What the steps of sync, but for the naming of the user, do to the call: *)
(* only a failed LoadInfrastructureName returns at once.                   *)
SyncShape(w) ==
    \/ wk[w].pc = "sync" /\ Return(w) /\ Fault("callFails")
    \/ Succeed(w) /\ SyncDone(w)
    \/ \E reason : Fail(w, reason)
    \/ \E label \in ActuatorPCs \cup PanicPCs : Goes(w, label)

(* Every step of sync has that shape.                                      *)
LEMMA SyncShapes ==
    ASSUME TypeInv, NEW w \in Workers, Sync(w), ~userName(w)
    PROVE  SyncShape(w) /\ wk[w].pc \in ActuatorPCs
<1> USE DEF At
<1>1. wk[w].pc \in ActuatorPCs /\ ~At(w, "idle")
  BY Zenon DEF ActuatorPCs, SyncPCs, Sync, sync, needsUpdateUser, needsUpdateKeys, needsUpdatePolicy,
     cloudCreds, GetUser, CreateUser, TagUser, PutUserPolicy, ListAccessKeys, rotateAccessKeys,
     CreateAccessKey, syncAccessKeySecret
<1>2. wk \in [Workers -> Worker]
  BY Zenon DEF TypeInv, TypeOK
<1>3. ActuatorPCs \subseteq PCs /\ PanicPCs \subseteq PCs
  BY Zenon DEF PCs, ActuatorPCs
<1>4. ASSUME \/ wk[w].pc = "sync" /\ Return(w) /\ Fault("callFails")
             \/ (Succeed(w) /\ SyncDone(w)) \/ \E reason : Fail(w, reason)
             \/ \E label \in ActuatorPCs \cup PanicPCs : Goto(w, label) \/ Goes(w, label)
      PROVE  SyncShape(w)
  BY <1>1, <1>3, <1>4, ShapesProceed, Zenon DEF SyncShape
<1>5. CASE sync(w) \/ cloudCreds(w)
  <2>1. /\ {"cloudCreds", "needsUpdateUser", "userName", "syncAccessKeySecret"} \subseteq ActuatorPCs
    BY Zenon DEF SyncPCs, ActuatorPCs
  <2>2. \/ (wk[w].pc = "sync" /\ Return(w) /\ Fault("callFails")) \/ (\E reason : Fail(w, reason))
        \/ Goto(w, "cloudCreds") \/ Goto(w, "userName")
        \/ wk' = [wk EXCEPT ![w].pc = "needsUpdateUser", ![w].existing = TargetSecret(w)]
        \/ \E key : wk' = [wk EXCEPT ![w].pc = "syncAccessKeySecret",
                                     ![w].existing = TargetSecret(w), ![w].newKey = key]
        \/ (Succeed(w) /\ SyncDone(w))
    <3>1. CASE sync(w)
      BY <3>1, Zenon DEF sync
    <3>2. CASE cloudCreds(w)
      <4>1. wk[w].pc = "cloudCreds" /\ UNCHANGED secrets
        BY <3>2, Zenon DEF cloudCreds, Reads, NoAPIWrite, apiVars
      <4>2. RootMode = "other" => SyncDone(w)
        BY <4>1, Zenon DEF SyncDone
      <4>3. QED
        BY <3>2, <4>2, Zenon DEF cloudCreds
    <3>3. QED
      BY <1>5, <3>1, <3>2, Zenon
  <2>3. ASSUME wk' = [wk EXCEPT ![w].pc = "needsUpdateUser", ![w].existing = TargetSecret(w)]
        PROVE  Goes(w, "needsUpdateUser")
    BY <1>2, <2>3, Zenon DEF Goes, Worker
  <2>4. ASSUME NEW key, wk' = [wk EXCEPT ![w].pc = "syncAccessKeySecret",
                                         ![w].existing = TargetSecret(w), ![w].newKey = key]
        PROVE  Goes(w, "syncAccessKeySecret")
    BY <1>2, <2>4, Zenon DEF Goes, Worker
  <2>5. QED
    BY <1>1, <1>4, <2>1, <2>2, <2>3, <2>4, Zenon
<1>6. CASE needsUpdateUser(w) \/ needsUpdateKeys(w) \/ needsUpdatePolicy(w)
  <2>1. {"cloudCreds", "needsUpdateKeys", "needsUpdatePolicy"} \subseteq ActuatorPCs
    BY Zenon DEF SyncPCs, ActuatorPCs
  <2>2. \/ (Succeed(w) /\ SyncDone(w)) \/ (\E reason : Fail(w, reason))
        \/ Goto(w, "cloudCreds") \/ Goto(w, "needsUpdateKeys") \/ Goto(w, "needsUpdatePolicy")
    BY <1>6, ZenonT(30) DEF needsUpdateUser, needsUpdateKeys, needsUpdatePolicy, SyncDone,
       Reads, NoAPIWrite, apiVars
  <2>3. QED
    BY <1>1, <1>4, <2>1, <2>2, Zenon
<1>7. CASE GetUser(w)
  <2>1. {"CreateUser", "PutUserPolicy", "TagUser"} \subseteq ActuatorPCs
    BY Zenon DEF SyncPCs, ActuatorPCs
  <2>2. \/ \E reason : Fail(w, reason)
        \/ \E label \in {"CreateUser", "PutUserPolicy", "TagUser"} :
             wk' = [wk EXCEPT ![w].rootClient = RootClient, ![w].pc = label]
    BY <1>7, Zenon DEF GetUser
  <2>3. ASSUME NEW label, wk' = [wk EXCEPT ![w].rootClient = RootClient, ![w].pc = label]
        PROVE  Goes(w, label)
    BY <1>2, <2>3, Zenon DEF Goes, Worker
  <2>4. QED
    BY <1>1, <1>4, <2>1, <2>2, <2>3, Zenon
<1>8. CASE CreateUser(w) \/ TagUser(w) \/ PutUserPolicy(w)
  <2>1. {"TagUser", "PutUserPolicy", "ListAccessKeys", "panicNilUser"} \subseteq ActuatorPCs \cup PanicPCs
    BY Zenon DEF SyncPCs, ActuatorPCs, PanicPCs
  <2>2. \/ \E reason : Fail(w, reason)
        \/ Goto(w, "TagUser") \/ Goto(w, "PutUserPolicy") \/ Goto(w, "ListAccessKeys")
        \/ Goto(w, "panicNilUser")
    BY <1>8, ZenonT(30) DEF CreateUser, TagUser, PutUserPolicy, Call
  <2>3. QED
    BY <1>1, <1>4, <2>1, <2>2, Zenon
<1>9. CASE ListAccessKeys(w)
  <2>1. {"syncAccessKeySecret", "rotateAccessKeys"} \subseteq ActuatorPCs
    BY Zenon DEF SyncPCs, ActuatorPCs
  <2>2. \/ \E reason : Fail(w, reason)
        \/ \E label \in {"syncAccessKeySecret", "rotateAccessKeys"} :
             wk' = [wk EXCEPT ![w].pc = label, ![w].existing = TargetSecret(w),
                              ![w].keyList = TheUser(w).keys]
    BY <1>9, Zenon DEF ListAccessKeys
  <2>3. ASSUME NEW label,
               wk' = [wk EXCEPT ![w].pc = label, ![w].existing = TargetSecret(w),
                                ![w].keyList = TheUser(w).keys]
        PROVE  Goes(w, label)
    BY <1>2, <2>3 DEF Goes, Worker
  <2>4. QED
    BY <1>1, <1>4, <2>1, <2>2, <2>3, Zenon
<1>10. CASE rotateAccessKeys(w)
  <2>1. {"rotateAccessKeys", "CreateAccessKey"} \subseteq ActuatorPCs /\ wk[w].pc = "rotateAccessKeys"
    BY <1>10, Zenon DEF SyncPCs, ActuatorPCs, rotateAccessKeys
  <2>2. \/ Goto(w, "CreateAccessKey") \/ (\E reason : Fail(w, reason))
        \/ \E k : wk' = [wk EXCEPT ![w].keyList = @ \ {k}]
    BY <1>10, Zenon DEF rotateAccessKeys, deleteAccessKey, Call
  <2>3. ASSUME NEW k, wk' = [wk EXCEPT ![w].keyList = @ \ {k}]
        PROVE  Goes(w, "rotateAccessKeys")
    BY <1>2, <2>1, <2>3, Zenon DEF Goes, Worker
  <2>4. QED
    BY <1>1, <1>4, <2>1, <2>2, <2>3, Zenon
<1>11. CASE CreateAccessKey(w)
  <2>1. "syncAccessKeySecret" \in ActuatorPCs
    BY Zenon DEF SyncPCs, ActuatorPCs
  <2>2. \/ \E reason : Fail(w, reason)
        \/ \E k : wk' = [wk EXCEPT ![w].pc = "syncAccessKeySecret", ![w].newKey = k]
    BY <1>11, CreatesKeys, Zenon DEF Creates
  <2>3. ASSUME NEW k, wk' = [wk EXCEPT ![w].pc = "syncAccessKeySecret", ![w].newKey = k]
        PROVE  Goes(w, "syncAccessKeySecret")
    BY <1>2, <2>3, Zenon DEF Goes, Worker
  <2>4. QED
    BY <1>1, <1>4, <2>1, <2>2, <2>3, Zenon
<1>12. CASE syncAccessKeySecret(w)
  <2>1. "panicNilData" \in PanicPCs
    BY Zenon DEF PanicPCs
  <2>2. \/ \E reason : Fail(w, reason)
        \/ Goto(w, "panicNilData")
        \/ Succeed(w) /\ SyncDone(w)
    <3>1. wk[w].pc = "syncAccessKeySecret"
      BY <1>12, Zenon DEF syncAccessKeySecret
    <3>2. CASE wk[w].existing = None
      <4>1. Wanted(w) = SecretWith(w, wk[w].newKey)
        BY <3>2, Zenon DEF Wanted
      <4>2. \/ \E reason : Fail(w, reason)
            \/ /\ Succeed(w)
               /\ secrets' = [secrets EXCEPT ![wk[w].cr.ref] = SecretWith(w, wk[w].newKey)]
        BY <1>12, <3>2, Zenon DEF syncAccessKeySecret, createSecret, Call
      <4>3. QED
        BY <3>1, <4>1, <4>2, Zenon DEF SyncDone
    <3>3. CASE wk[w].existing # None
      <4> DEFINE new == SecretWith(w, IF KeyGiven(w)
                                      THEN wk[w].newKey ELSE wk[w].existing.key)
      <4>1. Wanted(w) = new
        BY <3>3, Zenon DEF Wanted
      <4>2. \/ \E reason : Fail(w, reason)
            \/ Goto(w, "panicNilData")
            \/ /\ Succeed(w)
               /\ \/ secrets' = [secrets EXCEPT ![wk[w].cr.ref] = new]
                  \/ UNCHANGED secrets /\ wk[w].existing = new
        BY <1>12, <3>3, Zenon DEF syncAccessKeySecret, updateSecret, Call
      <4> HIDE DEF new
      <4>3. QED
        BY <3>1, <3>3, <4>1, <4>2, Zenon DEF SyncDone
    <3>4. QED
      BY <3>2, <3>3, Zenon
  <2>3. QED
    BY <1>1, <1>4, <2>1, <2>2, Zenon
<1>13. QED
  BY <1>1, <1>5, <1>6, <1>7, <1>8, <1>9, <1>10, <1>11, <1>12, Zenon DEF Sync

(* So every step of sync stays on the path of its call.                    *)
LEMMA SyncProceeds ==
    ASSUME TypeInv, NEW w \in Workers, Sync(w), ~userName(w)
    PROVE  Proceeds(w) /\ wk[w].pc \in SyncPCs
<1>1. SyncShape(w) /\ wk[w].pc \in SyncPCs /\ ~At(w, "idle") /\ ActuatorPCs \subseteq SyncPCs
  BY SyncShapes, Zenon DEF ActuatorPCs, SyncPCs, At
<1>2. QED
  BY <1>1, ShapesProceed, ResultsKeepUser, Zenon DEF SyncShape

(* The steps of Actuator.Delete go on, or hand a failure to Reconcile.     *)
LEMMA DeleteShapes ==
    ASSUME TypeInv, NEW w \in Workers, Delete(w)
    PROVE  /\ wk[w].pc \in DeletePCs
           /\ \/ DeprovisionFail(w)
              \/ \E label \in DeletePCs \ {"removeDeprovisionFinalizer"} : Goes(w, label)
<1> USE DEF At
<1>1. wk[w].pc \in DeletePCs /\ ~At(w, "idle")
  BY Zenon DEF DeletePCs, Delete, DeleteUserPolicy, DeleteListAccessKeys, DeleteAccessKeys, DeleteUser
<1>2. wk \in [Workers -> Worker]
  BY Zenon DEF TypeInv, TypeOK
<1>3. /\ DeletePCs \subseteq PCs
      /\ {"DeleteListAccessKeys", "DeleteAccessKeys", "DeleteUser", "clearDeprovisionFailure"}
           \subseteq DeletePCs \ {"removeDeprovisionFinalizer"}
  BY Zenon DEF PCs, DeletePCs
<1>4. \/ DeprovisionFail(w)
      \/ Goto(w, "DeleteListAccessKeys") \/ Goto(w, "DeleteUser")
      \/ Goto(w, "clearDeprovisionFailure")
      \/ wk' = [wk EXCEPT ![w].pc = "DeleteAccessKeys", ![w].keyList = TheUser(w).keys]
      \/ wk[w].pc = "DeleteAccessKeys" /\ \E k : wk' = [wk EXCEPT ![w].keyList = @ \ {k}]
  BY ZenonT(30) DEF Delete, DeleteUserPolicy, DeleteListAccessKeys, DeleteAccessKeys, DeleteUser,
     deleteAccessKey, Call
<1>5. ASSUME wk' = [wk EXCEPT ![w].pc = "DeleteAccessKeys", ![w].keyList = TheUser(w).keys]
      PROVE  Goes(w, "DeleteAccessKeys")
  BY <1>2, <1>5, Zenon DEF Goes, Worker
<1>6. ASSUME wk[w].pc = "DeleteAccessKeys", NEW k, wk' = [wk EXCEPT ![w].keyList = @ \ {k}]
      PROVE  Goes(w, "DeleteAccessKeys")
  BY <1>2, <1>6, Zenon DEF Goes, Worker
<1>7. ASSUME NEW label \in DeletePCs, Goto(w, label) PROVE Goes(w, label)
  BY <1>1, <1>3, <1>7, ShapesProceed, Zenon
<1>8. QED
  BY <1>1, <1>3, <1>4, <1>5, <1>6, <1>7, Zenon

(* So every step of it stays on the path of its call.                      *)
LEMMA DeleteProceeds ==
    ASSUME TypeInv, NEW w \in Workers, Delete(w)
    PROVE  Proceeds(w) /\ wk[w].pc \in DeletePCs
<1>1. ~At(w, "idle")
  BY DeleteShapes, Zenon DEF DeletePCs, At
<1>2. QED
  BY <1>1, DeleteShapes, ShapesProceed, ResultsKeepUser, Zenon

(* The steps of Reconcile around the actuator that write no request.       *)
LEMMA ReadingProceeds ==
    ASSUME TypeInv, NEW w \in Workers, checkNamespace(w) \/ deleteTargetSecret(w)
    PROVE  Proceeds(w)
<1> USE DEF At
<1>1. wk \in [Workers -> Worker]
  BY Zenon DEF TypeInv, TypeOK
<1>2. CASE deleteTargetSecret(w)
  <2>1. /\ wk[w].pc = "deleteTargetSecret" /\ wk[w].pc \in DeletePCs /\ ~At(w, "idle")
        /\ "removeDeprovisionFinalizer" \in DeletePCs /\ DeletePCs \subseteq PCs
    BY <1>2, Zenon DEF deleteTargetSecret, DeletePCs, PCs
  <2>2. Return(w) \/ Goto(w, "removeDeprovisionFinalizer")
    BY <1>2, Zenon DEF deleteTargetSecret, Call
  <2>3. QED
    BY <2>1, <2>2, ShapesProceed, Zenon
<1>3. CASE checkNamespace(w)
  <2> DEFINE found == NamespaceOf[wk[w].cr.ref] \in namespaces
             cr == [wk[w].cr EXCEPT !.status.conds = SetCondition(@, MissingNamespace, ~found)]
  <2>1. /\ ~At(w, "idle") /\ wk[w].pc \in SyncPCs
        /\ "sync" \notin DeletePCs \cup {"updateStatus", "addDeprovisionFinalizer",
                                        "removeDeprovisionFinalizer"}
        /\ "updateStatus" \notin SyncPCs \cup DeletePCs \cup {"removeDeprovisionFinalizer"}
    BY <1>3, Zenon DEF checkNamespace, SyncPCs, DeletePCs
  <2>2. wk[w].cr \in CredentialsRequest /\ wk[w].cr.status \in Status
    BY <2>1, Running, Zenon
  <2>3. /\ cr.status.user = wk[w].cr.status.user /\ SameButStatus(cr, wk[w].cr)
        /\ SameSync(cr.status, wk[w].cr.status)
    BY <2>2, Zenon DEF CredentialsRequest, Status, SameButStatus, SameSync
  <2>4. \/ Return(w)
        \/ wk' = [wk EXCEPT ![w].cr = cr, ![w].pc = "updateStatus"]
        \/ wk' = [wk EXCEPT ![w].cr = cr, ![w].pc = "sync"]
    BY <1>3, Zenon DEF checkNamespace
  <2> HIDE DEF cr
  <2>5. ASSUME NEW label \in {"updateStatus", "sync"},
               wk' = [wk EXCEPT ![w].cr = cr, ![w].pc = label]
        PROVE  Proceeds(w)
    <3>1. /\ wk'[w].pc = label /\ wk'[w].req = wk[w].req /\ wk'[w].base = wk[w].base
          /\ wk'[w].cr = cr /\ \A v \in Workers \ {w} : wk'[v] = wk[v]
      BY <1>1, <2>5, Zenon DEF Worker
    <3>2. QED
      BY <2>1, <2>3, <3>1, Zenon DEF Proceeds, SameButStatus
  <2>6. QED
    BY <2>1, <2>4, <2>5, ShapesProceed, Zenon
<1>4. QED
  BY <1>2, <1>3, Zenon

-----------------------------------------------------------------------------
(* The stored request *)

(* The copy of a request with another status.                              *)
LEMMA UpdatedStatus ==
    ASSUME NEW x \in CredentialsRequest, NEW s \in Status
    PROVE  Updated([x EXCEPT !.status = s], x, s)
  BY Zenon DEF Updated, SameButStatus, CredentialsRequest

(* The steps that write the request.                                       *)
LEMMA WritersStep ==
    ASSUME TypeInv, NEW w \in Workers,
           \/ addDeprovisionFinalizer(w) \/ updateStatus(w) \/ clearDeprovisionFailure(w)
           \/ removeDeprovisionFinalizer(w)
    PROVE  Proceeds(w) /\ Writes(w)
<1> USE DEF At
<1>1. ~At(w, "idle")
  BY Zenon DEF addDeprovisionFinalizer, updateStatus, clearDeprovisionFailure,
     removeDeprovisionFinalizer
<1>2. /\ wk \in [Workers -> Worker] /\ crs \in [CRs -> CredentialsRequest \cup {None}]
      /\ wk[w].req \in CRs /\ wk[w].base \in CredentialsRequest
      /\ wk[w].cr \in CredentialsRequest /\ wk[w].cr.status \in Status
  BY <1>1, Running, Zenon DEF TypeInv, TypeOK
<1>3. ASSUME NEW o, NoConflict(w), Store(w, o)
      PROVE  /\ crs[wk[w].req] = wk[w].base /\ crs'[wk[w].req] = o
             /\ \A c \in CRs \ {wk[w].req} : crs'[c] = crs[c]
  BY <1>2, <1>3, Zenon DEF NoConflict, Store
<1>4. CASE addDeprovisionFinalizer(w)
  <2>1. /\ Return(w) /\ wk[w].pc = "addDeprovisionFinalizer"
        /\ \/ UNCHANGED crs
           \/ NoConflict(w) /\ Store(w, [wk[w].base EXCEPT !.finalizer = TRUE])
    BY <1>4, Zenon DEF addDeprovisionFinalizer, Call
  <2>2. Protected([wk[w].base EXCEPT !.finalizer = TRUE], wk[w].base)
    BY <1>2, Zenon DEF Protected, CredentialsRequest
  <2>3. QED
    BY <1>1, <1>3, <2>1, <2>2, ShapesProceed, Zenon DEF Writes
<1>5. CASE updateStatus(w)
  <2>1. /\ Return(w) /\ wk[w].pc = "updateStatus"
        /\ UNCHANGED crs \/ (NoConflict(w) /\ Store(w, WithStatus(w)))
    BY <1>5, Zenon DEF updateStatus, Call
  <2>2. Updated(WithStatus(w), wk[w].base, wk[w].cr.status)
    BY <1>2, UpdatedStatus, Zenon DEF WithStatus
  <2>3. QED
    BY <1>1, <1>3, <2>1, <2>2, ShapesProceed, Zenon DEF Writes
<1>6. CASE removeDeprovisionFinalizer(w)
  <2>1. /\ Return(w) /\ wk[w].pc = "removeDeprovisionFinalizer"
        /\ UNCHANGED crs \/ (NoConflict(w) /\ Store(w, None))
    BY <1>6, Zenon DEF removeDeprovisionFinalizer, Call
  <2>2. QED
    BY <1>1, <1>3, <2>1, ShapesProceed, Zenon DEF Writes
<1>7. CASE clearDeprovisionFailure(w)
  <2> DEFINE status == [wk[w].cr.status EXCEPT
                          !.conds = SetCondition(@, DeprovisionFailure, FALSE)]
             stored == [wk[w].base EXCEPT !.status = status]
             next == [wk EXCEPT ![w].cr.status = status, ![w].pc = "deleteTargetSecret"]
  <2>1. /\ wk[w].pc = "clearDeprovisionFailure"
        /\ "clearDeprovisionFailure" \in DeletePCs
        /\ "deleteTargetSecret" \notin SyncPCs \cup {"updateStatus", "addDeprovisionFinalizer",
                                                    "removeDeprovisionFinalizer"}
    BY <1>7, Zenon DEF clearDeprovisionFailure, DeletePCs, SyncPCs
  <2>2. /\ status \in Status /\ status.user = wk[w].cr.status.user
        /\ SameSync(status, wk[w].cr.status)
        /\ status.provisioned = wk[w].cr.status.provisioned
    <3>1. status \in Status /\ status.user = wk[w].cr.status.user
      BY <1>2, WithCondition, ZenonT(30) DEF CondTypes
    <3>2. SameSync(status, wk[w].cr.status) /\ status.provisioned = wk[w].cr.status.provisioned
      BY <1>2, Zenon DEF SameSync, Status
    <3>3. QED
      BY <3>1, <3>2, Zenon
  <2>3. /\ UNCHANGED crs \/ (NoConflict(w) /\ Store(w, stored))
        /\ wk' = next \/ (wk' = [next EXCEPT ![w].base = stored] /\ Store(w, stored))
    BY <1>7, Zenon DEF clearDeprovisionFailure, Call
  <2> HIDE DEF status
  <2>4. Updated(stored, wk[w].base, status) /\ SameButStatus(stored, wk[w].base)
    BY <1>2, <2>2, UpdatedStatus, Zenon DEF Updated
  <2>5. /\ wk'[w].pc = "deleteTargetSecret" /\ wk'[w].req = wk[w].req
        /\ wk'[w].base = wk[w].base \/ (wk'[w].base = stored /\ crs'[wk[w].req] = stored)
        /\ wk'[w].cr.status = status /\ SameButStatus(wk'[w].cr, wk[w].cr)
        /\ \A v \in Workers \ {w} : wk'[v] = wk[v]
    <3> HIDE DEF stored
    <3>1. CASE wk' = next
      BY <1>2, <3>1 DEF Worker, CredentialsRequest, SameButStatus
    <3>2. CASE wk' = [next EXCEPT ![w].base = stored] /\ Store(w, stored)
      BY <1>2, <3>2 DEF Worker, CredentialsRequest, SameButStatus, Store
    <3>3. QED
      BY <2>3, <3>1, <3>2, Zenon
  <2> HIDE DEF next, stored
  <2>6. Proceeds(w)
    <3>1. stored.status = status
      BY <2>4, Zenon DEF Updated
    <3>2. QED
      BY <2>1, <2>2, <2>4, <2>5, <3>1, Zenon DEF Proceeds, SameButStatus
  <2>7. Writes(w)
    <3>1. /\ \A c \in CRs \ {wk[w].req} : crs'[c] = crs[c]
          /\ \/ crs'[wk[w].req] = crs[wk[w].req]
             \/ crs[wk[w].req] = wk[w].base /\ crs'[wk[w].req] = stored
      BY <1>3, <2>3, Zenon
    <3>2. QED
      BY <2>1, <2>2, <2>4, <3>1, Zenon DEF Writes
  <2>8. QED
    BY <2>6, <2>7, Zenon
<1>8. QED
  BY <1>4, <1>5, <1>6, <1>7, Zenon

(* The naming of the user.                                                 *)
LEMMA userNameStep ==
    ASSUME TypeInv, NEW w \in Workers, userName(w)
    PROVE  Proceeds(w) /\ Writes(w)
<1> USE DEF At
<1>1. /\ ~At(w, "idle") /\ wk[w].pc = "userName" /\ wk[w].pc \in SyncPCs
      /\ "GetUser" \in SyncPCs /\ "GetUser" \in PCs
      /\ "GetUser" \notin DeletePCs \cup {"updateStatus", "addDeprovisionFinalizer",
                                         "removeDeprovisionFinalizer"}
      /\ "updateStatus" \notin SyncPCs \cup DeletePCs \cup {"removeDeprovisionFinalizer"}
  BY Zenon DEF userName, SyncPCs, DeletePCs, PCs
<1>2. /\ wk \in [Workers -> Worker] /\ crs \in [CRs -> CredentialsRequest \cup {None}]
      /\ wk[w].req \in CRs /\ wk[w].base \in CredentialsRequest
      /\ wk[w].cr \in CredentialsRequest /\ wk[w].cr.status \in Status
  BY <1>1, Running, Zenon DEF TypeInv, TypeOK
<1>3. CASE UserName(w) # None /\ Goto(w, "GetUser") /\ UNCHANGED crs
  BY <1>1, <1>3, ShapesProceed, Zenon DEF Writes
<1>4. CASE UserName(w) = None /\ updateProviderStatus(w)
  <2> DEFINE named(u) == [wk[w].cr EXCEPT !.status.user = u]
             stored(u) == [wk[w].base EXCEPT !.status = named(u).status]
  <2>1. PICK u \in Users :
          /\ FreshUser(u)
          /\ Call(NoConflict(w), Store(w, stored(u)), UNCHANGED crs,
                  wk' = [wk EXCEPT ![w].cr = named(u), ![w].base = stored(u), ![w].pc = "GetUser"],
                  Finish(w, FailedStatus(named(u).status, ProvisionFailure)))
    BY <1>4, Zenon DEF updateProviderStatus
  <2>2. /\ named(u).status = [wk[w].cr.status EXCEPT !.user = u]
        /\ named(u).status.user = u /\ SameButStatus(named(u), wk[w].cr)
        /\ SameSync(named(u).status, wk[w].cr.status)
        /\ named(u).status.provisioned = wk[w].cr.status.provisioned
    BY <1>2, Zenon DEF CredentialsRequest, Status, SameButStatus, SameSync
  <2>3. named(u).status \in Status
    BY <1>2, <2>2 DEF Status
  <2>4. Updated(stored(u), wk[w].base, named(u).status) /\ SameButStatus(stored(u), wk[w].base)
    BY <1>2, <2>3, UpdatedStatus, ZenonT(40) DEF Updated
  <2> DEFINE failed == FailedStatus(named(u).status, ProvisionFailure)
             after == [wk[w].cr EXCEPT !.status = failed]
  <2>5. failed.user = u /\ SameSync(failed, wk[w].cr.status)
    <3>1. [wk[w].cr.status EXCEPT !.user = u] \in Status
      BY <1>2, Zenon DEF Status
    <3>2. QED
      BY <2>2, <3>1, Zenon DEF FailedStatus, Status, SameSync
  <2> HIDE DEF failed
  <2>6. after.status = failed /\ SameButStatus(after, wk[w].cr)
    BY <1>2, Zenon DEF CredentialsRequest, SameButStatus
  <2> HIDE DEF named, stored, after
  <2>7. \/ /\ wk'[w].pc = "GetUser" /\ wk'[w].cr = named(u) /\ wk'[w].base = stored(u)
           /\ wk'[w].req = wk[w].req /\ \A v \in Workers \ {w} : wk'[v] = wk[v]
           /\ crs'[wk[w].req] = stored(u)
        \/ /\ wk'[w].pc = "updateStatus" /\ wk'[w].cr = after /\ wk'[w].base = wk[w].base
           /\ wk'[w].req = wk[w].req /\ \A v \in Workers \ {w} : wk'[v] = wk[v]
    <3>1. ASSUME wk' = [wk EXCEPT ![w].cr = named(u), ![w].base = stored(u), ![w].pc = "GetUser"]
          PROVE  /\ wk'[w].pc = "GetUser" /\ wk'[w].cr = named(u) /\ wk'[w].base = stored(u)
                 /\ wk'[w].req = wk[w].req /\ \A v \in Workers \ {w} : wk'[v] = wk[v]
      BY <1>2, <3>1, Zenon DEF Worker
    <3>2. ASSUME Finish(w, failed)
          PROVE  /\ wk'[w].pc = "updateStatus" /\ wk'[w].cr = after /\ wk'[w].base = wk[w].base
                 /\ wk'[w].req = wk[w].req /\ \A v \in Workers \ {w} : wk'[v] = wk[v]
      BY <1>2, <3>2, Zenon DEF Finish, Locals, after
    <3>3. Store(w, stored(u)) => crs'[wk[w].req] = stored(u)
      BY <1>2, Zenon DEF Store
    <3>4. QED
      BY <2>1, <3>1, <3>2, <3>3, Zenon DEF Call, failed
  <2>8. wk'[w].cr.status.user = u
    BY <2>2, <2>5, <2>6, <2>7, Zenon
  <2>9. stored(u).status = named(u).status
    BY <2>4, Zenon DEF Updated
  <2>10. Proceeds(w)
    <3>1. wk'[w].pc \in SyncPCs => crs'[wk[w].req] = wk'[w].base /\ wk'[w].base.status.user = u
      BY <1>1, <2>2, <2>7, <2>9, Zenon
    <3>2. FreshUser(u)
      BY <2>1, Zenon
    <3>3. DrawsName(w)
      BY <1>1, <1>4, <2>8, <3>1, <3>2, Zenon DEF DrawsName
    <3>4. CASE /\ wk'[w].pc = "GetUser" /\ wk'[w].cr = named(u) /\ wk'[w].base = stored(u)
               /\ wk'[w].req = wk[w].req /\ \A v \in Workers \ {w} : wk'[v] = wk[v]
               /\ crs'[wk[w].req] = stored(u)
      BY <1>1, <2>2, <2>4, <2>9, <3>3, <3>4, Zenon DEF Proceeds
    <3>5. CASE /\ wk'[w].pc = "updateStatus" /\ wk'[w].cr = after /\ wk'[w].base = wk[w].base
               /\ wk'[w].req = wk[w].req /\ \A v \in Workers \ {w} : wk'[v] = wk[v]
      BY <1>1, <2>5, <2>6, <3>3, <3>5, Zenon DEF Proceeds, SameButStatus
    <3>6. QED
      BY <2>7, <3>4, <3>5, Zenon
  <2>11. UNCHANGED crs \/ (NoConflict(w) /\ Store(w, stored(u)))
    BY <2>1, Zenon DEF Call
  <2>12. /\ \A c \in CRs \ {wk[w].req} : crs'[c] = crs[c]
         /\ \/ crs'[wk[w].req] = crs[wk[w].req]
            \/ crs[wk[w].req] = wk[w].base /\ crs'[wk[w].req] = stored(u)
    BY <1>2, <2>11, Zenon DEF NoConflict, Store
  <2>13. Writes(w)
    BY <1>1, <1>4, <2>1, <2>2, <2>3, <2>4, <2>8, <2>12, Zenon DEF Writes
  <2>14. QED
    BY <2>10, <2>13, Zenon
<1>5. QED
  BY <1>3, <1>4, Zenon DEF userName

(* Every step of a Reconcile call.                                         *)
LEMMA CallStep ==
    ASSUME TypeInv, NEW w \in Workers, WorkerStep(w)
    PROVE  /\ Proceeds(w) /\ Writes(w)
           /\ UNCHANGED crCache
           /\ wk[w].pc # "idle" /\ wk[w].req \in CRs
<1>1. UNCHANGED crCache
  BY Zenon DEF WorkerStep, checkNamespace, Sync, Delete, deleteTargetSecret, sync,
     needsUpdateUser, needsUpdateKeys, needsUpdatePolicy, cloudCreds, GetUser, CreateUser, TagUser,
     PutUserPolicy, ListAccessKeys, rotateAccessKeys, CreateAccessKey, syncAccessKeySecret,
     DeleteUserPolicy, DeleteListAccessKeys, DeleteAccessKeys, DeleteUser, Reads,
     NoAPIWrite, apiVars, cacheVars, userName, addDeprovisionFinalizer, updateStatus,
     clearDeprovisionFailure, removeDeprovisionFinalizer
<1>2. ASSUME checkNamespace(w) \/ (Sync(w) /\ ~userName(w)) \/ Delete(w) \/ deleteTargetSecret(w)
      PROVE  Proceeds(w) /\ Writes(w)
  <2>1. UNCHANGED crs
    BY <1>2, Zenon DEF checkNamespace, Sync, Delete, deleteTargetSecret, sync,
       needsUpdateUser, needsUpdateKeys, needsUpdatePolicy, cloudCreds, GetUser, CreateUser, TagUser,
       PutUserPolicy, ListAccessKeys, rotateAccessKeys, CreateAccessKey, syncAccessKeySecret,
       DeleteUserPolicy, DeleteListAccessKeys, DeleteAccessKeys, DeleteUser, Reads,
       NoAPIWrite, apiVars
  <2>2. Proceeds(w)
    BY <1>2, SyncProceeds, DeleteProceeds, ReadingProceeds, Zenon
  <2>3. QED
    BY <2>1, <2>2, Zenon DEF Writes
<1>3. Proceeds(w) /\ Writes(w)
  <2>1. CASE userName(w)
    BY <2>1, userNameStep, Zenon
  <2>2. CASE \/ addDeprovisionFinalizer(w) \/ updateStatus(w) \/ clearDeprovisionFailure(w)
             \/ removeDeprovisionFinalizer(w)
    BY <2>2, WritersStep, Zenon
  <2>3. QED
    BY <1>2, <2>1, <2>2, Zenon DEF WorkerStep
<1>4. wk[w].pc # "idle"
  BY <1>3, Zenon DEF Proceeds
<1>5. QED
  BY <1>1, <1>3, <1>4, Running, Zenon DEF At

-----------------------------------------------------------------------------
(* The users in IAM *)

(* Every step of a Reconcile call.                                         *)
LEMMA IAMStep ==
    ASSUME TypeInv, NEW w \in Workers, WorkerStep(w)
    PROVE  UsesIAM(w)
<1> USE DEF At
<1>1. UNCHANGED iam => UsesIAM(w)
  BY Zenon DEF UsesIAM
<1>2. iam \in [Users -> User \cup {None}] /\ None \notin User
  BY DistinctAssumption, Zenon DEF TypeInv, TypeOK
<1>3. wk[w].pc \in NamedPCs => /\ UserName(w) \in Users
                               /\ iam[UserName(w)] \in User \cup {None}
  BY NamedUser, Zenon DEF TheUser
<1>4. ASSUME wk[w].pc \in {"rotateAccessKeys", "DeleteAccessKeys"}, UserExists(w), NEW k,
             iam' = [iam EXCEPT ![UserName(w)].keys = @ \ {k}]
      PROVE  UsesIAM(w)
  <2>0. wk[w].pc \in NamedPCs /\ (wk[w].pc = "DeleteAccessKeys" => wk[w].pc \in DeletePCs)
    BY <1>4, Zenon DEF NamedPCs, DeletePCs
  <2> DEFINE x == [iam[UserName(w)] EXCEPT !.keys = @ \ {k}]
  <2>1. /\ x \in User /\ x.keys \subseteq iam[UserName(w)].keys
        /\ x.tagged = iam[UserName(w)].tagged /\ x.policy = iam[UserName(w)].policy
    BY <1>3, <1>4, <2>0, Zenon DEF User, UserExists, TheUser
  <2>2. iam' = [iam EXCEPT ![UserName(w)] = x]
    BY <1>4, Zenon
  <2> HIDE DEF x
  <2>3. iam'[UserName(w)] = x /\ \A v \in Users \ {UserName(w)} : iam'[v] = iam[v]
    BY <1>2, <1>3, <2>0, <2>2, Zenon
  <2>4. x # None
    BY <1>2, <2>1, Zenon
  <2>5. QED
    BY <1>4, <2>0, <2>1, <2>3, <2>4, Zenon DEF UsesIAM, UserExists, TheUser
<1>5. CASE CreateUser(w)
  <2>1. wk[w].pc = "CreateUser" /\ wk[w].pc \in NamedPCs
    BY <1>5, Zenon DEF CreateUser, NamedPCs
  <2>2. UNCHANGED iam \/ (~UserExists(w) /\ iam' = [iam EXCEPT ![UserName(w)] = User0])
    BY <1>5, Zenon DEF CreateUser
  <2>3. iam' = [iam EXCEPT ![UserName(w)] = User0]
          => iam'[UserName(w)] = User0 /\ \A v \in Users \ {UserName(w)} : iam'[v] = iam[v]
    BY <1>2, <1>3, <2>1, Zenon
  <2>4. QED
    BY <1>1, <2>1, <2>2, <2>3, Zenon DEF UsesIAM, UserExists, TheUser
<1>6. CASE TagUser(w)
  <2>1. wk[w].pc = "TagUser" /\ wk[w].pc \in NamedPCs
    BY <1>6, Zenon DEF TagUser, NamedPCs
  <2>2. UNCHANGED iam \/ (UserExists(w) /\ iam' = [iam EXCEPT ![UserName(w)].tagged = TRUE])
    BY <1>6, Zenon DEF TagUser, Call
  <2>3. ASSUME UserExists(w), iam' = [iam EXCEPT ![UserName(w)].tagged = TRUE]
        PROVE  /\ iam[UserName(w)] # None /\ iam'[UserName(w)] # None
               /\ iam'[UserName(w)].tagged
               /\ iam'[UserName(w)].policy = iam[UserName(w)].policy
               /\ iam'[UserName(w)].keys = iam[UserName(w)].keys
               /\ \A v \in Users \ {UserName(w)} : iam'[v] = iam[v]
    BY <1>2, <1>3, <2>1, <2>3, Zenon DEF User, UserExists, TheUser
  <2>4. QED
    BY <1>1, <2>1, <2>2, <2>3, Zenon DEF UsesIAM
<1>7. CASE PutUserPolicy(w)
  <2>1. wk[w].pc = "PutUserPolicy" /\ wk[w].pc \in NamedPCs /\ ~At(w, "idle")
    BY <1>7, Zenon DEF PutUserPolicy, NamedPCs
  <2>2. \/ UNCHANGED iam
        \/ /\ UserExists(w)
           /\ iam' = [iam EXCEPT ![UserName(w)].policy = wk[w].cr.policy]
    BY <1>7, Zenon DEF PutUserPolicy, setUserPolicy, getDesiredUserPolicy, Call
  <2>3. wk[w].cr.policy \in Policies
    BY <2>1, Running, Zenon DEF CredentialsRequest
  <2>4. ASSUME UserExists(w), iam' = [iam EXCEPT ![UserName(w)].policy = wk[w].cr.policy]
        PROVE  /\ iam[UserName(w)] # None /\ iam'[UserName(w)] # None
               /\ iam'[UserName(w)].tagged = iam[UserName(w)].tagged
               /\ iam'[UserName(w)].policy = wk[w].cr.policy
               /\ iam'[UserName(w)].keys = iam[UserName(w)].keys
               /\ \A v \in Users \ {UserName(w)} : iam'[v] = iam[v]
    BY <1>2, <1>3, <2>1, <2>3, <2>4, Zenon DEF User, UserExists, TheUser
  <2>5. QED
    BY <1>1, <2>1, <2>2, <2>4, Zenon DEF UsesIAM
<1>8. CASE rotateAccessKeys(w) \/ DeleteAccessKeys(w)
  <2>1. wk[w].pc \in {"rotateAccessKeys", "DeleteAccessKeys"}
    BY <1>8, Zenon DEF rotateAccessKeys, DeleteAccessKeys
  <2>2. \/ UNCHANGED iam
        \/ /\ UserExists(w)
           /\ \E k : iam' = [iam EXCEPT ![UserName(w)].keys = @ \ {k}]
    BY <1>8, Zenon DEF rotateAccessKeys, DeleteAccessKeys, deleteAccessKey, Call
  <2>3. QED
    BY <1>1, <1>4, <2>1, <2>2, Zenon
<1>9. CASE CreateAccessKey(w)
  <2>1. wk[w].pc = "CreateAccessKey" /\ wk[w].pc \in NamedPCs
    BY <1>9, Zenon DEF CreateAccessKey, NamedPCs
  <2>2. CASE UNCHANGED iam
    BY <1>1, <2>2, Zenon
  <2>3. ASSUME NEW new, NEW k, Creates(w, new, k)
        PROVE  UsesIAM(w)
    <3>1. /\ new \subseteq Keys /\ (\A j \in new : FreshKey(j)) /\ UserExists(w)
          /\ iam' = [iam EXCEPT ![UserName(w)].keys = @ \cup new]
      BY <2>3, Zenon DEF Creates
    <3>2. /\ iam[UserName(w)] # None /\ iam'[UserName(w)] # None
          /\ iam'[UserName(w)].tagged = iam[UserName(w)].tagged
          /\ iam'[UserName(w)].policy = iam[UserName(w)].policy
          /\ iam'[UserName(w)].keys = iam[UserName(w)].keys \cup new
          /\ \A v \in Users \ {UserName(w)} : iam'[v] = iam[v]
      BY <1>2, <1>3, <2>1, <3>1, Zenon DEF User, UserExists, TheUser
    <3>3. AddsKeys(iam'[UserName(w)].keys, iam[UserName(w)].keys)
      BY <3>1, <3>2, Zenon DEF AddsKeys
    <3>4. QED
      BY <2>1, <3>2, <3>3, Zenon DEF UsesIAM
  <2>4. QED
    BY <1>9, <2>2, <2>3, CreatesKeys, Zenon
<1>10. CASE DeleteUserPolicy(w)
  <2>1. ~At(w, "idle") /\ wk[w].pc \in DeletePCs
    BY <1>10, Zenon DEF DeleteUserPolicy, DeletePCs
  <2> DEFINE x == IF iam[UserName(w)] = None THEN None
                  ELSE [iam[UserName(w)] EXCEPT !.policy = None]
  <2>2. UNCHANGED iam \/ (UserName(w) # None /\ iam' = [iam EXCEPT ![UserName(w)] = x])
    BY <1>10, Zenon DEF DeleteUserPolicy, Call
  <2>3. UserName(w) # None => UserName(w) \in Users
    BY <2>1, Running, Zenon DEF UserName, Status
  <2>4. UserName(w) # None =>
          \/ iam[UserName(w)] = None /\ x = None
          \/ /\ iam[UserName(w)] # None /\ x # None
             /\ x.keys = iam[UserName(w)].keys
    BY <1>2, <2>3 DEF User
  <2> HIDE DEF x
  <2>5. ASSUME UserName(w) # None, iam' = [iam EXCEPT ![UserName(w)] = x]
        PROVE  iam'[UserName(w)] = x /\ \A v \in Users \ {UserName(w)} : iam'[v] = iam[v]
    BY <1>2, <2>3, <2>5, Zenon
  <2>6. QED
    BY <1>1, <2>1, <2>2, <2>4, <2>5, Zenon DEF UsesIAM
<1>11. CASE DeleteUser(w)
  <2>1. wk[w].pc = "DeleteUser" /\ wk[w].pc \in NamedPCs
    BY <1>11, Zenon DEF DeleteUser, NamedPCs
  <2>2. UNCHANGED iam \/ iam' = [iam EXCEPT ![UserName(w)] = None]
    BY <1>11, Zenon DEF DeleteUser, Call
  <2>3. iam' = [iam EXCEPT ![UserName(w)] = None]
          => iam'[UserName(w)] = None /\ \A v \in Users \ {UserName(w)} : iam'[v] = iam[v]
    BY <1>2, <1>3, <2>1, Zenon
  <2>4. QED
    BY <1>1, <2>1, <2>2, <2>3, Zenon DEF UsesIAM
<1>12. CASE \/ addDeprovisionFinalizer(w) \/ checkNamespace(w) \/ updateStatus(w)
            \/ clearDeprovisionFailure(w) \/ deleteTargetSecret(w)
            \/ removeDeprovisionFinalizer(w) \/ sync(w) \/ needsUpdateUser(w)
            \/ needsUpdateKeys(w) \/ needsUpdatePolicy(w) \/ cloudCreds(w) \/ userName(w)
            \/ GetUser(w) \/ ListAccessKeys(w) \/ syncAccessKeySecret(w)
            \/ DeleteListAccessKeys(w)
  <2>1. UNCHANGED iam
    BY <1>12, Zenon DEF addDeprovisionFinalizer, checkNamespace, updateStatus,
       clearDeprovisionFailure, deleteTargetSecret, removeDeprovisionFinalizer, sync,
       needsUpdateUser, needsUpdateKeys, needsUpdatePolicy, cloudCreds, userName, GetUser,
       ListAccessKeys, syncAccessKeySecret, DeleteListAccessKeys, Reads
  <2>2. QED
    BY <1>1, <2>1, Zenon
<1>13. QED
  BY <1>5, <1>6, <1>7, <1>8, <1>9, <1>10, <1>11, <1>12, Zenon DEF WorkerStep, Sync, Delete

(* Every step of a Reconcile call.                                         *)
LEMMA UserStep ==
    ASSUME TypeInv, NEW w \in Workers, WorkerStep(w)
    PROVE  ChangesUsers(w)
<1>1. UsesIAM(w) /\ User0.keys = {}
  BY IAMStep, Zenon DEF User0
<1>2. ASSUME NEW u \in Users, u # UserName(w)
      PROVE  iam'[u] = iam[u]
  BY <1>1, <1>2, Zenon DEF UsesIAM
<1>3. QED
  BY <1>1, <1>2, Zenon DEF ChangesUsers, UsesIAM

(* Actuator.Delete succeeds when there is no user to delete, when AWS does *)
(* not know the user, or when it has deleted the user.                     *)
LEMMA DeleteStep ==
    ASSUME TypeInv, NEW w \in Workers, WorkerStep(w)
    PROVE  Deprovisioned(w)
<1> SUFFICES ASSUME wk'[w].pc \in DeletedPCs, wk[w].pc \notin DeletedPCs
             PROVE  UserName(w) = None \/ iam'[UserName(w)] = None
  BY Zenon DEF Deprovisioned
<1>1. /\ Proceeds(w) /\ wk[w].pc \in DeletePCs \ DeletedPCs
      /\ wk \in [Workers -> Worker] /\ iam \in [Users -> User \cup {None}]
  BY CallStep, Zenon DEF Proceeds, DeletePCs, DeletedPCs, TypeInv, TypeOK
<1>2. Delete(w)
  BY <1>1, Zenon DEF WorkerStep, checkNamespace, Sync, deleteTargetSecret, sync,
     needsUpdateUser, needsUpdateKeys, needsUpdatePolicy, cloudCreds, GetUser, CreateUser, TagUser,
     PutUserPolicy, ListAccessKeys, rotateAccessKeys, CreateAccessKey, syncAccessKeySecret,
     userName, addDeprovisionFinalizer, updateStatus, clearDeprovisionFailure,
     removeDeprovisionFinalizer, DeletePCs, DeletedPCs, At
<1>3. ~Goto(w, "DeleteListAccessKeys") /\ ~Goto(w, "DeleteUser") /\ ~DeprovisionFail(w)
  <2>1. ASSUME NEW label, Goto(w, label) PROVE wk'[w].pc = label
    BY <1>1, <2>1, Zenon DEF Goto, Worker
  <2>2. DeprovisionFail(w) => wk'[w].pc = "updateStatus"
    BY <1>1 DEF DeprovisionFail, Finish, Locals
  <2>3. DeletedPCs \cap {"DeleteListAccessKeys", "DeleteUser", "updateStatus"} = {}
    BY Zenon DEF DeletedPCs
  <2>4. QED
    BY <2>1, <2>2, <2>3, Zenon
<1>4. CASE DeleteUserPolicy(w)
  BY <1>3, <1>4, Zenon DEF DeleteUserPolicy, Call
<1>5. CASE DeleteListAccessKeys(w)
  <2>1. wk' # [wk EXCEPT ![w].pc = "DeleteAccessKeys", ![w].keyList = TheUser(w).keys]
    BY <1>1 DEF Worker, DeletedPCs
  <2>2. QED
    BY <1>3, <1>5, <2>1, Zenon DEF DeleteListAccessKeys, Reads, UserExists, TheUser
<1>6. CASE DeleteAccessKeys(w)
  <2>1. wk[w].pc = "DeleteAccessKeys"
    BY <1>6, Zenon DEF DeleteAccessKeys, At
  <2>2. ASSUME NEW k PROVE wk' # [wk EXCEPT ![w].keyList = @ \ {k}]
    BY <1>1, <2>1, Zenon DEF Worker, DeletedPCs
  <2>3. QED
    BY <1>3, <1>6, <2>2, Zenon DEF DeleteAccessKeys, deleteAccessKey, Call
<1>7. CASE DeleteUser(w)
  <2>1. UserName(w) \in Users
    BY <1>7, NamedUser, Zenon DEF DeleteUser, NamedPCs, At
  <2>2. QED
    BY <1>1, <1>3, <1>7, <2>1, Zenon DEF DeleteUser, Call
<1>8. QED
  BY <1>2, <1>4, <1>5, <1>6, <1>7, Zenon DEF Delete

-----------------------------------------------------------------------------
(* The locals of sync *)

(* The steps of sync that do not go on with it.                            *)
LEMMA EndsSync ==
    ASSUME TypeInv, NEW w \in Workers,
           \/ Return(w) \/ Succeed(w) \/ (\E reason : Fail(w, reason))
           \/ \E label \in PanicPCs : Goto(w, label)
    PROVE  wk'[w].pc \notin SyncPCs
<1>1. wk \in [Workers -> Worker]
  BY Zenon DEF TypeInv, TypeOK
<1>2. CASE Return(w)
  BY <1>1, <1>2, Zenon DEF Return, IdleWorker, Locals, SyncPCs
<1>3. CASE Succeed(w) \/ \E reason : Fail(w, reason)
  <2>1. PICK s : Finish(w, s)
    BY <1>3, Zenon DEF Succeed, Fail
  <2>2. QED
    BY <1>1, <2>1, Zenon DEF Finish, Locals, SyncPCs
<1>4. CASE \E label \in PanicPCs : Goto(w, label)
  BY <1>1, <1>4 DEF Goto, Worker, PanicPCs, SyncPCs
<1>5. QED
  BY <1>2, <1>3, <1>4, Zenon

(* Going on with the locals as they are.                                   *)
LEMMA GotoKeeps ==
    ASSUME TypeInv, NEW w \in Workers, NEW label, Goto(w, label)
    PROVE  wk'[w].pc = label /\ Keeps(w)
  BY DEF TypeInv, TypeOK, Goto, Worker, Keeps

(* The steps that look whether an update is needed, and how.               *)
LEMMA ChecksAdvance ==
    ASSUME TypeInv, NEW w \in Workers, wk'[w].pc \in SyncPCs,
           \/ checkNamespace(w) \/ sync(w) \/ needsUpdateUser(w) \/ needsUpdateKeys(w)
           \/ needsUpdatePolicy(w) \/ cloudCreds(w)
    PROVE  Advances(w)
<1> USE DEF At
<1>1. wk \in [Workers -> Worker]
  BY Zenon DEF TypeInv, TypeOK
<1>2. ASSUME NEW label, Goto(w, label)
      PROVE  wk'[w].pc = label /\ Keeps(w) /\ wk'[w].newKey = wk[w].newKey
  BY <1>2, GotoKeeps, Zenon DEF Keeps
<1>3. CASE checkNamespace(w)
  <2>1. "updateStatus" \notin SyncPCs /\ ~Return(w)
    BY EndsSync, Zenon DEF SyncPCs
  <2>2. \E cr : \/ /\ wk' = [wk EXCEPT ![w].cr = cr, ![w].pc = "sync"]
                   /\ ~RecentlySynced(cr)
                \/ wk' = [wk EXCEPT ![w].cr = cr, ![w].pc = "updateStatus"]
    BY <1>3, <2>1, Zenon DEF checkNamespace
  <2>3. \E cr : /\ wk'[w].cr = cr /\ wk'[w].newKey = wk[w].newKey
                /\ wk'[w].pc = "updateStatus" \/ (wk'[w].pc = "sync" /\ ~RecentlySynced(cr))
    <3> HIDE DEF RecentlySynced
    <3>1. QED
      BY <1>1, <2>2 DEF Worker
  <2>4. wk[w].pc = "namespace"
    BY <1>3, Zenon DEF checkNamespace
  <2>5. QED
    BY <2>1, <2>3, <2>4, Zenon DEF Advances
<1>4. CASE sync(w)
  <2>1. \/ Goto(w, "cloudCreds") /\ wk[w].pc = "sync"
        \/ /\ wk[w].pc = "sync" /\ TargetSecret(w) # None
           /\ wk' = [wk EXCEPT ![w].pc = "needsUpdateUser", ![w].existing = TargetSecret(w)]
    BY <1>4, EndsSync, Zenon DEF sync, Exists
  <2>2. ASSUME wk' = [wk EXCEPT ![w].pc = "needsUpdateUser", ![w].existing = TargetSecret(w)]
        PROVE  /\ wk'[w].pc = "needsUpdateUser" /\ wk'[w].existing = TargetSecret(w)
               /\ wk'[w].newKey = wk[w].newKey
    BY <1>1, <2>2 DEF Worker
  <2>3. QED
    BY <1>2, <2>1, <2>2, Zenon DEF Advances
<1>5. CASE needsUpdateUser(w) \/ needsUpdateKeys(w) \/ needsUpdatePolicy(w)
  <2>1. \/ /\ Goto(w, "cloudCreds")
           /\ wk[w].pc \in {"needsUpdateUser", "needsUpdateKeys", "needsUpdatePolicy"}
        \/ /\ wk[w].pc = "needsUpdateUser" /\ Goto(w, "needsUpdateKeys")
           /\ UserExists(w) /\ TheUser(w).tagged
        \/ /\ wk[w].pc = "needsUpdateKeys" /\ Goto(w, "needsUpdatePolicy")
           /\ UserExists(w) /\ wk[w].existing.key \in TheUser(w).keys
    BY <1>5, EndsSync, ZenonT(30) DEF needsUpdateUser, needsUpdateKeys, needsUpdatePolicy,
       userHasExpectedTags, accessKeyExists
  <2>2. QED
    BY <1>2, <2>1, Zenon DEF Advances, UserExists
<1>6. CASE cloudCreds(w)
  <2> DEFINE key == IF root.keys THEN RootKey ELSE EmptyKey
  <2>1. \/ wk[w].pc = "cloudCreds" /\ RootMode = "mint" /\ Goto(w, "userName")
        \/ /\ wk[w].pc = "cloudCreds" /\ RootMode = "passthrough"
           /\ wk' = [wk EXCEPT ![w].pc = "syncAccessKeySecret",
                               ![w].existing = TargetSecret(w), ![w].newKey = key]
    BY <1>6, EndsSync, Zenon DEF cloudCreds
  <2> HIDE DEF key
  <2>2. ASSUME wk' = [wk EXCEPT ![w].pc = "syncAccessKeySecret",
                                ![w].existing = TargetSecret(w), ![w].newKey = key]
        PROVE  /\ wk'[w].pc = "syncAccessKeySecret" /\ wk'[w].existing = TargetSecret(w)
               /\ wk'[w].newKey = key
    BY <1>1, <2>2, Zenon DEF Worker
  <2>3. QED
    BY <1>2, <2>1, <2>2, Zenon DEF Advances, key
<1>7. QED
  BY <1>3, <1>4, <1>5, <1>6, Zenon

(* The steps that bring the user up to date.                               *)
LEMMA UserAdvances ==
    ASSUME TypeInv, NEW w \in Workers, wk'[w].pc \in SyncPCs,
           userName(w) \/ GetUser(w) \/ CreateUser(w) \/ TagUser(w) \/ PutUserPolicy(w)
    PROVE  Advances(w)
<1> USE DEF At
<1>1. wk \in [Workers -> Worker] /\ iam \in [Users -> User \cup {None}] /\ None \notin User
  BY DistinctAssumption, Zenon DEF TypeInv, TypeOK
<1>2. ASSUME NEW label, Goto(w, label)
      PROVE  wk'[w].pc = label /\ wk'[w].newKey = wk[w].newKey
  BY <1>2, GotoKeeps, Zenon DEF Keeps
<1>3. CASE userName(w)
  <2>1. ASSUME NEW u, Finish(w, u)
        PROVE  FALSE
    BY <1>1, <2>1, Zenon DEF Finish, Locals, SyncPCs
  <2>2. \/ wk[w].pc = "userName" /\ Goto(w, "GetUser")
        \/ /\ wk[w].pc = "userName"
           /\ \E named, stored :
                wk' = [wk EXCEPT ![w].cr = named, ![w].base = stored, ![w].pc = "GetUser"]
    BY <1>3, <2>1, Zenon DEF userName, updateProviderStatus, Call
  <2>3. ASSUME NEW named, NEW stored,
               wk' = [wk EXCEPT ![w].cr = named, ![w].base = stored, ![w].pc = "GetUser"]
        PROVE  wk'[w].pc = "GetUser" /\ wk'[w].newKey = wk[w].newKey
    BY <1>1, <2>3 DEF Worker
  <2>4. wk'[w].pc = "GetUser" /\ wk'[w].newKey = wk[w].newKey
    BY <1>2, <2>2, <2>3, Zenon
  <2>5. QED
    BY <2>2, <2>4, Zenon DEF Advances
<1>4. CASE GetUser(w)
  <2> DEFINE label == IF ~UserExists(w) THEN "CreateUser"
                      ELSE IF userHasExpectedTags(w) THEN "PutUserPolicy" ELSE "TagUser"
  <2>1. /\ wk[w].pc = "GetUser" /\ UNCHANGED iam
        /\ wk' = [wk EXCEPT ![w].rootClient = RootClient, ![w].pc = label]
    BY <1>4, EndsSync, Zenon DEF GetUser, Reads
  <2>2. \/ label \in {"CreateUser", "TagUser"}
        \/ label = "PutUserPolicy" /\ UserExists(w) /\ TheUser(w).tagged
    BY Zenon DEF userHasExpectedTags
  <2> HIDE DEF label
  <2>3. wk'[w].pc = label /\ wk'[w].newKey = wk[w].newKey
    BY <1>1, <2>1 DEF Worker
  <2>4. QED
    BY <2>1, <2>2, <2>3, Zenon DEF Advances, UserExists, TheUser
<1>5. CASE CreateUser(w)
  <2>1. wk[w].pc = "CreateUser" /\ Goto(w, "TagUser")
    BY <1>5, EndsSync, Zenon DEF CreateUser, PanicPCs
  <2>2. QED
    BY <1>2, <2>1, Zenon DEF Advances
<1>6. CASE TagUser(w)
  <2>1. wk[w].pc \in NamedPCs
    BY <1>6, Zenon DEF TagUser, NamedPCs
  <2>2. /\ wk[w].pc = "TagUser" /\ Goto(w, "PutUserPolicy") /\ UserExists(w)
        /\ iam' = [iam EXCEPT ![UserName(w)].tagged = TRUE]
    BY <1>6, EndsSync, Zenon DEF TagUser, Call
  <2>3. iam'[UserName(w)] # None /\ iam'[UserName(w)].tagged
    BY <1>1, <2>1, <2>2, NamedUser, Zenon DEF User, UserExists, TheUser
  <2>4. QED
    BY <1>2, <2>2, <2>3, Zenon DEF Advances
<1>7. CASE PutUserPolicy(w)
  <2>1. wk[w].pc \in NamedPCs /\ ~At(w, "idle")
    BY <1>7, Zenon DEF PutUserPolicy, NamedPCs
  <2>2. /\ wk[w].pc = "PutUserPolicy" /\ Goto(w, "ListAccessKeys")
        /\ \/ UNCHANGED iam /\ getCurrentUserPolicy(w) = wk[w].cr.policy
           \/ UserExists(w) /\ iam' = [iam EXCEPT ![UserName(w)].policy = wk[w].cr.policy]
    BY <1>7, EndsSync, Zenon DEF PutUserPolicy, Call, setUserPolicy, getDesiredUserPolicy,
       awsPolicyEqualsDesiredPolicy
  <2>3. wk[w].cr.policy \in Policies /\ None \notin Policies
    BY <2>1, Running, DistinctAssumption, Zenon DEF CredentialsRequest
  <2>4. iam'[UserName(w)] # None /\ iam'[UserName(w)].policy = wk[w].cr.policy
    <3>1. CASE UNCHANGED iam /\ getCurrentUserPolicy(w) = wk[w].cr.policy
      BY <2>3, <3>1, Zenon DEF getCurrentUserPolicy, UserExists, TheUser
    <3>2. CASE UserExists(w) /\ iam' = [iam EXCEPT ![UserName(w)].policy = wk[w].cr.policy]
      BY <1>1, <2>1, <2>3, <3>2, NamedUser, Zenon DEF User, UserExists, TheUser
    <3>3. QED
      BY <2>2, <3>1, <3>2, Zenon
  <2>5. QED
    BY <1>2, <2>2, <2>4, Zenon DEF Advances
<1>8. QED
  BY <1>3, <1>4, <1>5, <1>6, <1>7, Zenon

(* The steps that replace the key, and the one that writes the secret.     *)
LEMMA KeysAdvance ==
    ASSUME TypeInv, NEW w \in Workers, wk'[w].pc \in SyncPCs,
           ListAccessKeys(w) \/ rotateAccessKeys(w) \/ CreateAccessKey(w) \/ syncAccessKeySecret(w)
    PROVE  Advances(w)
<1> USE DEF At
<1>1. wk \in [Workers -> Worker] /\ iam \in [Users -> User \cup {None}] /\ None \notin User
  BY DistinctAssumption, Zenon DEF TypeInv, TypeOK
<1>2. CASE ListAccessKeys(w)
  <2> DEFINE kept == TargetSecret(w) # None /\ accessKeyExists(w, TargetSecret(w).key)
             label == IF kept THEN "syncAccessKeySecret" ELSE "rotateAccessKeys"
  <2>1. /\ wk[w].pc = "ListAccessKeys" /\ UserExists(w)
        /\ wk' = [wk EXCEPT ![w].pc = label, ![w].existing = TargetSecret(w),
                            ![w].keyList = TheUser(w).keys]
    BY <1>2, EndsSync, Zenon DEF ListAccessKeys
  <2>2. /\ wk'[w].pc = label /\ wk'[w].existing = TargetSecret(w)
        /\ wk'[w].keyList = TheUser(w).keys /\ wk'[w].newKey = wk[w].newKey
    <3> HIDE DEF label
    <3>1. QED
      BY <1>1, <2>1 DEF Worker
  <2>3. QED
    BY <2>1, <2>2, Zenon DEF Advances, UserExists, accessKeyExists
<1>3. CASE rotateAccessKeys(w)
  <2>1. wk[w].pc = "rotateAccessKeys" /\ wk[w].pc \in NamedPCs
    BY <1>3, Zenon DEF rotateAccessKeys, NamedPCs
  <2>2. \/ wk[w].keyList = {} /\ Goto(w, "CreateAccessKey")
        \/ \E j : /\ UserExists(w) /\ wk' = [wk EXCEPT ![w].keyList = @ \ {j}]
                  /\ iam' = [iam EXCEPT ![UserName(w)].keys = @ \ {j}]
    BY <1>3, EndsSync, Zenon DEF rotateAccessKeys, deleteAccessKey, Call
  <2>3. ASSUME NEW j, UserExists(w), wk' = [wk EXCEPT ![w].keyList = @ \ {j}],
               iam' = [iam EXCEPT ![UserName(w)].keys = @ \ {j}]
        PROVE  /\ wk'[w].pc = wk[w].pc /\ Keeps(w) /\ wk'[w].keyList = wk[w].keyList \ {j}
               /\ iam'[UserName(w)].keys = TheUser(w).keys \ {j}
    <3>1. wk'[w].pc = wk[w].pc /\ Keeps(w) /\ wk'[w].keyList = wk[w].keyList \ {j}
      BY <1>1, <2>3, Zenon DEF Worker, Keeps
    <3>2. iam'[UserName(w)].keys = TheUser(w).keys \ {j}
      BY <1>1, <2>1, <2>3, NamedUser, Zenon DEF User, UserExists, TheUser
    <3>3. QED
      BY <3>1, <3>2, Zenon
  <2>4. QED
    BY <2>1, <2>2, <2>3, GotoKeeps, Zenon DEF Advances
<1>4. CASE CreateAccessKey(w)
  <2>1. wk[w].pc = "CreateAccessKey" /\ wk[w].pc \in NamedPCs
    BY <1>4, Zenon DEF CreateAccessKey, NamedPCs
  <2>2. PICK new, j :
          /\ j \in new /\ new \subseteq Keys /\ (\A i \in new : FreshKey(i)) /\ UserExists(w)
          /\ wk' = [wk EXCEPT ![w].pc = "syncAccessKeySecret", ![w].newKey = j]
          /\ iam' = [iam EXCEPT ![UserName(w)].keys = @ \cup new]
    BY <1>4, CreatesKeys, EndsSync, Zenon DEF Creates
  <2>3. /\ wk'[w].pc = "syncAccessKeySecret" /\ wk'[w].newKey = j
        /\ wk'[w].existing = wk[w].existing
    BY <1>1, <2>2, Zenon DEF Worker
  <2>4. iam'[UserName(w)].keys = TheUser(w).keys \cup new
    BY <1>1, <2>1, <2>2, NamedUser, Zenon DEF User, UserExists, TheUser
  <2>5. AddsKeys(iam'[UserName(w)].keys, TheUser(w).keys) /\ j \in iam'[UserName(w)].keys
    BY <2>2, <2>4, Zenon DEF AddsKeys
  <2>6. QED
    BY <2>1, <2>2, <2>3, <2>5, Zenon DEF Advances, UserExists
<1>5. CASE syncAccessKeySecret(w)
  BY <1>5, EndsSync, ZenonT(30) DEF syncAccessKeySecret, createSecret, updateSecret, Call, PanicPCs
<1>6. QED
  BY <1>2, <1>3, <1>4, <1>5, Zenon

(* Every step of a Reconcile call.                                         *)
LEMMA SecretStep ==
    ASSUME TypeInv, NEW w \in Workers, WorkerStep(w)
    PROVE  WritesSecret(w) /\ (wk'[w].pc \in SyncPCs => Advances(w))
<1> USE DEF At
<1>1. Proceeds(w)
  BY CallStep, Zenon
<1>2. WritesSecret(w)
  <2>1. CASE deleteTargetSecret(w)
    <3>1. /\ wk[w].pc = "deleteTargetSecret"
          /\ wk[w].pc \notin SyncPCs
          /\ \/ TargetSecret(w) = None /\ UNCHANGED secrets
             \/ secrets' = [secrets EXCEPT ![wk[w].cr.ref] = None]
             \/ UNCHANGED secrets /\ Return(w)
      BY <2>1, Zenon DEF deleteTargetSecret, Call, SyncPCs
    <3>2. Return(w) => wk'[w].pc = "idle"
      <4>1. DOMAIN wk = Workers
        BY Zenon DEF TypeInv
      <4>2. QED
        BY <4>1 DEF Return, IdleWorker, Locals
    <3>3. QED
      BY <1>1, <3>1, <3>2, Zenon DEF WritesSecret, Proceeds
  <2>2. CASE syncAccessKeySecret(w)
    <3>1. wk[w].pc = "syncAccessKeySecret"
      BY <2>2, Zenon DEF syncAccessKeySecret
    <3>2. wk'[w].pc \notin SyncPCs
      BY <2>2, EndsSync, ZenonT(30) DEF syncAccessKeySecret, createSecret, updateSecret, Call,
         PanicPCs
    <3>3. UNCHANGED secrets \/ secrets' = [secrets EXCEPT ![wk[w].cr.ref] = Wanted(w)]
      <4>1. CASE wk[w].existing = None
        <5>1. Wanted(w) = SecretWith(w, wk[w].newKey)
          BY <4>1, Zenon DEF Wanted
        <5>2. QED
          BY <2>2, <4>1, <5>1, Zenon DEF syncAccessKeySecret, createSecret, Call
      <4>2. CASE wk[w].existing # None
        <5>1. Wanted(w) = SecretWith(w, IF KeyGiven(w)
                                        THEN wk[w].newKey ELSE wk[w].existing.key)
          BY <4>2, Zenon DEF Wanted
        <5>2. QED
          BY <2>2, <4>2, <5>1, Zenon DEF syncAccessKeySecret, updateSecret, Call
      <4>3. QED
        BY <4>1, <4>2, Zenon
    <3>4. QED
      BY <1>1, <3>1, <3>2, <3>3, Zenon DEF WritesSecret, Proceeds
  <2>3. CASE ~deleteTargetSecret(w) /\ ~syncAccessKeySecret(w)
    <3>1. UNCHANGED secrets
      BY <2>3, Zenon DEF WorkerStep, checkNamespace, Sync, Delete, sync,
         needsUpdateUser, needsUpdateKeys, needsUpdatePolicy, cloudCreds, GetUser, CreateUser,
         TagUser, PutUserPolicy, ListAccessKeys, rotateAccessKeys, CreateAccessKey,
         DeleteUserPolicy, DeleteListAccessKeys, DeleteAccessKeys, DeleteUser, Reads,
         NoAPIWrite, apiVars, userName, addDeprovisionFinalizer, updateStatus,
         clearDeprovisionFailure, removeDeprovisionFinalizer
    <3>2. wk[w].pc # "deleteTargetSecret"
      BY <2>3, Zenon DEF WorkerStep, checkNamespace, Sync, Delete, sync,
         needsUpdateUser, needsUpdateKeys, needsUpdatePolicy, cloudCreds, GetUser, CreateUser,
         TagUser, PutUserPolicy, ListAccessKeys, rotateAccessKeys, CreateAccessKey,
         DeleteUserPolicy, DeleteListAccessKeys, DeleteAccessKeys, DeleteUser,
         userName, addDeprovisionFinalizer, updateStatus,
         clearDeprovisionFailure, removeDeprovisionFinalizer
    <3>3. QED
      BY <1>1, <3>1, <3>2, Zenon DEF WritesSecret, Proceeds
  <2>4. QED
    BY <2>1, <2>2, <2>3, Zenon
<1>3. ASSUME wk'[w].pc \in SyncPCs
      PROVE  Advances(w)
  <2>1. wk[w].pc \in SyncPCs
    BY <1>1, <1>3, Zenon DEF Proceeds
  <2>2. Sync(w) \/ checkNamespace(w)
    BY <2>1, Zenon DEF WorkerStep, Delete, DeleteUserPolicy, DeleteListAccessKeys, DeleteAccessKeys,
       DeleteUser, addDeprovisionFinalizer, updateStatus, clearDeprovisionFailure,
       deleteTargetSecret, removeDeprovisionFinalizer, SyncPCs
  <2>3. QED
    BY <1>3, <2>2, ChecksAdvance, UserAdvances, KeysAdvance, Zenon DEF Sync
<1>4. QED
  BY <1>2, <1>3, Zenon

-----------------------------------------------------------------------------
(* The cluster's users, the caches and the start of a call *)

(* What happens outside the operator: it starts no call, changes at most   *)
(* one request, and makes no IAM user and no key.                          *)
LEMMA EnvironmentStep ==
    ASSUME TypeInv, Environment
    PROVE  /\ UNCHANGED <<wk, crCache>>
           /\ UNCHANGED crs \/ \E c \in CRs : UserWrites(c) /\ UNCHANGED <<iam, secrets>>
           /\ \A u \in Users :
                /\ iam'[u] # None => iam[u] # None /\ iam'[u].keys \subseteq iam[u].keys
                /\ iam[u] # None /\ iam'[u] = None => "iamEdits" \in Disturbances
<1>0. /\ crs \in [CRs -> CredentialsRequest \cup {None}]
      /\ iam \in [Users -> User \cup {None}]
  BY Zenon DEF TypeInv, TypeOK
<1>1. UNCHANGED <<wk, crCache>>
  BY ZenonT(30) DEF Environment, CreateCR, EditSpec, DeleteCR, CreateNamespace,
     DeleteNamespace, EditSecret, EditIAM, EditRoot, Tick, cacheVars
<1>2. ASSUME NEW c \in CRs, CreateCR(c)
      PROVE  UserWrites(c)
  <2>1. PICK r \in TargetsOf[c], p \in Policies :
          crs' = [crs EXCEPT ![c] = [gen |-> 1, ref |-> r, policy |-> p, finalizer |-> FALSE,
                                     deleting |-> FALSE, status |-> NewStatus]]
    BY <1>2, Zenon DEF CreateCR
  <2>2. NewStatus \in Status /\ r \in Refs
    BY SetsAssumption, Zenon DEF NewStatus, Status, NoConditions, CondStatus
  <2>3. crs[c] = None
    BY <1>2, Zenon DEF CreateCR
  <2> DEFINE new == [gen |-> 1, ref |-> r, policy |-> p, finalizer |-> FALSE,
                     deleting |-> FALSE, status |-> NewStatus]
  <2>4. /\ new \in CredentialsRequest /\ new.status = NewStatus /\ ~new.finalizer
        /\ ~new.deleting /\ new.ref = r /\ new.gen = 1
    BY <2>2, Zenon DEF CredentialsRequest
  <2>5. crs'[c] = new /\ \A d \in CRs \ {c} : crs'[d] = crs[d]
    BY <1>0, <2>1, Zenon
  <2> HIDE DEF new
  <2>6. QED
    BY <2>3, <2>4, <2>5, Zenon DEF UserWrites
<1>3. ASSUME NEW c \in CRs, EditSpec(c)
      PROVE  UserWrites(c)
  <2>1. PICK r \in TargetsOf[c], p \in Policies :
          crs' = [crs EXCEPT ![c].ref = r, ![c].policy = p, ![c].gen = @ + 1]
    BY <1>3, Zenon DEF EditSpec
  <2>2. crs[c] \in CredentialsRequest
    BY <1>0, <1>3, Zenon DEF EditSpec
  <2>3. r \in Refs /\ crs[c].gen + 1 \in Nat
    BY <2>2, SetsAssumption DEF CredentialsRequest
  <2> DEFINE new == [crs[c] EXCEPT !.ref = r, !.policy = p, !.gen = crs[c].gen + 1]
  <2>4. /\ new \in CredentialsRequest /\ new.status = crs[c].status
        /\ new.finalizer = crs[c].finalizer /\ new.deleting = crs[c].deleting
        /\ new.ref = r /\ new.gen = crs[c].gen + 1
    BY <2>2, <2>3, Zenon DEF CredentialsRequest
  <2>5. crs'[c] = new /\ \A d \in CRs \ {c} : crs'[d] = crs[d]
    BY <1>0, <2>1, Zenon
  <2> HIDE DEF new
  <2>6. QED
    BY <2>2, <2>4, <2>5, Zenon DEF UserWrites
<1>4. ASSUME NEW c \in CRs, DeleteCR(c)
      PROVE  UserWrites(c)
  <2> DEFINE o == [crs[c] EXCEPT !.deleting = TRUE]
  <2>1. crs[c] \in CredentialsRequest /\ ~crs[c].deleting
    BY <1>0, <1>4, Zenon DEF DeleteCR
  <2>2. o \in CredentialsRequest
    BY <2>1, Zenon DEF CredentialsRequest
  <2>3. /\ crs'[c] = IF crs[c].finalizer THEN o ELSE None
        /\ \A d \in CRs \ {c} : crs'[d] = crs[d]
    BY <1>0, <1>4, Zenon DEF DeleteCR
  <2>4. QED
    BY <2>1, <2>2, <2>3, Zenon DEF UserWrites
<1>5. UNCHANGED crs \/ \E c \in CRs : UserWrites(c) /\ UNCHANGED <<iam, secrets>>
  <2>1. ASSUME NEW c \in CRs, CreateCR(c) \/ EditSpec(c) \/ DeleteCR(c)
        PROVE  UserWrites(c) /\ UNCHANGED <<iam, secrets>>
    <3>1. UNCHANGED <<iam, secrets>>
      BY <2>1, Zenon DEF CreateCR, EditSpec, DeleteCR
    <3>2. QED
      BY <1>2, <1>3, <1>4, <2>1, <3>1, Zenon
  <2>2. ASSUME ~(\E d \in CRs : CreateCR(d) \/ EditSpec(d) \/ DeleteCR(d))
        PROVE  UNCHANGED crs
    BY <2>2, Zenon DEF Environment, CreateNamespace, DeleteNamespace, EditSecret, EditIAM,
       EditRoot, Tick, apiVars
  <2>3. QED
    BY <2>1, <2>2, Zenon
<1>6. ASSUME NEW u \in Users
      PROVE  /\ iam'[u] # None => iam[u] # None /\ iam'[u].keys \subseteq iam[u].keys
             /\ iam[u] # None /\ iam'[u] = None => "iamEdits" \in Disturbances
  <2>1. CASE \E v \in Users : EditIAM(v)
    <3>1. PICK v \in Users : EditIAM(v)
      BY <2>1, Zenon
    <3>2. "iamEdits" \in Disturbances
      BY <3>1, Zenon DEF EditIAM, Fault
    <3>3. iam[v] \in User
      BY <1>0, <3>1, Zenon DEF EditIAM
    <3>4. CASE iam' = [iam EXCEPT ![v] = None]
      BY <1>0, <3>2, <3>4, Zenon
    <3>5. CASE \E k \in iam[v].keys : iam' = [iam EXCEPT ![v].keys = @ \ {k}]
      <4>1. PICK k \in iam[v].keys : iam' = [iam EXCEPT ![v].keys = @ \ {k}]
        BY <3>5, Zenon
      <4>2. iam'[v].keys \subseteq iam[v].keys /\ \A x \in Users \ {v} : iam'[x] = iam[x]
        BY <1>0, <3>3, <4>1, Zenon DEF User
      <4>3. iam[v] # None
        BY <3>1, Zenon DEF EditIAM
      <4>4. CASE u = v
        BY <3>2, <4>2, <4>3, <4>4, Zenon
      <4>5. CASE u # v
        BY <3>2, <4>2, <4>5, Zenon
      <4>6. QED
        BY <4>4, <4>5, Zenon
    <3>6. QED
      BY <3>1, <3>4, <3>5, Zenon DEF EditIAM
  <2>2. CASE ~\E v \in Users : EditIAM(v)
    <3>1. UNCHANGED iam
      BY <2>2, Zenon DEF Environment, CreateCR, EditSpec, DeleteCR, CreateNamespace,
         DeleteNamespace, EditSecret, EditRoot, Tick
    <3>2. QED
      BY <3>1, Zenon
  <2>3. QED
    BY <2>1, <2>2, Zenon
<1>7. QED
  BY <1>1, <1>5, <1>6, Zenon

(* A call starts with the cached copy of its request, a deleted one only   *)
(* when it has the finalizer.                                              *)
LEMMA CallStart ==
    ASSUME TypeInv, NEW w \in Workers, NEW c \in CRs, Reconcile(w, c)
    PROVE  LET n == wk'[w]
           IN  /\ UNCHANGED <<crs, crCache, iam, secrets>>
               /\ \A v \in Workers \ {w} : wk'[v] = wk[v]
               /\ n.req = c /\ n.base = crCache[w][c] /\ n.cr = crCache[w][c]
               /\ n.base # None /\ n.newKey = None
               /\ \/ n.pc = "DeleteUserPolicy" /\ n.base.deleting /\ n.base.finalizer
                  \/ n.pc = "namespace" /\ ~n.base.deleting /\ n.base.finalizer
                  \/ n.pc = "addDeprovisionFinalizer" /\ ~n.base.deleting /\ ~n.base.finalizer
<1> DEFINE cr == crCache[w][c]
           pc == IF cr.deleting THEN "DeleteUserPolicy"
                 ELSE IF cr.finalizer THEN "namespace" ELSE "addDeprovisionFinalizer"
<1>1. UNCHANGED <<crs, crCache, iam, secrets>> /\ cr # None /\ (cr.deleting => cr.finalizer)
  BY Zenon DEF Reconcile, Reads, NoAPIWrite, apiVars, cacheVars
<1>2. wk' = [wk EXCEPT ![w] = Locals(pc, c, cr, cr)]
  BY Zenon DEF Reconcile
<1>3. \/ pc = "DeleteUserPolicy" /\ cr.deleting /\ cr.finalizer
      \/ pc = "namespace" /\ ~cr.deleting /\ cr.finalizer
      \/ pc = "addDeprovisionFinalizer" /\ ~cr.deleting /\ ~cr.finalizer
  BY <1>1, Zenon
<1> HIDE DEF cr, pc
<1>4. /\ wk'[w].pc = pc /\ wk'[w].req = c /\ wk'[w].base = cr /\ wk'[w].cr = cr
      /\ wk'[w].newKey = None
      /\ \A v \in Workers \ {w} : wk'[v] = wk[v]
  BY <1>2, Zenon DEF TypeInv, TypeOK, Locals
<1>5. QED
  BY <1>1, <1>3, <1>4, Zenon DEF cr

(* The caches and a restarted process read what is stored.                 *)
LEMMA CacheStep ==
    ASSUME TypeInv, NEW w \in Workers,
           \/ Restart(w)
           \/ \E c \in CRs : SyncCRCache(w, c)
           \/ \E r \in Refs : SyncSecretCache(w, r)
    PROVE  /\ UNCHANGED <<crs, iam, secrets>>
           /\ \A v \in Workers : /\ wk'[v].pc = "idle" \/ wk'[v] = wk[v]
                                 /\ \A c \in CRs : crCache'[v][c] \in {crCache[v][c], crs[c]}
<1>0. /\ wk \in [Workers -> Worker]
      /\ crCache \in [Workers -> [CRs -> CredentialsRequest \cup {None}]]
      /\ crs \in [CRs -> CredentialsRequest \cup {None}]
  BY Zenon DEF TypeInv, TypeOK
<1>1. UNCHANGED <<crs, iam, secrets>>
  BY Zenon DEF Restart, SyncCRCache, SyncSecretCache, apiVars
<1>2. CASE Restart(w)
  BY <1>0, <1>1, <1>2, Zenon DEF Restart, Return, IdleWorker, Locals
<1>3. CASE \E c \in CRs : SyncCRCache(w, c)
  BY <1>0, <1>1, <1>3 DEF SyncCRCache
<1>4. CASE \E r \in Refs : SyncSecretCache(w, r)
  BY <1>1, <1>4, Zenon DEF SyncSecretCache
<1>5. QED
  BY <1>2, <1>3, <1>4, Zenon

-----------------------------------------------------------------------------
(* What happens outside the operator, when certain disturbances do not *)

(* Only the disturbances that are there change secrets, users and the      *)
(* admin secret, and time only passes.                                     *)
LEMMA OutsideStep ==
    ASSUME TypeInv, Environment
    PROVE  /\ "secretEdits" \notin Disturbances
                => \A r \in Refs : secrets'[r] \in {secrets[r], None}
           /\ Disturbances \cap {"secretEdits", "namespaceDeletes"} = {} => UNCHANGED secrets
           /\ "iamEdits" \notin Disturbances => UNCHANGED iam
           /\ "rootEdits" \notin Disturbances => UNCHANGED root
           /\ now <= now'
<1>1. secrets \in [Refs -> Secret \cup {None}] /\ now \in Nat
  BY Zenon DEF TypeInv, TypeOK
<1>2. ASSUME "secretEdits" \notin Disturbances
      PROVE  UNCHANGED secrets \/ \E n \in Namespaces : DeleteNamespace(n)
  BY <1>2, Zenon DEF Environment, CreateCR, EditSpec, DeleteCR, CreateNamespace,
     EditSecret, EditIAM, EditRoot, Tick, apiVars, Fault
<1>3. ASSUME NEW n \in Namespaces, DeleteNamespace(n)
      PROVE  /\ "namespaceDeletes" \in Disturbances
             /\ \A r \in Refs : secrets'[r] \in {secrets[r], None}
  BY <1>3, Zenon DEF DeleteNamespace, Fault
<1>4. "iamEdits" \notin Disturbances => UNCHANGED iam
  BY Zenon DEF Environment, CreateCR, EditSpec, DeleteCR, CreateNamespace, DeleteNamespace,
     EditSecret, EditIAM, EditRoot, Tick, Fault
<1>5. "rootEdits" \notin Disturbances => UNCHANGED root
  BY Zenon DEF Environment, CreateCR, EditSpec, DeleteCR, CreateNamespace, DeleteNamespace,
     EditSecret, EditIAM, EditRoot, Tick, Fault, apiVars
<1>6. now' = now \/ now' = now + 1
  BY Zenon DEF Environment, CreateCR, EditSpec, DeleteCR, CreateNamespace, DeleteNamespace,
     EditSecret, EditIAM, EditRoot, Tick
<1>7. now <= now'
  BY <1>1, <1>6
<1>8. ASSUME "secretEdits" \notin Disturbances
      PROVE  \A r \in Refs : secrets'[r] \in {secrets[r], None}
  BY <1>2, <1>3, <1>8, Zenon
<1>9. ASSUME Disturbances \cap {"secretEdits", "namespaceDeletes"} = {}
      PROVE  UNCHANGED secrets
  <2>1. "secretEdits" \notin Disturbances /\ "namespaceDeletes" \notin Disturbances
    BY <1>9, Zenon
  <2>2. QED
    BY <1>2, <1>3, <2>1, Zenon
<1>10. QED
  BY <1>4, <1>5, <1>7, <1>8, <1>9, Zenon

(* The operator changes neither the admin secret nor the namespaces nor    *)
(* the time.                                                               *)
LEMMA OwnStep ==
    ASSUME NEW w \in Workers,
           \/ WorkerStep(w) \/ Restart(w)
           \/ \E c \in CRs : Reconcile(w, c) \/ SyncCRCache(w, c)
           \/ \E r \in Refs : SyncSecretCache(w, r)
    PROVE  UNCHANGED <<root, now, namespaces>>
<1>1. WorkerStep(w) => UNCHANGED <<root, now, namespaces>>
  BY Zenon DEF WorkerStep, checkNamespace, Sync, Delete, deleteTargetSecret, sync,
     needsUpdateUser, needsUpdateKeys, needsUpdatePolicy, cloudCreds, GetUser, CreateUser, TagUser,
     PutUserPolicy, ListAccessKeys, rotateAccessKeys, CreateAccessKey, syncAccessKeySecret,
     DeleteUserPolicy, DeleteListAccessKeys, DeleteAccessKeys, DeleteUser, Reads,
     NoAPIWrite, apiVars, userName, addDeprovisionFinalizer, updateStatus,
     clearDeprovisionFailure, removeDeprovisionFinalizer
<1>2. QED
  BY <1>1, Zenon DEF Restart, Reconcile, SyncCRCache, SyncSecretCache, Reads, NoAPIWrite, apiVars


-----------------------------------------------------------------------------
(* What a step of a call reports in the status *)

(* The conditions of the actuator are not the one of the namespace.        *)
LEMMA ConditionFacts ==
    ASSUME NEW conds \in [CondTypes -> CondStatus]
    PROVE  /\ \A reason : updateActuatorConditions(conds, reason)[MissingNamespace] = conds[MissingNamespace]
           /\ SetCondition(conds, MissingNamespace, TRUE)[MissingNamespace] = "True"
           /\ SetCondition(conds, MissingNamespace, FALSE)[MissingNamespace] # "True"
<1>1. /\ MissingNamespace \in CondTypes /\ ProvisionFailure \in CondTypes /\ Insufficient \in CondTypes
      /\ MissingNamespace # ProvisionFailure /\ MissingNamespace # Insufficient
  BY Zenon DEF MissingNamespace, ProvisionFailure, Insufficient, CondTypes
<1>2. ASSUME NEW cs \in [CondTypes -> CondStatus], NEW t \in CondTypes, t # MissingNamespace,
             NEW on \in BOOLEAN
      PROVE  SetCondition(cs, t, on)[MissingNamespace] = cs[MissingNamespace]
  BY <1>1, <1>2, Zenon DEF SetCondition, SetCredentialsRequestCondition
<1>3. ASSUME NEW reason
      PROVE  updateActuatorConditions(conds, reason)[MissingNamespace] = conds[MissingNamespace]
  <2> DEFINE inner == SetCondition(conds, ProvisionFailure, reason = ProvisionFailure)
  <2>1. inner \in [CondTypes -> CondStatus] /\ inner[MissingNamespace] = conds[MissingNamespace]
    BY <1>1, <1>2, ConditionsType, Zenon
  <2> HIDE DEF inner
  <2>2. SetCondition(inner, Insufficient, reason = Insufficient)[MissingNamespace] = inner[MissingNamespace]
    BY <1>1, <1>2, <2>1, Zenon
  <2>3. QED
    BY <2>1, <2>2, Zenon DEF updateActuatorConditions, inner
<1>4. SetCondition(conds, MissingNamespace, TRUE)[MissingNamespace] = "True"
  BY <1>1, Zenon DEF SetCondition, SetCredentialsRequestCondition
<1>5. SetCondition(conds, MissingNamespace, FALSE)[MissingNamespace] # "True"
  BY <1>1, Zenon DEF SetCondition, SetCredentialsRequestCondition
<1>6. QED
  BY <1>3, <1>4, <1>5, Zenon

(* A call that goes on to save a status.                                   *)
LEMMA FinishFacts ==
    ASSUME TypeInv, NEW w \in Workers, ~At(w, "idle"), NEW s, Finish(w, s)
    PROVE  wk'[w].pc = "updateStatus" /\ wk'[w].base = wk[w].base /\ wk'[w].cr.status = s
<1>1. wk \in [Workers -> Worker] /\ wk[w].cr \in CredentialsRequest
  BY Running, Zenon DEF TypeInv, TypeOK
<1>2. QED
  BY <1>1, Zenon DEF Finish, Locals, CredentialsRequest

(* The results of the actuator.                                            *)
LEMMA ResultsConclude ==
    ASSUME TypeInv, NEW w \in Workers, ~At(w, "idle")
    PROVE  /\ Succeed(w) \/ (\E reason : Fail(w, reason))
              => wk'[w].pc = "updateStatus" /\ wk'[w].base = wk[w].base /\ Concludes(w)
           /\ DeprovisionFail(w)
              => wk'[w].pc = "updateStatus" /\ SameReport(wk'[w].cr.status, wk[w].cr.status)
<1> DEFINE status == wk[w].cr.status
<1>1. /\ status \in Status /\ status.conds \in [CondTypes -> CondStatus]
      /\ MissingNamespace \in CondTypes
  BY Running, Zenon DEF Status, CondTypes
<1> HIDE DEF status
<1>2. ASSUME NEW reason, Fail(w, reason)
      PROVE  wk'[w].pc = "updateStatus" /\ wk'[w].base = wk[w].base /\ Concludes(w)
  <2> DEFINE s == FailedStatus(status, reason)
  <2>1. SameSync(s, status) /\ ~s.provisioned /\ s.conds[MissingNamespace] = status.conds[MissingNamespace]
    BY <1>1, ConditionFacts, Zenon DEF FailedStatus, SameSync, Status
  <2>2. Finish(w, s)
    BY <1>2, Zenon DEF Fail, status
  <2> HIDE DEF s
  <2>3. QED
    BY <2>1, <2>2, FinishFacts, Zenon DEF Concludes, Missing, status
<1>3. ASSUME Succeed(w)
      PROVE  wk'[w].pc = "updateStatus" /\ wk'[w].base = wk[w].base /\ Concludes(w)
  <2> DEFINE s == [status EXCEPT !.conds = updateActuatorConditions(@, ""),
                                 !.provisioned = TRUE, !.syncTime = now,
                                 !.syncGen = wk[w].base.gen]
  <2>1. /\ s.syncGen = wk[w].base.gen /\ s.provisioned
        /\ s.conds[MissingNamespace] = status.conds[MissingNamespace]
    BY <1>1, ConditionFacts, Zenon DEF Status
  <2>2. Finish(w, s)
    BY <1>3, Zenon DEF Succeed, status
  <2> HIDE DEF s
  <2>3. QED
    BY <2>1, <2>2, FinishFacts, Zenon DEF Concludes, Missing, status
<1>4. ASSUME DeprovisionFail(w)
      PROVE  wk'[w].pc = "updateStatus" /\ SameReport(wk'[w].cr.status, wk[w].cr.status)
  <2> DEFINE s == [status EXCEPT !.conds = SetCondition(@, DeprovisionFailure, TRUE)]
  <2>1. SameReport(s, status)
    BY <1>1, Zenon DEF SameReport, SameSync, Status
  <2>2. Finish(w, s)
    BY <1>4, Zenon DEF DeprovisionFail, status
  <2> HIDE DEF s
  <2>3. QED
    BY <2>1, <2>2, FinishFacts, Zenon DEF status
<1>5. QED
  BY <1>2, <1>3, <1>4, Zenon

(* The check of the namespace.                                             *)
LEMMA NamespaceReports ==
    ASSUME TypeInv, NEW w \in Workers, checkNamespace(w)
    PROVE  wk[w].pc = "namespace" /\ ChecksNamespace(w)
<1> DEFINE found == NamespaceOf[wk[w].cr.ref] \in namespaces
           cr == [wk[w].cr EXCEPT !.status.conds = SetCondition(@, MissingNamespace, ~found)]
<1>1. wk[w].pc = "namespace" /\ ~At(w, "idle")
  BY Zenon DEF checkNamespace, At
<1>2. /\ wk \in [Workers -> Worker] /\ faults \in Nat /\ wk[w].cr \in CredentialsRequest
      /\ wk[w].cr.status \in Status /\ wk[w].cr.status.conds \in [CondTypes -> CondStatus]
  BY <1>1, Running, Zenon DEF TypeInv, TypeOK, Status
<1>3. /\ SameReport(cr.status, wk[w].cr.status)
      /\ RecentlySynced(cr) <=> RecentlySynced(wk[w].cr)
      /\ cr.status.conds = SetCondition(wk[w].cr.status.conds, MissingNamespace, ~found)
  BY <1>2, Zenon DEF SameReport, SameSync, RecentlySynced, CredentialsRequest, Status
<1>4. Missing(cr.status) <=> ~found
  <2> DEFINE conds == wk[w].cr.status.conds
  <2>1. /\ SetCondition(conds, MissingNamespace, TRUE)[MissingNamespace] = "True"
        /\ SetCondition(conds, MissingNamespace, FALSE)[MissingNamespace] # "True"
    BY <1>2, ConditionFacts, Zenon
  <2> HIDE DEF conds, found
  <2>2. found \in BOOLEAN
    BY DEF found
  <2>3. cr.status.conds = SetCondition(conds, MissingNamespace, ~found)
    BY <1>3, Zenon DEF conds
  <2> HIDE DEF cr
  <2>4. CASE found = TRUE
    BY <2>1, <2>3, <2>4, Zenon DEF Missing
  <2>5. CASE found = FALSE
    BY <2>1, <2>3, <2>5, Zenon DEF Missing
  <2>6. QED
    BY <2>2, <2>4, <2>5, Zenon
<1>5. \/ ~found /\ wk' = [wk EXCEPT ![w].cr = cr, ![w].pc = "updateStatus"]
      \/ found /\ ~RecentlySynced(cr) /\ wk' = [wk EXCEPT ![w].cr = cr, ![w].pc = "sync"]
      \/ Return(w) /\ (RecentlySynced(cr) \/ Fault("callFails"))
  BY Zenon DEF checkNamespace
<1>6. Fault("callFails") => faults' # faults
  BY <1>2 DEF Fault
<1> HIDE DEF cr
<1>7. ASSUME NEW label, wk' = [wk EXCEPT ![w].cr = cr, ![w].pc = label]
      PROVE  wk'[w].pc = label /\ wk'[w].base = wk[w].base /\ wk'[w].cr = cr
  BY <1>2, <1>7, Zenon DEF Worker
<1>8. Return(w) => wk'[w].pc = "idle"
  BY <1>2 DEF Return, IdleWorker, Locals
<1>9. QED
  BY <1>1, <1>3, <1>4, <1>5, <1>6, <1>7, <1>8 DEF ChecksNamespace

(* The naming of the user.                                                 *)
LEMMA userNameReports ==
    ASSUME TypeInv, NEW w \in Workers, userName(w)
    PROVE  wk[w].pc = "userName" /\ Syncs(w)
<1>1. /\ wk[w].pc = "userName" /\ ~At(w, "idle")
      /\ {"userName", "GetUser"} \subseteq ActuatorPCs /\ "GetUser" \in PCs
      /\ "updateStatus" \notin ActuatorPCs \cup PanicPCs
  BY Zenon DEF userName, At, ActuatorPCs, SyncPCs, PanicPCs, PCs
<1>2. /\ wk \in [Workers -> Worker] /\ crs \in [CRs -> CredentialsRequest \cup {None}]
      /\ wk[w].req \in CRs /\ wk[w].base \in CredentialsRequest
      /\ wk[w].cr \in CredentialsRequest
      /\ wk[w].cr.status \in Status /\ wk[w].cr.status.conds \in [CondTypes -> CondStatus]
  BY <1>1, Running, Zenon DEF TypeInv, TypeOK, Status
<1>3. CASE UserName(w) # None /\ Goto(w, "GetUser") /\ UNCHANGED crs
  <2>1. Goes(w, "GetUser")
    BY <1>1, <1>3, ShapesProceed, Zenon
  <2>2. QED
    BY <1>1, <2>1, Zenon DEF Goes, Syncs, SameReport, SameSync
<1>4. CASE UserName(w) = None /\ updateProviderStatus(w)
  <2> DEFINE named(u) == [wk[w].cr EXCEPT !.status.user = u]
             stored(u) == [wk[w].base EXCEPT !.status = named(u).status]
  <2>1. PICK u \in Users :
          Call(NoConflict(w), Store(w, stored(u)), UNCHANGED crs,
               wk' = [wk EXCEPT ![w].cr = named(u), ![w].base = stored(u), ![w].pc = "GetUser"],
               Finish(w, FailedStatus(named(u).status, ProvisionFailure)))
    BY <1>4, Zenon DEF updateProviderStatus
  <2> DEFINE s == named(u).status
             failed == FailedStatus(s, ProvisionFailure)
  <2>0. \/ Finish(w, failed)
        \/ /\ wk' = [wk EXCEPT ![w].cr = named(u), ![w].base = stored(u), ![w].pc = "GetUser"]
           /\ Store(w, stored(u))
    BY <2>1, Zenon DEF Call
  <2>2. /\ s \in Status /\ s.user = u /\ SameReport(s, wk[w].cr.status)
        /\ s.conds = wk[w].cr.status.conds
    BY <1>2, Zenon DEF CredentialsRequest, Status, SameReport, SameSync
  <2>3. stored(u).status = s
    BY <1>2, Zenon DEF CredentialsRequest
  <2> HIDE DEF s
  <2>4. /\ ~failed.provisioned /\ SameSync(failed, wk[w].cr.status)
        /\ failed.conds[MissingNamespace] = wk[w].cr.status.conds[MissingNamespace]
    <3>1. updateActuatorConditions(s.conds, ProvisionFailure)[MissingNamespace]
            = s.conds[MissingNamespace]
      BY <1>2, <2>2, ConditionFacts, Zenon
    <3>2. /\ ~failed.provisioned /\ SameSync(failed, s)
          /\ failed.conds = updateActuatorConditions(s.conds, ProvisionFailure)
      BY <2>2, Zenon DEF FailedStatus, Status, SameSync
    <3>3. QED
      BY <2>2, <3>1, <3>2, Zenon DEF SameReport, SameSync
  <2> HIDE DEF failed
  <2>5. ASSUME Finish(w, failed)
        PROVE  Syncs(w)
    <3>1. wk'[w].pc = "updateStatus" /\ wk'[w].base = wk[w].base /\ wk'[w].cr.status = failed
      BY <1>1, <2>5, FinishFacts, Zenon
    <3>2. Concludes(w)
      BY <2>4, <3>1, Zenon DEF Concludes, Missing
    <3>3. QED
      BY <1>1, <3>1, <3>2, Zenon DEF Syncs
  <2>6. ASSUME wk' = [wk EXCEPT ![w].cr = named(u), ![w].base = stored(u), ![w].pc = "GetUser"],
               Store(w, stored(u))
        PROVE  Syncs(w)
    <3>0. named(u).status = s
      BY Zenon DEF s
    <3> HIDE DEF named, stored
    <3>1. /\ wk'[w].pc = "GetUser" /\ wk'[w].base = stored(u) /\ wk'[w].cr = named(u)
          /\ crs'[wk[w].req] = stored(u)
      BY <1>2, <2>6, Zenon DEF Worker, Store
    <3>2. wk'[w].cr.status = s /\ wk'[w].base.status = s /\ wk'[w].base = crs'[wk[w].req]
      BY <2>3, <3>0, <3>1, Zenon
    <3>3. "GetUser" # "idle" /\ "GetUser" # "updateStatus"
      BY Zenon
    <3>4. QED
      BY <1>1, <1>4, <2>2, <3>1, <3>2, <3>3, Zenon DEF Syncs, Missing
  <2> HIDE DEF named, stored
  <2>7. QED
    BY <1>1, <2>0, <2>5, <2>6, Zenon
<1>5. QED
  BY <1>1, <1>3, <1>4, Zenon DEF userName

(* Every step of a Reconcile call.                                         *)
LEMMA CallReports ==
    ASSUME TypeInv, NEW w \in Workers, WorkerStep(w)
    PROVE  Reports(w)
<1>0. /\ wk \in [Workers -> Worker] /\ faults \in Nat
      /\ wk[w].pc # "idle" => wk[w].cr \in CredentialsRequest /\ wk[w].cr.status \in Status
  BY Running, Zenon DEF TypeInv, TypeOK, At
<1>1. Return(w) => wk'[w].pc = "idle"
  BY <1>0 DEF Return, IdleWorker, Locals
<1>2. CASE checkNamespace(w)
  BY <1>2, NamespaceReports, Zenon DEF Reports, ActuatorPCs, SyncPCs, DeletePCs, PanicPCs
<1>3. CASE userName(w)
  BY <1>3, userNameReports, Zenon DEF Reports, ActuatorPCs, SyncPCs, DeletePCs, PanicPCs
<1>4. CASE Sync(w) /\ ~userName(w)
  <2>1. SyncShape(w) /\ wk[w].pc \in ActuatorPCs
    BY <1>4, SyncShapes, Zenon
  <2>2. /\ wk[w].pc \notin {"idle", "namespace", "addDeprovisionFinalizer", "updateStatus"}
                          \cup DeletePCs \cup PanicPCs
        /\ "updateStatus" \notin ActuatorPCs \cup PanicPCs
        /\ "idle" \notin ActuatorPCs \cup PanicPCs
    BY <2>1, Zenon DEF ActuatorPCs, SyncPCs, DeletePCs, PanicPCs
  <2>3. CASE Return(w) /\ Fault("callFails")
    <3>1. faults' # faults
      BY <1>0, <2>3 DEF Fault
    <3>2. QED
      BY <1>1, <2>2, <2>3, <3>1, Zenon DEF Reports, Syncs
  <2>4. CASE Succeed(w) \/ \E reason : Fail(w, reason)
    <3>1. wk'[w].pc = "updateStatus" /\ wk'[w].base = wk[w].base /\ Concludes(w)
      BY <2>2, <2>4, ResultsConclude, Zenon DEF At
    <3>2. QED
      BY <2>2, <3>1, Zenon DEF Reports, Syncs
  <2>5. CASE \E label \in ActuatorPCs \cup PanicPCs : Goes(w, label)
    BY <2>2, <2>5, Zenon DEF Goes, Reports, Syncs, SameReport, SameSync
  <2>6. QED
    BY <2>1, <2>3, <2>4, <2>5, Zenon DEF SyncShape
<1>5. CASE Delete(w) \/ deleteTargetSecret(w) \/ removeDeprovisionFinalizer(w)
           \/ clearDeprovisionFailure(w)
  <2>1. wk[w].pc \in DeletePCs
    BY <1>5, DeleteShapes, Zenon DEF deleteTargetSecret, removeDeprovisionFinalizer,
       clearDeprovisionFailure, At, DeletePCs
  <2>2. /\ wk[w].pc \notin {"idle", "namespace", "addDeprovisionFinalizer", "updateStatus"}
                          \cup ActuatorPCs \cup PanicPCs
        /\ "updateStatus" \notin DeletePCs /\ "idle" \notin DeletePCs
        /\ {"deleteTargetSecret", "removeDeprovisionFinalizer"} \subseteq DeletePCs
        /\ DeletePCs \subseteq PCs
    BY <2>1, Zenon DEF ActuatorPCs, SyncPCs, DeletePCs, PanicPCs, PCs
  <2>3. ASSUME \E label \in DeletePCs : Goes(w, label)
        PROVE  Deprovisions(w)
    BY <2>2, <2>3, Zenon DEF Goes, Deprovisions, SameReport, SameSync
  <2>4. Deprovisions(w)
    <3>1. CASE Delete(w)
      <4>1. DeprovisionFail(w) \/ \E label \in DeletePCs : Goes(w, label)
        BY <3>1, DeleteShapes, Zenon
      <4>2. DeprovisionFail(w)
              => wk'[w].pc = "updateStatus" /\ SameReport(wk'[w].cr.status, wk[w].cr.status)
        BY <2>2, ResultsConclude, Zenon DEF At
      <4>3. QED
        BY <2>3, <4>1, <4>2, Zenon DEF Deprovisions
    <3>2. CASE deleteTargetSecret(w) \/ removeDeprovisionFinalizer(w)
      <4>1. /\ wk[w].pc \in {"deleteTargetSecret", "removeDeprovisionFinalizer"}
            /\ Return(w) \/ Goto(w, "removeDeprovisionFinalizer")
        BY <3>2, Zenon DEF deleteTargetSecret, removeDeprovisionFinalizer, Call, At
      <4>2. Goto(w, "removeDeprovisionFinalizer") => Goes(w, "removeDeprovisionFinalizer")
        BY <2>2, ShapesProceed, Zenon DEF At
      <4>3. QED
        BY <1>1, <2>2, <2>3, <4>1, <4>2, Zenon DEF Deprovisions
    <3>3. CASE clearDeprovisionFailure(w)
      <4> DEFINE status == [wk[w].cr.status EXCEPT
                              !.conds = SetCondition(@, DeprovisionFailure, FALSE)]
                 stored == [wk[w].base EXCEPT !.status = status]
                 next == [wk EXCEPT ![w].cr.status = status, ![w].pc = "deleteTargetSecret"]
      <4>1. SameReport(status, wk[w].cr.status)
        BY <1>0, <2>2, Zenon DEF SameReport, SameSync, Status
      <4>2. wk' = next \/ wk' = [next EXCEPT ![w].base = stored]
        BY <3>3, Zenon DEF clearDeprovisionFailure, Call
      <4> HIDE DEF status, stored
      <4>3. wk'[w].pc = "deleteTargetSecret" /\ wk'[w].cr.status = status
        BY <1>0, <2>2, <4>2 DEF Worker, CredentialsRequest
      <4>4. QED
        BY <2>2, <4>1, <4>3, Zenon DEF Deprovisions
    <3>4. QED
      BY <1>5, <3>1, <3>2, <3>3, Zenon
  <2>5. QED
    BY <2>2, <2>4, Zenon DEF Reports
<1>6. CASE addDeprovisionFinalizer(w) \/ updateStatus(w)
  <2>1. wk[w].pc \in {"addDeprovisionFinalizer", "updateStatus"} /\ Return(w)
    BY <1>6, Zenon DEF addDeprovisionFinalizer, updateStatus, Call, At
  <2>2. QED
    BY <1>1, <2>1, Zenon DEF Reports, ActuatorPCs, SyncPCs, DeletePCs, PanicPCs
<1>7. QED
  BY <1>2, <1>3, <1>4, <1>5, <1>6, Zenon DEF WorkerStep


-----------------------------------------------------------------------------
(* What every copy of a request says of itself *)

(* An hour later there are fewer recent syncs.                             *)
LEMMA HonestLater ==
    ASSUME NEW x \in CredentialsRequest \cup {None}, NEW hour \in Nat
    PROVE  /\ Honest(x, hour) => Honest(x, hour + 1)
           /\ x # None /\ ~RecentAt(x, hour) => ~RecentAt(x, hour + 1)
<1>1. CASE x = None
  BY <1>1, Zenon DEF Honest
<1>2. CASE x \in CredentialsRequest
  <2>1. x.status.syncTime \in Nat
    BY <1>2, Zenon DEF CredentialsRequest, Status
  <2>2. RecentAt(x, hour + 1) => RecentAt(x, hour)
    BY <2>1 DEF RecentAt
  <2>3. QED
    BY <2>2, Zenon DEF Honest
<1>3. QED
  BY <1>1, <1>2, Zenon

(* A copy with another status is honest when its record of the last sync   *)
(* is, or when it is provisioned for the spec it has.                      *)
LEMMA HonestStatus ==
    ASSUME NEW x \in CredentialsRequest, NEW y \in CredentialsRequest, NEW hour,
           Honest(x, hour), SameButStatus(y, x),
           \/ SameReport(y.status, x.status)
           \/ SameSync(y.status, x.status) /\ ~RecentAt(x, hour)
           \/ y.status.provisioned /\ y.status.syncGen = x.gen
    PROVE  Honest(y, hour)
<1>1. x # None /\ x.gen \in Nat
  BY DistinctAssumption, Zenon DEF CredentialsRequest
<1>2. QED
  BY <1>1 DEF Honest, SameButStatus, SameReport, SameSync, RecentAt

(* A copy b saved with the report of the working copy x is honest when x   *)
(* is.                                                                     *)
LEMMA HonestSave ==
    ASSUME NEW x \in CredentialsRequest, NEW b, NEW new, NEW s, NEW hour,
           Honest(x, hour), SameButStatus(x, b), SameReport(s, x.status), Updated(new, b, s)
    PROVE  Honest(new, hour)
<1>1. new \in CredentialsRequest /\ SameButStatus(new, x) /\ SameReport(new.status, x.status)
  BY Zenon DEF Updated, SameButStatus
<1>2. QED
  BY <1>1, HonestStatus, Zenon

(* A step of a call.                                                       *)
LEMMA WorkerHonest ==
    ASSUME TypeInv, TypeInv', HonestInv, NEW w \in Workers, WorkerStep(w)
    PROVE  HonestInv'
<1> DEFINE k == wk[w]
           n == wk'[w]
           old == crs[k.req]
           new == crs'[k.req]
<1>1. /\ Proceeds(w) /\ Writes(w) /\ UNCHANGED crCache /\ k.pc # "idle" /\ k.req \in CRs
      /\ Reports(w)
  BY CallStep, CallReports, Zenon
<1>2. UNCHANGED now
  BY OwnStep, Zenon
<1>3. /\ k.base \in CredentialsRequest /\ k.cr \in CredentialsRequest
      /\ Honest(k.base, now) /\ Honest(k.cr, now) /\ SameButStatus(k.cr, k.base)
      /\ k.pc \in ActuatorPCs => ~RecentAt(k.cr, now)
      /\ k.base # None /\ k.cr # None /\ Honest(old, now)
  BY <1>1, Running, DistinctAssumption, Zenon DEF HonestInv, HonestCall, At
<1>4. Honest(new, now)
  <2>1. CASE new = old
    BY <1>3, <2>1, Zenon
  <2>2. CASE new = None
    BY <2>2, Zenon DEF Honest
  <2>3. CASE k.pc = "addDeprovisionFinalizer" /\ Protected(new, k.base)
    BY <1>3, <2>3, DistinctAssumption, Zenon DEF Protected, Honest, RecentAt
  <2>4. CASE k.pc = "updateStatus" /\ Updated(new, k.base, k.cr.status)
    <3>1. SameReport(k.cr.status, k.cr.status)
      BY Zenon DEF SameReport, SameSync
    <3>2. QED
      BY <1>3, <2>4, <3>1, HonestSave, Zenon
  <2>5. ASSUME NEW s \in Status, SameSync(s, k.cr.status), s.provisioned = k.cr.status.provisioned,
               Updated(new, k.base, s)
        PROVE  Honest(new, now)
    <3>1. SameReport(s, k.cr.status)
      BY <2>5, Zenon DEF SameReport
    <3>2. QED
      BY <1>3, <2>5, <3>1, HonestSave, Zenon
  <2>6. QED
    BY <1>1, <2>1, <2>2, <2>3, <2>4, <2>5, Zenon DEF Writes
<1>5. \A c \in CRs : Honest(crs'[c], now)
  BY <1>1, <1>4, Zenon DEF Writes, HonestInv
<1>6. HonestCall(n, now)
  <2> SUFFICES ASSUME n.pc # "idle"
               PROVE  /\ Honest(n.base, now) /\ Honest(n.cr, now) /\ SameButStatus(n.cr, n.base)
                      /\ n.pc \in ActuatorPCs => ~RecentAt(n.cr, now)
    BY Zenon DEF HonestCall
  <2>1. /\ SameButStatus(n.base, k.base) /\ SameButStatus(n.cr, k.cr)
        /\ n.base = k.base \/ n.base = crs'[k.req]
    BY <1>1, Zenon DEF Proceeds
  <2>2. n.cr \in CredentialsRequest
    BY Zenon DEF TypeInv, GoodWorkers
  <2>3. Honest(n.base, now) /\ SameButStatus(n.cr, n.base)
    BY <1>3, <1>4, <2>1, Zenon DEF SameButStatus
  <2>4. \/ SameReport(n.cr.status, k.cr.status)
        \/ SameSync(n.cr.status, k.cr.status) /\ k.pc \in ActuatorPCs
        \/ n.cr.status.provisioned /\ n.cr.status.syncGen = k.base.gen
    <3>1. k.pc \in {"namespace", "addDeprovisionFinalizer", "updateStatus"} \cup ActuatorPCs \cup DeletePCs
      BY <1>1, Zenon DEF Reports, TypeInv, TypeOK, Worker, PCs, ActuatorPCs
    <3>2. QED
      BY <1>1, <3>1, Zenon DEF Reports, ChecksNamespace, Syncs, Concludes, Deprovisions
  <2>5. Honest(n.cr, now)
    BY <1>3, <2>1, <2>2, <2>4, HonestStatus, Zenon DEF SameButStatus
  <2>6. ASSUME n.pc \in ActuatorPCs
        PROVE  ~RecentAt(n.cr, now)
    <3>1. k.pc \in SyncPCs /\ n.pc \notin {"idle", "updateStatus"}
      BY <1>1, <2>6, Zenon DEF Proceeds, ActuatorPCs, SyncPCs
    <3>2. CASE k.pc = "namespace"
      <4>1. SameReport(n.cr.status, k.cr.status) /\ ~RecentlySynced(k.cr)
        BY <1>1, <2>6, <3>1, <3>2, Zenon DEF Reports, ChecksNamespace
      <4>2. QED
        BY <2>1, <4>1, Zenon DEF RecentlySynced, RecentAt, SameReport, SameSync, SameButStatus
    <3>3. CASE k.pc \in ActuatorPCs
      <4>1. SameReport(n.cr.status, k.cr.status)
        BY <1>1, <2>6, <3>3, Zenon DEF Reports, Syncs
      <4>2. QED
        BY <1>3, <2>1, <3>3, <4>1, Zenon DEF RecentAt, SameReport, SameSync, SameButStatus
    <3>4. QED
      BY <3>1, <3>2, <3>3, Zenon DEF ActuatorPCs
  <2>7. QED
    BY <2>3, <2>5, <2>6, Zenon
<1> HIDE DEF n
<1>7. \A v \in Workers : HonestCall(wk'[v], now)
  BY <1>1, <1>6, Zenon DEF Proceeds, HonestInv, n
<1>8. QED
  BY <1>1, <1>2, <1>5, <1>7, Zenon DEF HonestInv

(* A write of a user.                                                      *)
LEMMA UserWritesHonest ==
    ASSUME NEW c \in CRs, NEW hour, UserWrites(c), Honest(crs[c], hour)
    PROVE  Honest(crs'[c], hour)
<1> DEFINE old == crs[c]
           new == crs'[c]
<1>1. None \notin CredentialsRequest
  BY DistinctAssumption, Zenon
<1>2. CASE /\ old = None /\ new \in CredentialsRequest
           /\ new.status = NewStatus /\ ~new.finalizer /\ ~new.deleting
           /\ new.ref \in TargetsOf[c] /\ new.gen = 1
  <2>1. NewStatus.syncGen = 0 /\ NewStatus.syncTime = 0
    BY Zenon DEF NewStatus
  <2>2. new.status.syncGen <= new.gen /\ new.status.syncTime = 0
    BY <1>2, <2>1
  <2>3. QED
    BY <1>2, <2>2, Zenon DEF Honest, RecentAt
<1>3. CASE /\ old \in CredentialsRequest /\ new \in CredentialsRequest
           /\ new.status = old.status /\ new.finalizer = old.finalizer
           /\ new.deleting = old.deleting
           /\ new.ref \in TargetsOf[c] /\ new.gen = old.gen + 1
  <2>1. old # None /\ old.gen \in Nat /\ old.status.syncGen \in Nat
    BY <1>1, <1>3, Zenon DEF CredentialsRequest, Status
  <2>2. old.status.syncGen <= old.gen /\ (old.deleting => old.finalizer)
    BY <2>1, Zenon DEF Honest
  <2>3. new.status.syncGen <= new.gen /\ new.gen # new.status.syncGen
    BY <1>3, <2>1, <2>2
  <2>4. QED
    BY <1>3, <2>2, <2>3, Zenon DEF Honest, RecentAt
<1>4. CASE /\ old \in CredentialsRequest /\ ~old.deleting /\ old.finalizer
           /\ new \in CredentialsRequest /\ new = [old EXCEPT !.deleting = TRUE]
  <2>1. new.status = old.status /\ new.gen = old.gen /\ new.finalizer
    BY <1>4, Zenon DEF CredentialsRequest
  <2>2. QED
    BY <1>1, <1>4, <2>1, Zenon DEF Honest, RecentAt
<1>5. CASE new = None
  BY <1>5, Zenon DEF Honest
<1>6. QED
  BY <1>2, <1>3, <1>4, <1>5, Zenon DEF UserWrites

(* Time passes, or does not.                                               *)
LEMMA HonestTick ==
    ASSUME NEW x \in CredentialsRequest \cup {None}, NEW hour \in Nat,
           NEW later \in {hour, hour + 1}, Honest(x, hour)
    PROVE  Honest(x, later) /\ (x # None /\ ~RecentAt(x, hour) => ~RecentAt(x, later))
  BY HonestLater, Zenon

(* Any step, with any number of processes.                                 *)
LEMMA HonestStep ==
    ASSUME TypeInv, TypeInv', HonestInv, [Next]_vars
    PROVE  HonestInv'
<1>0. /\ now \in Nat /\ crs \in [CRs -> CredentialsRequest \cup {None}]
      /\ crCache \in [Workers -> [CRs -> CredentialsRequest \cup {None}]]
      /\ wk \in [Workers -> Worker]
  BY Zenon DEF TypeInv, TypeOK
<1>1. ASSUME NEW w \in Workers, WorkerStep(w)
      PROVE  HonestInv'
  BY <1>1, WorkerHonest, Zenon
<1>2. ASSUME NEW w \in Workers, NEW c \in CRs, Reconcile(w, c)
      PROVE  HonestInv'
  <2>1. /\ UNCHANGED <<crs, crCache>> /\ \A v \in Workers \ {w} : wk'[v] = wk[v]
        /\ wk'[w].base = crCache[w][c] /\ wk'[w].cr = crCache[w][c]
        /\ wk'[w].pc \notin ActuatorPCs
    BY <1>2, CallStart, Zenon DEF ActuatorPCs, SyncPCs
  <2>2. UNCHANGED now
    BY <1>2, OwnStep, Zenon
  <2>3. HonestCall(wk'[w], now)
    BY <2>1, Zenon DEF HonestInv, HonestCall, SameButStatus
  <2>4. \A v \in Workers : HonestCall(wk'[v], now)
    BY <2>1, <2>3, Zenon DEF HonestInv
  <2>5. QED
    BY <2>1, <2>2, <2>4, Zenon DEF HonestInv
<1>3. ASSUME NEW w \in Workers,
             \/ Restart(w)
             \/ \E c \in CRs : SyncCRCache(w, c)
             \/ \E r \in Refs : SyncSecretCache(w, r)
      PROVE  HonestInv'
  <2>1. /\ UNCHANGED crs
        /\ \A v \in Workers : /\ wk'[v].pc = "idle" \/ wk'[v] = wk[v]
                              /\ \A c \in CRs : crCache'[v][c] \in {crCache[v][c], crs[c]}
    BY <1>3, CacheStep, Zenon
  <2>2. UNCHANGED now
    BY <1>3, OwnStep, Zenon
  <2>3. \A v \in Workers : HonestCall(wk'[v], now)
    BY <2>1, Zenon DEF HonestInv, HonestCall
  <2>4. \A v \in Workers, c \in CRs : Honest(crCache'[v][c], now)
    BY <2>1, Zenon DEF HonestInv
  <2>5. QED
    BY <2>1, <2>2, <2>3, <2>4, Zenon DEF HonestInv
<1>4. ASSUME Environment
      PROVE  HonestInv'
  <2>1. UNCHANGED <<wk, crCache>> /\ (UNCHANGED crs \/ \E c \in CRs : UserWrites(c))
    BY <1>4, EnvironmentStep, Zenon
  <2>2. now' \in {now, now + 1}
    <3>1. now' = now \/ now' = now + 1
      BY <1>4, Zenon DEF Environment, CreateCR, EditSpec, DeleteCR, CreateNamespace,
         DeleteNamespace, EditSecret, EditIAM, EditRoot, Tick
    <3>2. QED
      BY <3>1, Zenon
  <2>3. \A c \in CRs : Honest(crs'[c], now)
    <3>1. ASSUME NEW c \in CRs, UserWrites(c)
          PROVE  \A d \in CRs : Honest(crs'[d], now)
      <4>1. Honest(crs'[c], now)
        BY <3>1, UserWritesHonest, Zenon DEF HonestInv
      <4>2. \A d \in CRs \ {c} : crs'[d] = crs[d]
        BY <3>1, Zenon DEF UserWrites
      <4>3. QED
        BY <4>1, <4>2, Zenon DEF HonestInv
    <3>2. QED
      BY <2>1, <3>1, Zenon DEF HonestInv
  <2>4. \A c \in CRs : crs'[c] \in CredentialsRequest \cup {None}
    BY Zenon DEF TypeInv, TypeOK
  <2>5. \A c \in CRs : Honest(crs'[c], now')
    BY <1>0, <2>2, <2>3, <2>4, HonestTick, Zenon
  <2>6. \A w \in Workers, c \in CRs : Honest(crCache'[w][c], now')
    BY <1>0, <2>1, <2>2, HonestTick, Zenon DEF HonestInv
  <2>7. ASSUME NEW w \in Workers, wk[w].pc # "idle"
        PROVE  HonestCall(wk[w], now')
    <3>1. wk[w].base \in CredentialsRequest /\ wk[w].cr \in CredentialsRequest /\ wk[w].cr # None
      BY <2>7, Running, DistinctAssumption, Zenon DEF At
    <3>2. /\ Honest(wk[w].base, now) /\ Honest(wk[w].cr, now)
          /\ SameButStatus(wk[w].cr, wk[w].base)
          /\ wk[w].pc \in ActuatorPCs => ~RecentAt(wk[w].cr, now)
      BY <2>7, Zenon DEF HonestInv, HonestCall
    <3>3. /\ Honest(wk[w].base, now') /\ Honest(wk[w].cr, now')
          /\ ~RecentAt(wk[w].cr, now) => ~RecentAt(wk[w].cr, now')
      BY <1>0, <2>2, <3>1, <3>2, HonestTick, Zenon
    <3>4. QED
      BY <3>2, <3>3, Zenon DEF HonestCall
  <2>8. \A w \in Workers : HonestCall(wk'[w], now')
    BY <2>1, <2>7, Zenon DEF HonestCall
  <2>9. QED
    BY <2>5, <2>6, <2>8, Zenon DEF HonestInv
<1>5. CASE UNCHANGED vars
  BY <1>5, Zenon DEF vars, apiVars, cacheVars, HonestInv
<1>6. QED
  BY <1>1, <1>2, <1>3, <1>4, <1>5, Zenon DEF Next

(* Any number of processes: what a copy of a request says of itself holds  *)
(* for the stored request, every cached one and those of every call.       *)
LEMMA CopiesAreHonest == Spec => []HonestInv
<1>1. Init => HonestInv
  <2> SUFFICES ASSUME Init
               PROVE  HonestInv
    BY Zenon
  <2>1. /\ crs = [c \in CRs |-> None] /\ crCache = [w \in Workers |-> crs]
        /\ \A w \in Workers : wk[w].pc = "idle"
    BY Zenon DEF Init, IdleWorker, Locals
  <2>2. \A c \in CRs : crs[c] = None /\ \A w \in Workers : crCache[w][c] = None
    BY <2>1, Zenon
  <2>3. QED
    BY <2>1, <2>2, Zenon DEF HonestInv, HonestCall, Honest
<1>2. TypeInv /\ TypeInv' /\ HonestInv /\ [Next]_vars => HonestInv'
  BY HonestStep, Zenon
<1>3. QED
  BY <1>1, <1>2, CallsAreGood, PTL DEF Spec

-----------------------------------------------------------------------------
(* What a call leaves to do *)

(* The step a call makes is the one of its place.                          *)
LEMMA OnlyStep ==
    ASSUME NEW w \in Workers, WorkerStep(w)
    PROVE  /\ wk[w].pc = "addDeprovisionFinalizer" => addDeprovisionFinalizer(w)
           /\ wk[w].pc = "removeDeprovisionFinalizer" => removeDeprovisionFinalizer(w)
           /\ wk[w].pc = "updateStatus" => updateStatus(w)
<1>1. ~addDeprovisionFinalizer(w) /\ ~removeDeprovisionFinalizer(w) /\ ~updateStatus(w)
      => wk[w].pc \notin {"addDeprovisionFinalizer", "removeDeprovisionFinalizer", "updateStatus"}
  BY Zenon DEF WorkerStep, checkNamespace, Sync, Delete, deleteTargetSecret, sync,
     needsUpdateUser, needsUpdateKeys, needsUpdatePolicy, cloudCreds, GetUser, CreateUser, TagUser,
     PutUserPolicy, ListAccessKeys, rotateAccessKeys, CreateAccessKey, syncAccessKeySecret,
     DeleteUserPolicy, DeleteListAccessKeys, DeleteAccessKeys, DeleteUser, userName,
     clearDeprovisionFailure, At
<1>2. QED
  BY <1>1, Zenon DEF addDeprovisionFinalizer, removeDeprovisionFinalizer, updateStatus, At

(* A write that does not make Reconcile return an error was made.          *)
LEMMA WritesWithoutError ==
    ASSUME TypeInv, NEW w \in Workers, WorkerStep(w), ~ReturnsError(w)
    PROVE  LET k == wk[w]
               y == crs'[k.req]
           IN  /\ k.pc = "addDeprovisionFinalizer" => y # None /\ y.finalizer
               /\ k.pc = "removeDeprovisionFinalizer" => y = None
               /\ k.pc = "updateStatus" /\ k.cr.status = k.base.status => y = crs[k.req]
               /\ k.pc = "updateStatus" /\ k.cr.status # k.base.status
                    => y # None /\ y.finalizer = k.base.finalizer /\ y.status = k.cr.status
<1> DEFINE k == wk[w]
<1>0. faults' = faults /\ (Fault("callFails") \/ Fault("responseLost") => FALSE)
  <2>1. faults' = faults
    BY Zenon DEF ReturnsError
  <2>2. QED
    BY <2>1 DEF Fault, TypeInv, TypeOK
<1>1. /\ crs \in [CRs -> CredentialsRequest \cup {None}] /\ k.req \in CRs
      /\ k.pc # "idle" /\ k.base \in CredentialsRequest /\ k.cr \in CredentialsRequest
      /\ k.cr.status \in Status
  BY CallStep, Running, Zenon DEF TypeInv, TypeOK, At
<1>2. ASSUME k.pc = "addDeprovisionFinalizer"
      PROVE  crs'[k.req] # None /\ crs'[k.req].finalizer
  <2>1. addDeprovisionFinalizer(w) /\ NoConflict(w)
    BY <1>2, OnlyStep, Zenon DEF ReturnsError
  <2>2. Store(w, [k.base EXCEPT !.finalizer = TRUE])
    BY <1>0, <2>1, Zenon DEF addDeprovisionFinalizer, Call
  <2>3. QED
    BY <1>1, <2>2, DistinctAssumption, Zenon DEF Store, CredentialsRequest
<1>3. ASSUME k.pc = "removeDeprovisionFinalizer"
      PROVE  crs'[k.req] = None
  <2>1. removeDeprovisionFinalizer(w) /\ NoConflict(w)
    BY <1>3, OnlyStep, Zenon DEF ReturnsError
  <2>2. Store(w, None)
    BY <1>0, <2>1, Zenon DEF removeDeprovisionFinalizer, Call
  <2>3. QED
    BY <1>1, <2>2, Zenon DEF Store
<1>4. ASSUME k.pc = "updateStatus"
      PROVE  /\ k.cr.status = k.base.status => crs'[k.req] = crs[k.req]
             /\ k.cr.status # k.base.status
                  => /\ crs'[k.req] # None /\ crs'[k.req].finalizer = k.base.finalizer
                     /\ crs'[k.req].status = k.cr.status
  <2>1. updateStatus(w)
    BY <1>4, OnlyStep, Zenon
  <2>2. k.cr.status = k.base.status => UNCHANGED crs
    BY <2>1, Zenon DEF updateStatus
  <2>3. ASSUME k.cr.status # k.base.status
        PROVE  /\ crs'[k.req] # None /\ crs'[k.req].finalizer = k.base.finalizer
               /\ crs'[k.req].status = k.cr.status
    <3>1. NoConflict(w)
      BY <1>4, <2>3, Zenon DEF ReturnsError
    <3>2. Store(w, WithStatus(w))
      BY <1>0, <2>1, <2>3, <3>1, Zenon DEF updateStatus, Call
    <3>3. QED
      BY <1>1, <3>2, DistinctAssumption, Zenon DEF Store, WithStatus, CredentialsRequest
  <2>4. QED
    BY <2>2, <2>3, Zenon
<1>5. QED
  BY <1>2, <1>3, <1>4, Zenon


(* The copies of a call that goes on.                                      *)
LEMMA CopiesStay ==
    ASSUME TypeInv, NEW w \in Workers, WorkerStep(w), wk'[w].pc # "idle",
           NEW x, SameButStatus(wk[w].base, x), SameButStatus(wk[w].cr, x)
    PROVE  SameButStatus(wk'[w].base, x) /\ SameButStatus(wk'[w].cr, x)
<1>1. SameButStatus(wk'[w].base, wk[w].base) /\ SameButStatus(wk'[w].cr, wk[w].cr)
  BY CallStep, Zenon DEF Proceeds
<1>2. QED
  BY <1>1, Zenon DEF SameButStatus

(* The steps before and behind the actuator's sync.                        *)
LEMMA NamespaceKnows ==
    ASSUME TypeInv, HonestInv, NEW w \in Workers, WorkerStep(w), wk[w].pc = "namespace",
           NEW open \in SUBSET namespaces,
           CallKnows(wk[w], crCache[w][wk[w].req], crs[wk[w].req], open)
    PROVE  KnowsOrEnds(w, open)
<1> DEFINE k == wk[w]
           n == wk'[w]
           x == crCache[w][k.req]
<1>1. /\ k.base = x /\ k.cr = x /\ x # None /\ x.finalizer /\ ~x.deleting
      /\ SameButStatus(k.base, x) /\ SameButStatus(k.cr, x)
  BY Zenon DEF CallKnows, SyncPCs
<1>2. ChecksNamespace(w)
  BY CallReports, Zenon DEF Reports
<1>3. n.pc # "idle" => SameButStatus(n.base, x) /\ SameButStatus(n.cr, x)
  BY <1>1, CopiesStay, Zenon
<1>4. ASSUME n.pc = "idle"
      PROVE  ReturnsError(w) \/ Quiet(x, crs'[k.req], open)
  <2>1. faults' # faults => ReturnsError(w)
    BY Zenon DEF ReturnsError
  <2>2. ASSUME RecentlySynced(k.cr)
        PROVE  Calm(x, open)
    <3>1. Honest(x, now) /\ RecentAt(x, now)
      BY <1>1, <2>2, CallStep, Zenon DEF HonestInv, RecentlySynced, RecentAt
    <3>2. QED
      BY <1>1, <3>1, Zenon DEF Honest, Calm, RecentAt
  <2>3. QED
    BY <1>2, <1>4, <2>1, <2>2, Zenon DEF ChecksNamespace, Quiet
<1>5. ASSUME n.pc = "sync"
      PROVE  CallKnows(n, x, crs'[k.req], open)
  <2>1. n.base = x /\ ~Missing(n.cr.status)
    BY <1>1, <1>2, <1>5, Zenon DEF ChecksNamespace
  <2>2. "sync" \in SyncPCs /\ "sync" \notin DeletePCs
    BY Zenon DEF SyncPCs, DeletePCs
  <2>3. QED
    BY <1>1, <1>3, <1>5, <2>1, <2>2, Zenon DEF CallKnows
<1>6. ASSUME n.pc = "updateStatus"
      PROVE  CallKnows(n, x, crs'[k.req], open)
  <2>1. /\ n.base = x /\ Missing(n.cr.status) /\ n.cr.status.provisioned = x.status.provisioned
        /\ NamespaceOf[x.ref] \notin namespaces
    BY <1>1, <1>2, <1>6, Zenon DEF ChecksNamespace, SameReport
  <2>2. n.cr.finalizer /\ ~n.cr.deleting /\ n.cr.ref = x.ref
    BY <1>1, <1>3, <1>6, Zenon DEF SameButStatus
  <2>3. Calm(n.cr, open)
    BY <2>1, <2>2, Zenon DEF Calm
  <2>4. "updateStatus" \notin SyncPCs \cup DeletePCs \cup ActuatorPCs
    BY Zenon DEF SyncPCs, DeletePCs, ActuatorPCs
  <2>5. QED
    BY <1>1, <1>3, <1>6, <2>1, <2>3, <2>4, Zenon DEF CallKnows
<1>7. QED
  BY <1>2, <1>4, <1>5, <1>6, Zenon DEF ChecksNamespace, KnowsOrEnds, Busy

(* The steps of the actuator's sync.                                       *)
LEMMA SyncKnows ==
    ASSUME TypeInv, TypeInv', NEW w \in Workers, WorkerStep(w), wk[w].pc \in ActuatorPCs,
           NEW open,
           crCache[w][wk[w].req] \in CredentialsRequest,
           CallKnows(wk[w], crCache[w][wk[w].req], crs[wk[w].req], open)
    PROVE  KnowsOrEnds(w, open)
<1> DEFINE k == wk[w]
           n == wk'[w]
           x == crCache[w][k.req]
           y == crs[k.req]
           z == crs'[k.req]
<1>0. None \notin Users
  BY DistinctAssumption, Zenon
<1>1. /\ x # None /\ x.finalizer /\ ~x.deleting /\ ~Missing(k.cr.status)
      /\ SameButStatus(k.base, x) /\ SameButStatus(k.cr, x)
      /\ k.base # x => /\ x.status.user = None /\ k.base.status.user # None
                       /\ y # None /\ y.finalizer /\ y.status # x.status
  BY Zenon DEF CallKnows, ActuatorPCs
<1>2. Syncs(w)
  BY CallReports, Zenon DEF Reports
<1>3. n.pc # "idle" => SameButStatus(n.base, x) /\ SameButStatus(n.cr, x)
  BY <1>1, CopiesStay, Zenon
<1>4. ASSUME n.pc = "idle"
      PROVE  ReturnsError(w)
  BY <1>2, <1>4, Zenon DEF Syncs, ReturnsError
<1>5. /\ k.base \in CredentialsRequest
      /\ k.cr.status.user = None => k.base.status.user = None
  BY CallStep, Running, Zenon DEF TypeInv, GoodWorkers, At
<1>6. \/ z = y
      \/ UserName(w) = None /\ z # None /\ z.finalizer /\ z.status.user \in Users
  <2>1. k.pc \notin {"removeDeprovisionFinalizer", "addDeprovisionFinalizer", "updateStatus",
                     "clearDeprovisionFailure"}
    BY Zenon DEF ActuatorPCs, SyncPCs
  <2>2. Writes(w)
    BY CallStep, Zenon
  <2>3. ASSUME NEW s \in Status, s.user \in Users, Updated(z, k.base, s)
        PROVE  z # None /\ z.finalizer /\ z.status.user \in Users
    BY <1>1, <2>3, DistinctAssumption, Zenon DEF Updated, SameButStatus
  <2>4. QED
    BY <2>1, <2>2, <2>3, Zenon DEF Writes
<1>7. ASSUME n.pc # "idle", n.base # x
      PROVE  /\ x.status.user = None /\ n.base.status.user # None
             /\ z # None /\ z.finalizer /\ z.status # x.status
  <2>1. UserName(w) = None => x.status.user = None
    <3>1. UserName(w) = None => k.base.status.user = None
      BY <1>5, Zenon DEF UserName
    <3>2. QED
      BY <1>1, <3>1, Zenon
  <2>2. CASE n.base = k.base
    BY <1>0, <1>1, <1>6, <1>7, <2>2, Zenon
  <2>3. CASE n.base # k.base
    <3>1. UserName(w) = None /\ n.base = z /\ n.base.status.user \in Users
      BY <1>2, <1>7, <2>3, Zenon DEF Syncs
    <3>2. z # None /\ z.finalizer
      <4>1. n.base \in CredentialsRequest
        BY <1>7, Zenon DEF TypeInv, GoodWorkers
      <4>2. QED
        BY <1>1, <1>3, <1>7, <3>1, <4>1, DistinctAssumption, Zenon DEF SameButStatus
    <3>3. QED
      BY <1>0, <2>1, <3>1, <3>2, Zenon
  <2>4. QED
    BY <2>2, <2>3, Zenon
<1>8. ASSUME n.pc \in ActuatorPCs
      PROVE  CallKnows(n, x, z, open)
  <2>1. /\ n.pc \notin {"idle", "updateStatus", "namespace", "addDeprovisionFinalizer"}
        /\ n.pc \in SyncPCs /\ n.pc \notin DeletePCs
    BY <1>8, Zenon DEF ActuatorPCs, SyncPCs, DeletePCs
  <2>2. ~Missing(n.cr.status)
    BY <1>1, <1>2, <1>8, Zenon DEF Syncs
  <2> HIDE DEF n, x, z
  <2>3. QED
    BY <1>1, <1>3, <1>7, <2>1, <2>2, Zenon DEF CallKnows
<1>9. ASSUME n.pc = "updateStatus"
      PROVE  CallKnows(n, x, z, open)
  <2>1. n.pc \notin {"idle", "addDeprovisionFinalizer", "namespace"} \cup SyncPCs \cup DeletePCs \cup ActuatorPCs
    BY <1>9, Zenon DEF ActuatorPCs, SyncPCs, DeletePCs
  <2>2. Concludes(w) /\ n.base = k.base
    BY <1>2, <1>9, Zenon DEF Syncs
  <2>3. ~Missing(n.cr.status)
    BY <1>1, <2>2, Zenon DEF Concludes
  <2>4. n.cr.finalizer /\ ~n.cr.deleting /\ n.cr.gen = k.base.gen
    BY <1>1, <1>3, <2>1, Zenon DEF SameButStatus
  <2>5. Failing(n.cr.status) \/ Calm(n.cr, open)
    BY <2>2, <2>3, <2>4, Zenon DEF Concludes, Failing, Calm
  <2> HIDE DEF n, x, z
  <2>6. QED
    BY <1>1, <1>3, <1>7, <2>1, <2>3, <2>5, Zenon DEF CallKnows
<1>10. n.pc \in ActuatorPCs \cup PanicPCs \cup {"idle", "updateStatus"}
  BY <1>2, Zenon DEF Syncs
<1>11. QED
  BY <1>4, <1>8, <1>9, <1>10, Zenon DEF KnowsOrEnds, Busy


(* The last write of Reconcile.                                            *)
LEMMA UpdateKnows ==
    ASSUME TypeInv, NEW w \in Workers, WorkerStep(w), wk[w].pc = "updateStatus",
           NEW open,
           CallKnows(wk[w], crCache[w][wk[w].req], crs[wk[w].req], open), ~ReturnsError(w)
    PROVE  Quiet(crCache[w][wk[w].req], crs'[wk[w].req], open)
<1> DEFINE k == wk[w]
           x == crCache[w][k.req]
           y == crs[k.req]
           z == crs'[k.req]
<1>1. ~k.cr.deleting /\ ~Failing(k.cr.status)
  BY Zenon DEF ReturnsError, Failing, Missing
<1>2. /\ x # None /\ SameButStatus(k.base, x) /\ SameButStatus(k.cr, x)
      /\ x.deleting \/ (x.finalizer /\ (Failing(k.cr.status) \/ Calm(k.cr, open)))
      /\ ~x.deleting /\ k.base # x => /\ x.status.user = None /\ k.base.status.user # None
                                      /\ y # None /\ y.finalizer /\ y.status # x.status
  BY Zenon DEF CallKnows
<1>3. ~x.deleting /\ x.finalizer /\ k.base.finalizer /\ Calm(k.cr, open)
  BY <1>1, <1>2, Zenon DEF SameButStatus
<1>4. k.base.status.user \in {None, k.cr.status.user}
  BY Running, Zenon DEF At
<1>5. /\ k.cr.status = k.base.status => z = y
      /\ k.cr.status # k.base.status => z # None /\ z.finalizer = k.base.finalizer /\ z.status = k.cr.status
  BY WritesWithoutError, Zenon
<1> HIDE DEF x, y, z, k
<1>6. CASE k.cr.status = k.base.status /\ k.base = x
  <2>1. Calm(x, open)
    BY <1>2, <1>3, <1>6, Zenon DEF Calm, SameButStatus
  <2>2. QED
    BY <2>1, Zenon DEF Quiet, x, z, k
<1>7. CASE k.cr.status # k.base.status \/ k.base # x
  <2>1. z # None /\ z.finalizer /\ z.status # x.status
    BY <1>2, <1>3, <1>4, <1>5, <1>7, Zenon
  <2>2. QED
    BY <1>3, <2>1, Zenon DEF Quiet, Past, x, z, k
<1>8. QED
  BY <1>6, <1>7, Zenon

(* Every step of a call that nothing has woken again.                      *)
LEMMA CallMinds ==
    ASSUME TypeInv, TypeInv', HonestInv, NEW w \in Workers, WorkerStep(w),
           NEW open \in SUBSET namespaces,
           CallKnows(wk[w], crCache[w][wk[w].req], crs[wk[w].req], open)
    PROVE  KnowsOrEnds(w, open)
<1> DEFINE k == wk[w]
           n == wk'[w]
           x == crCache[w][k.req]
           z == crs'[k.req]
<1>1. /\ x \in CredentialsRequest /\ Reports(w)
      /\ SameButStatus(k.base, x) /\ SameButStatus(k.cr, x)
  <2>1. x # None /\ k.req \in CRs /\ Reports(w)
    BY CallStep, CallReports, Zenon DEF CallKnows
  <2>2. x \in CredentialsRequest
    BY <2>1 DEF TypeInv, TypeOK
  <2>3. QED
    BY <2>1, <2>2, Zenon DEF CallKnows
<1>2. CASE k.pc = "namespace"
  BY <1>2, NamespaceKnows, Zenon
<1>3. CASE k.pc \in ActuatorPCs
  BY <1>1, <1>3, SyncKnows, Zenon
<1>4. CASE k.pc = "updateStatus"
  <2>1. n.pc = "idle"
    BY <1>1, <1>4 DEF Reports
  <2>2. QED
    BY <1>4, <2>1, UpdateKnows, Zenon DEF KnowsOrEnds, Busy
<1>5. CASE k.pc = "addDeprovisionFinalizer"
  <2>1. n.pc = "idle" /\ ~x.finalizer
    BY <1>1, <1>5, Zenon DEF Reports, CallKnows
  <2>2. ~ReturnsError(w) => z # None /\ z.finalizer
    BY <1>5, WritesWithoutError, Zenon
  <2>3. QED
    BY <2>1, <2>2, Zenon DEF KnowsOrEnds, Busy, Quiet, Past
<1>6. CASE k.pc \in DeletePCs
  <2>1. x.deleting /\ x # None /\ Deprovisions(w)
    BY <1>1, <1>6, Zenon DEF Reports, CallKnows
  <2>2. ASSUME n.pc = "idle"
        PROVE  ReturnsError(w) \/ Quiet(x, z, open)
    <3>1. CASE k.pc = "deleteTargetSecret"
      BY <3>1, Zenon DEF ReturnsError
    <3>2. CASE k.pc = "removeDeprovisionFinalizer"
      <4>1. ~ReturnsError(w) => z = None
        BY <3>2, WritesWithoutError, Zenon
      <4>2. QED
        BY <2>1, <4>1, Zenon DEF Quiet, Past
    <3>3. QED
      BY <2>1, <2>2, <3>1, <3>2, Zenon DEF Deprovisions
  <2>3. ASSUME n.pc \in DeletePCs \cup {"updateStatus"}
        PROVE  CallKnows(n, x, z, open)
    <3>1. n.pc \notin {"idle", "addDeprovisionFinalizer", "namespace"} \cup SyncPCs \cup ActuatorPCs
      BY <2>3, Zenon DEF SyncPCs, DeletePCs, ActuatorPCs
    <3>2. SameButStatus(n.base, x) /\ SameButStatus(n.cr, x)
      BY <1>1, <3>1, CopiesStay, Zenon
    <3> HIDE DEF n, x, z
    <3>3. QED
      BY <2>1, <3>1, <3>2, Zenon DEF CallKnows
  <2>4. n.pc \in DeletePCs \cup {"idle", "updateStatus"}
    BY <2>1, Zenon DEF Deprovisions
  <2>5. QED
    BY <2>2, <2>3, <2>4, Zenon DEF KnowsOrEnds, Busy
<1>7. k.pc \in {"namespace", "updateStatus", "addDeprovisionFinalizer"} \cup ActuatorPCs \cup DeletePCs
  <2>1. k.pc \in PCs /\ k.pc # "idle" /\ k.pc \notin PanicPCs
    BY <1>1, CallStep, Zenon DEF TypeInv, TypeOK, Worker, Reports
  <2> HIDE DEF k
  <2>2. QED
    BY <2>1, Zenon DEF PCs, ActuatorPCs
<1>8. QED
  BY <1>2, <1>3, <1>4, <1>5, <1>6, <1>7, Zenon

-----------------------------------------------------------------------------
(* The interface *)

(* Everything Steps says of a step is proved of the code.                  *)
LEMMA StepsAreAsStated ==
    ASSUME TypeInv
    PROVE  StepFacts
<1>1. RunningFacts
  BY Running, Zenon DEF RunningFacts
<1>2. NamedFacts
  BY NamedUser, Zenon DEF NamedFacts
<1>3. CallFacts
  BY CallStep, Zenon DEF CallFacts
<1>4. IAMFacts
  BY IAMStep, Zenon DEF IAMFacts
<1>5. UserFacts
  BY UserStep, DeleteStep, Zenon DEF UserFacts
<1>6. SecretFacts
  BY SecretStep, Zenon DEF SecretFacts
<1>7. NameFacts
  BY WorkerKeepsNames, Zenon DEF NameFacts
<1>8. ReportFacts
  BY CallReports, Zenon DEF ReportFacts
<1>9. StartFacts
  BY CallStart, Zenon DEF StartFacts, Starts
<1>10. CacheFacts
  BY CacheStep, Zenon DEF CacheFacts, Catches
<1>11. OwnFacts
  BY OwnStep, Zenon DEF OwnFacts, Catches
<1>12. EnvironmentFacts
  BY EnvironmentStep, Zenon DEF EnvironmentFacts
<1>13. OutsideFacts
  BY OutsideStep, Zenon DEF OutsideFacts
<1>14. QED
  BY <1>1, <1>2, <1>3, <1>4, <1>5, <1>6, <1>7, <1>8, <1>9, <1>10, <1>11, <1>12, <1>13, Zenon
     DEF StepFacts

(* And so is what a call knows of its request.                             *)
LEMMA CallsKnow ==
    ASSUME TypeInv, TypeInv', HonestInv
    PROVE  MindFacts
  BY CallMinds, Zenon DEF MindFacts

=============================================================================
