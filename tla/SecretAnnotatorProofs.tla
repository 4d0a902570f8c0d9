------------------------ MODULE SecretAnnotatorProofs ------------------------
(***************************************************************************)
(* The proofs about the secretannotator controller, for any credentials    *)
(* and any bounds: nothing is forgotten while the annotation is wrong, and *)
(* no write claims more than the credentials allow.                        *)
(***************************************************************************)
EXTENDS SecretAnnotator, FiniteSetTheorems, TLAPS

-----------------------------------------------------------------------------
(* The inductive invariant *)

Name == CloudCredSecretName

(* The steps of a check that ask AWS.                                      *)
AskPCs == {"GetUser", "SimulatePrincipalPolicy"}

(* The locals of a Reconcile call.                                         *)
Calls ==
    [pc: {"idle", "LoadInfrastructureName", "GetUser", "SimulatePrincipalPolicy",
          "updateSecretAnnotations", "updateAfterError"},
     base: Secret \cup {None}, current: BOOLEAN, mode: Modes \cup {None}]

(* A running call holds a secret and keeps its request in processing; one  *)
(* that checks credentials has some, and a failed check claims nothing.    *)
CallOK ==
    /\ call.pc = "idle" => call = Idle /\ queue.processing = {}
    /\ call.pc # "idle" => call.base \in Secret /\ queue.processing = {Name} /\ call.mode \in Modes
    /\ call.pc \in AskPCs \cup {"LoadInfrastructureName"} => call.base.creds # None
    /\ call.pc = "LoadInfrastructureName" => call.mode = "mint"
    /\ call.pc \in AskPCs => call.mode \in {"mint", "passthrough"}
    /\ call.pc = "updateAfterError" => call.mode = "insufficient"

(* A copy with the latest resourceVersion is the stored secret.            *)
CopiesOK ==
    /\ cacheCurrent => cache = secret
    /\ call.current => call.pc # "idle" /\ call.base = secret

(* What a call has found out so far is right: the credentials that did not *)
(* pass for minting are not good for it, and the mode it is about to write *)
(* without an error is the one they allow.                                 *)
VerdictOK ==
    /\ call.pc \in AskPCs /\ call.mode = "passthrough" => grants[call.base.creds] \notin {"mint", "root"}
    /\ call.pc = "updateSecretAnnotations" => call.mode = Mode(call.base)

(* A wrong annotation that the cache shows is being worked on, or will be. *)
Remembered ==
    cacheCurrent /\ secret # None /\ secret.mode # Mode(secret)
    => queue.dirty # {} \/ queue.delayed # {} \/ call.pc # "idle"

AnnotatorInv ==
    TypeOK /\ CallOK /\ CopiesOK /\ (grantEdits = 0 => VerdictOK /\ Remembered)

-----------------------------------------------------------------------------
(* The work queue of one item *)

(* InSomeOrder lists at most the one request.                              *)
LEMMA ListsName ==
    ASSUME NEW S \in SUBSET {Name}
    PROVE  InSomeOrder(S) \in Seq({Name})
<1>1. IsFiniteSet(S)
  BY FS_Singleton, FS_Subset, Zenon
<1> DEFINE n == Cardinality(S)
<1>2. n \in Nat /\ ExistsBijection(1..n, S)
  BY <1>1, FS_CardinalityType, Zenon
<1>3. PICK f \in [1..n -> S] : IsInjective(f)
  BY <1>2, Zenon DEF ExistsBijection, Bijection, Injection
<1>4. InSomeOrder(S) \in [1..n -> S]
  BY <1>3, Zenon DEF InSomeOrder
<1> HIDE DEF n
<1>5. QED
  BY <1>2, <1>4

(* Add: the request is dirty from now on.                                  *)
LEMMA AddedFacts ==
    ASSUME NEW q \in Queue({Name})
    PROVE  LET a == AddAll(q, {Name})
           IN  /\ a \in Queue({Name}) /\ a.dirty = {Name}
               /\ a.processing = q.processing /\ a.delayed = q.delayed
<1> DEFINE new == {Name} \ q.dirty
           l == InSomeOrder(new \ q.processing)
<1>1. l \in Seq({Name})
  <2>1. new \ q.processing \in SUBSET {Name}
    BY Zenon
  <2>2. QED
    BY <2>1, ListsName, Zenon
<1>2. q.list \o l \in Seq({Name})
  BY <1>1 DEF Queue
<1>3. AddAll(q, {Name}) = [q EXCEPT !.dirty = q.dirty \cup new, !.list = q.list \o l]
  BY Zenon DEF AddAll
<1> HIDE DEF l
<1>4. QED
  BY <1>2, <1>3, Zenon DEF Queue

(* Get: the request is being reconciled.                                   *)
LEMMA TakenFacts ==
    ASSUME NEW q \in Queue({Name}), q.list # <<>>
    PROVE  Get(q) \in Queue({Name}) /\ Get(q).processing = {Name}
<1>1. Head(q.list) = Name /\ Tail(q.list) \in Seq({Name})
  BY DEF Queue
<1>2. QED
  BY <1>1, Zenon DEF Get, Queue

(* Done: what failed is delayed, the rest is as it was.                    *)
LEMMA DoneFacts ==
    ASSUME NEW q \in Queue({Name}), NEW failed \in BOOLEAN
    PROVE  LET d == Done(q, failed)
           IN  /\ d \in Queue({Name}) /\ d.processing = {}
               /\ failed => q.processing \subseteq d.delayed
<1> DEFINE l == InSomeOrder(q.processing \cap q.dirty)
           delayed == IF failed THEN q.delayed \cup q.processing ELSE q.delayed
<1>1. l \in Seq({Name})
  <2>1. q.processing \cap q.dirty \in SUBSET {Name}
    BY Zenon DEF Queue
  <2>2. QED
    BY <2>1, ListsName, Zenon
<1>2. q.list \o l \in Seq({Name})
  BY <1>1 DEF Queue
<1>3. Done(q, failed) = [q EXCEPT !.processing = {}, !.list = q.list \o l, !.delayed = delayed]
  BY Zenon DEF Done
<1>4. delayed \in SUBSET {Name} /\ (failed => q.processing \subseteq delayed)
  BY Zenon DEF Queue
<1> HIDE DEF l, delayed
<1>5. QED
  BY <1>2, <1>3, <1>4, Zenon DEF Queue

(* The end of a back-off is an Add.                                        *)
LEMMA RetriedFacts ==
    ASSUME NEW q \in Queue({Name})
    PROVE  LET t == Retry(q, Name)
           IN  t \in Queue({Name}) /\ t.dirty = {Name} /\ t.processing = q.processing
<1> DEFINE p == [q EXCEPT !.delayed = @ \ {Name}]
<1>1. p \in Queue({Name}) /\ p.processing = q.processing
  BY Zenon DEF Queue
<1> HIDE DEF p
<1>2. QED
  BY <1>1, AddedFacts, Zenon DEF Retry, p

(* The queue at the start, and of a process that starts again.             *)
LEMMA EmptyFacts ==
    /\ EmptyQueue \in Queue({Name}) /\ EmptyQueue.processing = {}
    /\ AddAll(EmptyQueue, {}) \in Queue({Name}) /\ AddAll(EmptyQueue, {}).processing = {}
<1>1. EmptyQueue \in Queue({Name}) /\ EmptyQueue.processing = {}
  BY DEF EmptyQueue, Queue
<1> DEFINE l == InSomeOrder({})
<1>2. l \in Seq({Name})
  BY ListsName, Zenon
<1>3. AddAll(EmptyQueue, {}) = [EmptyQueue EXCEPT !.dirty = {}, !.list = <<>> \o l]
  BY Zenon DEF AddAll, EmptyQueue
<1> HIDE DEF l
<1>4. <<>> \o l \in Seq({Name})
  BY <1>2
<1>5. QED
  BY <1>1, <1>3, <1>4, Zenon DEF EmptyQueue, Queue


-----------------------------------------------------------------------------
(* The steps of a call *)

(* What the next step of a call must have found out.                       *)
Move(pc, mode) ==
    /\ pc \in AskPCs \cup {"updateSecretAnnotations", "updateAfterError"}
    /\ mode \in Modes
    /\ pc \in AskPCs => call.base.creds # None /\ mode \in {"mint", "passthrough"}
    /\ pc = "updateAfterError" => mode = "insufficient"
    /\ grantEdits = 0 /\ pc \in AskPCs /\ mode = "passthrough"
       => grants[call.base.creds] \notin {"mint", "root"}
    /\ grantEdits = 0 /\ pc = "updateSecretAnnotations" => mode = Mode(call.base)

(* A call that goes on keeps the invariant.                                *)
LEMMA GotoKeeps ==
    ASSUME AnnotatorInv, call.pc # "idle", NEW pc, NEW mode, Move(pc, mode), Goto(pc, mode),
           UNCHANGED <<secretVars, grants, edits, grantEdits>>, faults' \in 0..MaxFaults
    PROVE  AnnotatorInv'
<1> USE DEF secretVars
<1>1. call \in Calls /\ TypeOK /\ CallOK /\ CopiesOK
  BY Zenon DEF AnnotatorInv, TypeOK, Calls
<1>2. /\ call' = [call EXCEPT !.pc = pc, !.mode = mode] /\ queue' = queue
      /\ pc \in AskPCs \cup {"updateSecretAnnotations", "updateAfterError"} /\ mode \in Modes
  BY Zenon DEF Goto, Move
<1>3. /\ call' \in Calls /\ call'.pc = pc /\ call'.mode = mode /\ call'.base = call.base
      /\ call'.current = call.current
  BY <1>1, <1>2, Zenon DEF Calls, AskPCs
<1>4. TypeOK'
  BY <1>1, <1>2, <1>3, Zenon DEF TypeOK, Calls
<1>5. CallOK'
  BY <1>1, <1>2, <1>3, Zenon DEF CallOK, Move, AskPCs
<1>6. CopiesOK'
  BY <1>1, <1>2, <1>3, Zenon DEF CopiesOK, AskPCs
<1>7. ASSUME grantEdits' = 0 PROVE VerdictOK' /\ Remembered'
  <2>1. VerdictOK'
    BY <1>3, <1>7, Zenon DEF VerdictOK, Move, Mode
  <2>2. pc # "idle"
    BY <1>2, Zenon DEF AskPCs
  <2>3. QED
    BY <1>3, <2>1, <2>2, Zenon DEF Remembered
<1>8. QED
  BY <1>4, <1>5, <1>6, <1>7, Zenon DEF AnnotatorInv

(* A call that returns keeps the invariant: with an error the request is   *)
(* delayed, and without one the annotation must be right.                  *)
LEMMA ReturnKeeps ==
    ASSUME AnnotatorInv, call.pc # "idle", NEW failed \in BOOLEAN, Return(failed),
           UNCHANGED <<cache, grants, edits, grantEdits>>, faults' \in 0..MaxFaults,
           secret' \in Secret \cup {None}, cacheCurrent' \in BOOLEAN,
           cacheCurrent' => cache' = secret',
           failed \/ grantEdits # 0 \/ (secret'.mode = Mode(secret'))
    PROVE  AnnotatorInv'
<1>1. TypeOK /\ queue.processing = {Name}
  BY Zenon DEF AnnotatorInv, CallOK
<1>2. queue \in Queue({Name}) /\ queue' = Done(queue, failed) /\ call' = Idle
  BY <1>1, Zenon DEF TypeOK, Return, Name
<1>3. queue' \in Queue({Name}) /\ queue'.processing = {} /\ (failed => queue'.delayed # {})
  BY <1>1, <1>2, DoneFacts, Zenon
<1>4. /\ call'.pc = "idle" /\ call'.current = FALSE /\ call' = Idle
      /\ Idle \in Calls
  BY <1>2, Zenon DEF Idle, Calls
<1>5. TypeOK'
  BY <1>1, <1>3, <1>4, Zenon DEF TypeOK, Calls, Name
<1>6. CallOK'
  BY <1>3, <1>4, Zenon DEF CallOK, AskPCs
<1>7. CopiesOK'
  BY <1>4, Zenon DEF CopiesOK
<1>8. ASSUME grantEdits' = 0 PROVE VerdictOK' /\ Remembered'
  <2>1. VerdictOK'
    BY <1>4, Zenon DEF VerdictOK, AskPCs
  <2>2. failed \/ secret'.mode = Mode(secret)'
    BY <1>8, Zenon DEF Mode
  <2>3. QED
    BY <1>3, <2>1, <2>2, Zenon DEF Remembered
<1>9. QED
  BY <1>5, <1>6, <1>7, <1>8, Zenon DEF AnnotatorInv

(* The answer to a check is what the credentials allow.                    *)
LEMMA CheckedMoves ==
    ASSUME AnnotatorInv, call.pc \in AskPCs, NEW passed \in BOOLEAN, Checked(passed),
           passed = Passes(grants[call.base.creds], call.mode)
    PROVE  \E pc, mode : Move(pc, mode) /\ Goto(pc, mode)
<1> DEFINE grant == grants[call.base.creds]
<1>1. /\ call.base \in Secret /\ call.base.creds \in Creds /\ call.mode \in {"mint", "passthrough"}
      /\ grant \in Grants
  BY Zenon DEF AnnotatorInv, TypeOK, CallOK, Secret, AskPCs
<1>2. grantEdits = 0 /\ call.mode = "passthrough" => grant \notin {"mint", "root"}
  BY Zenon DEF AnnotatorInv, VerdictOK
<1>3. Mode(call.base) = IF grant \in {"root", "mint"} THEN "mint"
                        ELSE IF grant = "passthrough" THEN "passthrough" ELSE "insufficient"
  BY <1>1, NoneAssumption, Zenon DEF Mode
<1>4. passed <=> (grant = "root" \/ grant = call.mode)
  BY Zenon DEF Passes
<1>5. call.base.creds # None
  BY <1>1, NoneAssumption, Zenon
<1> HIDE DEF grant
<1>6. CASE passed /\ Goto("updateSecretAnnotations", call.mode)
  <2>1. Move("updateSecretAnnotations", call.mode)
    BY <1>1, <1>2, <1>3, <1>4, <1>6, Zenon DEF Move, AskPCs, Modes
  <2>2. QED
    BY <1>6, <2>1, Zenon
<1>7. CASE ~passed /\ call.mode = "mint" /\ Goto("GetUser", "passthrough")
  <2>1. Move("GetUser", "passthrough")
    BY <1>1, <1>4, <1>5, <1>7, Zenon DEF Move, AskPCs, Modes, grant
  <2>2. QED
    BY <1>7, <2>1, Zenon
<1>8. CASE ~passed /\ call.mode = "passthrough" /\ Goto("updateSecretAnnotations", "insufficient")
  <2>1. Move("updateSecretAnnotations", "insufficient")
    BY <1>1, <1>2, <1>3, <1>4, <1>8, Zenon DEF Move, AskPCs, Modes
  <2>2. QED
    BY <1>8, <2>1, Zenon
<1>9. QED
  BY <1>6, <1>7, <1>8, Zenon DEF Checked


(* A step of a call counts at most one fault.                              *)
LEMMA FaultFacts ==
    ASSUME AnnotatorInv, NoFault \/ Fault
    PROVE  UNCHANGED <<edits, grantEdits>> /\ faults' \in 0..MaxFaults
BY BoundsAssumption DEF NoFault, Fault, bounds, AnnotatorInv, TypeOK

(* The three steps before the write (validateCloudCredsSecret).            *)
LEMMA CheckStepsKeep ==
    ASSUME AnnotatorInv, LoadInfrastructureName \/ getClientDetails \/ CheckPermissions
    PROVE  AnnotatorInv'
<1> DEFINE grant == grants[call.base.creds]
<1>1. /\ call.pc \in AskPCs \cup {"LoadInfrastructureName"} /\ call.pc # "idle"
      /\ UNCHANGED <<secretVars, grants>>
  BY Zenon DEF LoadInfrastructureName, getClientDetails, CheckPermissions, AskPCs
<1>2. UNCHANGED <<edits, grantEdits>> /\ faults' \in 0..MaxFaults
  <2>1. NoFault \/ Fault
    BY Zenon DEF LoadInfrastructureName, getClientDetails, CheckPermissions
  <2>2. QED
    BY <2>1, FaultFacts, Zenon
<1>3. /\ call.base \in Secret /\ call.base.creds \in Creds /\ call.base.creds # None
      /\ call.pc \in AskPCs => call.mode \in {"mint", "passthrough"}
      /\ call.pc = "LoadInfrastructureName" => call.mode = "mint"
  BY <1>1, NoneAssumption, Zenon DEF AnnotatorInv, CallOK, Secret
<1>4. Move("updateAfterError", "insufficient")
  BY Zenon DEF Move, Modes, AskPCs
<1>5. CASE LoadInfrastructureName
  <2>1. CASE Return(TRUE)
    <3>1. secret' \in Secret \cup {None} /\ cacheCurrent' \in BOOLEAN /\ (cacheCurrent' => cache' = secret')
      BY <1>1, Zenon DEF secretVars, AnnotatorInv, TypeOK, CopiesOK
    <3>2. QED
      BY <1>1, <1>2, <2>1, <3>1, ReturnKeeps, Zenon DEF secretVars
  <2>2. CASE Goto("GetUser", call.mode)
    <3>1. Move("GetUser", "mint")
      BY <1>3, Zenon DEF Move, AskPCs, Modes
    <3>2. call.mode = "mint"
      BY <1>3, <1>5, Zenon DEF LoadInfrastructureName
    <3>3. QED
      BY <1>1, <1>2, <2>2, <3>1, <3>2, GotoKeeps, Zenon
  <2>3. QED
    BY <1>5, <2>1, <2>2, Zenon DEF LoadInfrastructureName
<1>6. ASSUME call.pc \in AskPCs, NEW passed \in BOOLEAN, Checked(passed), passed = Passes(grant, call.mode)
      PROVE  AnnotatorInv'
  BY <1>1, <1>2, <1>6, CheckedMoves, GotoKeeps, Zenon
<1>7. CASE CheckFailed
  BY <1>1, <1>2, <1>4, <1>7, GotoKeeps, Zenon DEF CheckFailed
<1>8. CASE getClientDetails
  <2>1. call.pc \in AskPCs
    BY <1>8, Zenon DEF getClientDetails, AskPCs
  <2>2. CASE grant = "root" /\ Checked(TRUE)
    BY <1>6, <2>1, <2>2, Zenon DEF Passes
  <2>3. CASE grant \notin {"invalid", "root"} /\ Goto("SimulatePrincipalPolicy", call.mode)
    <3>1. grantEdits = 0 /\ call.mode = "passthrough" => grant \notin {"mint", "root"}
      BY <2>1, Zenon DEF AnnotatorInv, VerdictOK
    <3>2. Move("SimulatePrincipalPolicy", call.mode)
      BY <1>3, <2>1, <3>1, Zenon DEF Move, AskPCs, Modes
    <3>3. QED
      BY <1>1, <1>2, <2>3, <3>2, GotoKeeps, Zenon
  <2>4. QED
    BY <1>7, <1>8, <2>2, <2>3, Zenon DEF getClientDetails
<1>9. CASE CheckPermissions
  <2>1. call.pc \in AskPCs
    BY <1>9, Zenon DEF CheckPermissions, AskPCs
  <2>2. Passes(grant, call.mode) \in BOOLEAN
    BY Zenon DEF Passes
  <2>3. CASE Checked(Passes(grant, call.mode))
    BY <1>6, <2>1, <2>2, <2>3, Zenon
  <2>4. QED
    BY <1>7, <1>9, <2>3, Zenon DEF CheckPermissions
<1>10. QED
  BY <1>5, <1>8, <1>9, Zenon

(* What a write stores: the secret the call read, with its verdict.        *)
LEMMA WriteFacts ==
    ASSUME AnnotatorInv, call.pc \in {"updateSecretAnnotations", "updateAfterError"},
           call.current, Write(call.mode), UNCHANGED grants
    PROVE  /\ secret' \in Secret /\ secret'.mode = call.mode /\ secret'.creds = secret.creds
           /\ Mode(secret') = Mode(call.base) /\ Mode(secret)' = Mode(call.base)
           /\ cacheCurrent' \in BOOLEAN /\ (cacheCurrent' => cache' = secret')
<1>1. secret = call.base /\ secret \in Secret /\ call.mode \in Modes
  BY Zenon DEF AnnotatorInv, CallOK, CopiesOK
<1>2. secret' = [secret EXCEPT !.mode = call.mode]
  BY Zenon DEF Write
<1>3. secret' \in Secret /\ secret'.mode = call.mode /\ secret'.creds = secret.creds
  BY <1>1, <1>2, Zenon DEF Secret
<1>4. Mode(secret') = Mode(call.base) /\ Mode(secret)' = Mode(call.base)
  BY <1>1, <1>3, Zenon DEF Mode
<1>5. cacheCurrent' \in BOOLEAN /\ (cacheCurrent' => cache' = secret')
  BY Zenon DEF Write, AnnotatorInv, CopiesOK
<1>6. QED
  BY <1>3, <1>4, <1>5, Zenon

(* The write of the annotation (updateSecretAnnotations).                  *)
LEMMA WriteStepKeeps ==
    ASSUME AnnotatorInv, updateSecretAnnotations
    PROVE  AnnotatorInv'
<1>1. /\ call.pc \in {"updateSecretAnnotations", "updateAfterError"} /\ call.pc # "idle"
      /\ UNCHANGED grants
  BY Zenon DEF updateSecretAnnotations
<1>2. UNCHANGED <<edits, grantEdits>> /\ faults' \in 0..MaxFaults
  <2>1. NoFault \/ Fault
    BY Zenon DEF updateSecretAnnotations
  <2>2. QED
    BY <2>1, FaultFacts, Zenon
<1>3. PICK failed \in BOOLEAN :
        /\ Return(failed)
        /\ \/ UNCHANGED secretVars /\ failed
           \/ /\ call.current /\ Write(call.mode)
              /\ failed \/ call.pc = "updateSecretAnnotations"
  <2>1. Return(call.pc = "updateAfterError")
        => (call.pc = "updateAfterError" /\ Return(TRUE)) \/ (call.pc = "updateSecretAnnotations" /\ Return(FALSE))
    <3>1. CASE call.pc = "updateAfterError"
      <4>1. (call.pc = "updateAfterError") = TRUE
        BY <3>1, Zenon
      <4>2. QED
        BY <3>1, <4>1, Zenon
    <3>2. CASE call.pc = "updateSecretAnnotations"
      <4>1. (call.pc = "updateAfterError") = FALSE
        BY <3>2, Zenon
      <4>2. QED
        BY <3>2, <4>1, Zenon
    <3>3. QED
      BY <1>1, <3>1, <3>2, Zenon
  <2>2. QED
    BY <2>1, Zenon DEF updateSecretAnnotations
<1>4. CASE UNCHANGED secretVars /\ failed
  <2>1. secret' \in Secret \cup {None} /\ cacheCurrent' \in BOOLEAN /\ (cacheCurrent' => cache' = secret')
    BY <1>4, Zenon DEF secretVars, AnnotatorInv, TypeOK, CopiesOK
  <2>2. QED
    BY <1>1, <1>2, <1>3, <1>4, <2>1, ReturnKeeps, Zenon DEF secretVars
<1>5. CASE call.current /\ Write(call.mode) /\ (failed \/ call.pc = "updateSecretAnnotations")
  <2>1. /\ secret' \in Secret /\ secret'.mode = call.mode /\ Mode(secret') = Mode(call.base)
        /\ cacheCurrent' \in BOOLEAN /\ (cacheCurrent' => cache' = secret')
    BY <1>1, <1>5, WriteFacts, Zenon
  <2>2. failed \/ grantEdits # 0 \/ secret'.mode = Mode(secret')
    BY <1>5, <2>1, Zenon DEF AnnotatorInv, VerdictOK
  <2>3. UNCHANGED cache
    BY <1>5, Zenon DEF Write
  <2>4. QED
    BY <1>1, <1>2, <1>3, <2>1, <2>2, <2>3, ReturnKeeps, Zenon
<1>6. QED
  BY <1>3, <1>4, <1>5, Zenon


(* A call begins with the cached secret (Reconcile).                       *)
LEMMA ReconcileKeeps ==
    ASSUME AnnotatorInv, Reconcile
    PROVE  AnnotatorInv'
<1>1. /\ TypeOK /\ call = Idle /\ call.pc = "idle" /\ queue.list # <<>> /\ queue \in Queue({Name})
      /\ UNCHANGED <<secretVars, grants, bounds>> /\ (cacheCurrent => cache = secret)
  BY Zenon DEF AnnotatorInv, Reconcile, CallOK, CopiesOK, TypeOK, Name
<1>2. Get(queue) \in Queue({Name}) /\ Get(queue).processing = {Name}
  BY <1>1, TakenFacts, Zenon
<1>3. CASE cache = None
  <2>1. call' = Idle /\ queue' = Done(Get(queue), TRUE)
    BY <1>3, Zenon DEF Reconcile
  <2>2. queue' \in Queue({Name}) /\ queue'.processing = {} /\ queue'.delayed # {}
    BY <1>2, <2>1, DoneFacts, Zenon
  <2>3. call' = call
    BY <1>1, <2>1, Zenon
  <2>4. TypeOK'
    BY <1>1, <2>2, <2>3, Zenon DEF TypeOK, secretVars, bounds, Name
  <2>5. CallOK' /\ CopiesOK'
    BY <1>1, <2>2, <2>3, Zenon DEF CallOK, CopiesOK, AskPCs, Idle, secretVars
  <2>6. VerdictOK' /\ Remembered'
    BY <1>1, <2>2, <2>3, Zenon DEF VerdictOK, Remembered, AskPCs
  <2>7. QED
    BY <2>4, <2>5, <2>6, Zenon DEF AnnotatorInv
<1>4. CASE cache # None
  <2>1. cache \in Secret /\ cache.creds \in Creds \cup {None}
    BY <1>1, <1>4, Zenon DEF TypeOK, Secret
  <2>2. /\ queue' = Get(queue)
        /\ call' = [base |-> cache, current |-> cacheCurrent,
                    pc |-> IF cache.creds = None
                           THEN "updateSecretAnnotations" ELSE "LoadInfrastructureName",
                    mode |-> IF cache.creds = None THEN "insufficient" ELSE "mint"]
    BY <1>4, Zenon DEF Reconcile
  <2>3. /\ call'.base = cache /\ call'.current = cacheCurrent
        /\ \/ cache.creds = None /\ call'.pc = "updateSecretAnnotations" /\ call'.mode = "insufficient"
           \/ cache.creds # None /\ call'.pc = "LoadInfrastructureName" /\ call'.mode = "mint"
    BY <2>2, Zenon
  <2>4. call' \in Calls
    BY <1>1, <2>1, <2>2, Zenon DEF Calls, Modes, TypeOK
  <2>5. TypeOK'
    BY <1>1, <1>2, <2>2, <2>4, Zenon DEF TypeOK, Calls, secretVars, bounds, Name
  <2>6. CallOK' /\ CopiesOK'
    BY <1>1, <1>2, <2>1, <2>2, <2>3, Zenon DEF CallOK, CopiesOK, AskPCs, Modes, secretVars
  <2>7. VerdictOK' /\ Remembered'
    BY <1>1, <2>3, Zenon DEF VerdictOK, Remembered, AskPCs, Mode
  <2>8. QED
    BY <2>5, <2>6, <2>7 DEF AnnotatorInv
<1>5. QED
  BY <1>3, <1>4, Zenon

-----------------------------------------------------------------------------
(* The other steps *)

(* What is reported to the queue or tried again makes the request dirty.   *)
LEMMA ReportsKeep ==
    ASSUME AnnotatorInv, Watch \/ Resync \/ BackoffOver
    PROVE  AnnotatorInv'
<1>1. TypeOK /\ queue \in Queue({Name}) /\ UNCHANGED <<secret, grants, call, bounds>>
  BY Zenon DEF AnnotatorInv, TypeOK, Name, Watch, Resync, BackoffOver, secretVars
<1>2. /\ cache' \in Secret \cup {None} /\ cacheCurrent' \in BOOLEAN
      /\ cacheCurrent' => cache' = secret'
  <2>1. CASE Watch
    BY <1>1, <2>1, Zenon DEF TypeOK, Watch
  <2>2. CASE UNCHANGED secretVars
    BY <2>2, Zenon DEF AnnotatorInv, TypeOK, CopiesOK, secretVars
  <2>3. QED
    BY <2>1, <2>2, Zenon DEF Resync, BackoffOver
<1>3. queue' \in Queue({Name}) /\ queue'.dirty = {Name} /\ queue'.processing = queue.processing
  BY <1>1, AddedFacts, RetriedFacts, Zenon DEF Watch, Resync, BackoffOver, Enqueue, Name
<1>4. TypeOK'
  BY <1>1, <1>2, <1>3, Zenon DEF TypeOK, bounds, Name
<1>5. CallOK' /\ CopiesOK'
  BY <1>1, <1>2, <1>3, Zenon DEF AnnotatorInv, CallOK, CopiesOK
<1>6. Remembered'
  BY <1>3, Zenon DEF Remembered
<1>7. grantEdits' = 0 => VerdictOK'
  BY <1>1, Zenon DEF AnnotatorInv, VerdictOK, Mode, bounds
<1>8. QED
  BY <1>4, <1>5, <1>6, <1>7, Zenon DEF AnnotatorInv

(* A process that starts again lists the secret.                           *)
LEMMA RestartKeeps ==
    ASSUME AnnotatorInv, Restart
    PROVE  AnnotatorInv'
<1>1. /\ TypeOK /\ call' = Idle /\ cache' = secret /\ cacheCurrent' = TRUE
      /\ UNCHANGED <<secret, grants>> /\ Fault
  BY Zenon DEF AnnotatorInv, Restart
<1>2. UNCHANGED <<edits, grantEdits>> /\ faults' \in 0..MaxFaults
  BY <1>1, FaultFacts, Zenon
<1>3. /\ queue' \in Queue({Name}) /\ queue'.processing = {}
      /\ secret # None => queue'.dirty = {Name}
  <2>1. CASE secret = None
    <3>1. queue' = AddAll(EmptyQueue, {})
      BY <2>1, Zenon DEF Restart
    <3>2. QED
      BY <2>1, <3>1, EmptyFacts, Zenon
  <2>2. CASE secret # None
    <3>1. queue' = AddAll(EmptyQueue, {Name})
      BY <2>2, Zenon DEF Restart, Name
    <3>2. QED
      BY <3>1, EmptyFacts, AddedFacts, Zenon
  <2>3. QED
    BY <2>1, <2>2, Zenon
<1>4. Idle \in Calls /\ Idle.pc = "idle" /\ Idle.current = FALSE
  BY Zenon DEF Idle, Calls
<1>5. TypeOK'
  BY <1>1, <1>2, <1>3, <1>4, Zenon DEF TypeOK, Calls, Name
<1>6. CallOK' /\ CopiesOK'
  BY <1>1, <1>3, <1>4, Zenon DEF CallOK, CopiesOK, AskPCs
<1>7. VerdictOK' /\ Remembered'
  BY <1>1, <1>3, <1>4, Zenon DEF VerdictOK, Remembered, AskPCs
<1>8. QED
  BY <1>5, <1>6, <1>7 DEF AnnotatorInv

(* Edits by others make every copy old, or end the assumption on AWS.      *)
LEMMA EditsKeep ==
    ASSUME AnnotatorInv, EditSecret \/ EditGrants
    PROVE  AnnotatorInv'
<1>1. TypeOK /\ call \in Calls /\ CallOK /\ CopiesOK
  BY Zenon DEF AnnotatorInv, TypeOK, Calls
<1>2. CASE EditSecret
  <2>1. /\ secret' \in Secret \cup {None} /\ cacheCurrent' = FALSE
        /\ call' = [call EXCEPT !.current = FALSE]
        /\ UNCHANGED <<cache, grants, queue, grantEdits, faults>>
    BY <1>2, Zenon DEF EditSecret
  <2>2. /\ call' \in Calls /\ call'.pc = call.pc /\ call'.base = call.base /\ call'.mode = call.mode
        /\ call'.current = FALSE
    BY <1>1, <2>1, Zenon DEF Calls
  <2>3. edits' \in 0..MaxSecretEdits
    BY <1>1, <1>2, BoundsAssumption DEF EditSecret, TypeOK
  <2>4. TypeOK'
    BY <1>1, <2>1, <2>2, <2>3, Zenon DEF TypeOK, Calls
  <2>5. call.pc = "idle" => call' = Idle
    <3> SUFFICES ASSUME call.pc = "idle" PROVE call' = Idle
      BY Zenon
    <3>1. call = Idle
      BY <1>1, Zenon DEF CallOK
    <3>2. call' = [pc |-> call.pc, base |-> call.base, current |-> FALSE, mode |-> call.mode]
      BY <1>1, <2>1, Zenon DEF Calls
    <3>3. QED
      BY <3>1, <3>2, Zenon DEF Idle
  <2>6. CallOK' /\ CopiesOK'
    BY <1>1, <2>1, <2>2, <2>5, Zenon DEF CallOK, CopiesOK
  <2>7. Remembered'
    BY <2>1, Zenon DEF Remembered
  <2>8. grantEdits' = 0 => VerdictOK'
    BY <2>1, <2>2, Zenon DEF AnnotatorInv, VerdictOK, Mode
  <2>9. QED
    BY <2>4, <2>6, <2>7, <2>8, Zenon DEF AnnotatorInv
<1>3. CASE EditGrants
  <2>1. grantEdits' \in 0..MaxGrantEdits /\ grantEdits' # 0
    BY <1>1, <1>3, BoundsAssumption DEF EditGrants, TypeOK
  <2>2. grants' \in [Creds -> Grants] /\ UNCHANGED <<secretVars, queue, call, edits, faults>>
    BY <1>1, <1>3 DEF EditGrants, TypeOK
  <2>3. TypeOK'
    BY <1>1, <2>1, <2>2, Zenon DEF TypeOK, secretVars
  <2>4. CallOK' /\ CopiesOK'
    BY <1>1, <2>2, Zenon DEF CallOK, CopiesOK, secretVars
  <2>5. QED
    BY <2>1, <2>3, <2>4, Zenon DEF AnnotatorInv
<1>4. QED
  BY <1>2, <1>3, Zenon

-----------------------------------------------------------------------------
(* The theorems *)

(* The invariant holds from the start and in every step.                   *)
LEMMA AnnotatorInvHolds == Spec => []AnnotatorInv
<1>1. Init => AnnotatorInv
  <2> SUFFICES ASSUME Init PROVE AnnotatorInv
    BY Zenon
  <2>1. Idle \in Calls /\ Idle.pc = "idle" /\ Idle.current = FALSE
    BY Zenon DEF Idle, Calls
  <2>2. /\ secret \in Secret \cup {None} /\ cache = None /\ cacheCurrent \in BOOLEAN
        /\ cacheCurrent => secret = None
    BY Zenon DEF Init
  <2>3. TypeOK
    BY <2>1, <2>2, EmptyFacts, BoundsAssumption DEF Init, TypeOK, Calls, Name
  <2>4. CallOK /\ CopiesOK
    BY <2>1, <2>2, EmptyFacts, Zenon DEF Init, CallOK, CopiesOK, AskPCs
  <2>5. VerdictOK /\ Remembered
    BY <2>1, <2>2, Zenon DEF Init, VerdictOK, Remembered, AskPCs
  <2>6. QED
    BY <2>3, <2>4, <2>5, Zenon DEF AnnotatorInv
<1>2. AnnotatorInv /\ [Next]_vars => AnnotatorInv'
  <2>1. AnnotatorInv /\ Next => AnnotatorInv'
    BY ReconcileKeeps, CheckStepsKeep, WriteStepKeeps, ReportsKeep, RestartKeeps, EditsKeep, Zenon
       DEF Next, AnnotatorStep
  <2>2. AnnotatorInv /\ UNCHANGED vars => AnnotatorInv'
    BY DEF vars, AnnotatorInv, TypeOK, CallOK, CopiesOK, VerdictOK, Remembered, Mode
  <2>3. QED
    BY <2>1, <2>2, Zenon
<1>3. QED
  BY <1>1, <1>2, PTL DEF Spec

(* Type correctness: every value the controller handles is of its kind.    *)
THEOREM AnnotatorTypeCorrect == Spec => []TypeOK
<1>1. AnnotatorInv => TypeOK
  BY Zenon DEF AnnotatorInv
<1>2. QED
  BY <1>1, AnnotatorInvHolds, PTL

(* The controller rests only when the annotation says what the credentials *)
(* allow: whatever goes wrong, Reconcile's errors, the watch and the lists *)
(* of a new process keep the request in the queue.                         *)
THEOREM RestsOnlyWhenAnnotated == Spec => []AnnotatedAtRest
<1>1. AnnotatorInv => AnnotatedAtRest
  <2> SUFFICES ASSUME AnnotatorInv, call = Idle, queue = EmptyQueue, cacheCurrent, secret # None,
                      grantEdits = 0
               PROVE  secret.mode = Mode(secret)
    BY Zenon DEF AnnotatedAtRest
  <2>1. call.pc = "idle" /\ queue.dirty = {} /\ queue.delayed = {}
    BY Zenon DEF Idle, EmptyQueue
  <2>2. QED
    BY <2>1, Zenon DEF AnnotatorInv, Remembered
<1>2. QED
  BY <1>1, AnnotatorInvHolds, PTL

(* No write of updateSecretAnnotations claims more than the credentials it *)
(* is stored with allow: the conflict check ties the verdict to the keys.  *)
THEOREM AnnotatorNeverClaimsTooMuch == Spec => NeverClaimsTooMuch
<1> DEFINE Claim == AnnotatorStep /\ secret' # secret /\ grantEdits = 0
                    => secret'.mode \in {Mode(secret'), "insufficient"}
<1>1. AnnotatorInv /\ [Next]_vars => [Claim]_vars
  <2> SUFFICES ASSUME AnnotatorInv, AnnotatorStep, secret' # secret, grantEdits = 0
               PROVE  secret'.mode \in {Mode(secret'), "insufficient"}
    BY Zenon
  <2>1. updateSecretAnnotations
    BY Zenon DEF AnnotatorStep, Reconcile, LoadInfrastructureName, getClientDetails, CheckPermissions, secretVars
  <2>2. /\ call.pc \in {"updateSecretAnnotations", "updateAfterError"}
        /\ call.current /\ Write(call.mode) /\ UNCHANGED grants
    BY <2>1, Zenon DEF updateSecretAnnotations, secretVars
  <2>3. secret'.mode = call.mode /\ Mode(secret') = Mode(call.base)
    BY <2>2, WriteFacts, Zenon
  <2>4. call.mode \in {Mode(call.base), "insufficient"}
    BY <2>2, Zenon DEF AnnotatorInv, CallOK, VerdictOK
  <2>5. QED
    BY <2>3, <2>4, Zenon
<1>2. QED
  BY <1>1, AnnotatorInvHolds, PTL DEF Spec, NeverClaimsTooMuch


=============================================================================
