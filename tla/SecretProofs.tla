---------------------------- MODULE SecretProofs -----------------------------
(***************************************************************************)
(* The steps of the proof that an abandoned secret is dead, for a single   *)
(* operator process: the keys in the secrets of a request were made for    *)
(* it, at most one secret holds a live key of its user, and a sync for a   *)
(* new spec leaves such a key in the secret of the new spec.               *)
(***************************************************************************)
EXTENDS SyncProofs

-----------------------------------------------------------------------------
(* An abandoned secret is dead *)

HasKey(u, j) == iam[u] # None /\ j \in iam[u].keys

Dead(j) == \A u \in Users : ~HasKey(u, j)

(* A key belongs to one user, a live key in a secret to the user of the    *)
(* request that wrote it, and no two secrets hold live keys of one user.   *)
SecretKeys ==
    /\ \A u, v \in Users, j \in Keys : HasKey(u, j) /\ HasKey(v, j) => u = v
    /\ \A r \in Refs, u \in Users :
         secrets[r] # None /\ HasKey(u, secrets[r].key)
         => secrets[r].owner \in CRs /\ Names(crs[secrets[r].owner], u)
    /\ \A q, r \in Refs, u \in Users :
         /\ secrets[q] # None /\ secrets[r] # None
         /\ HasKey(u, secrets[q].key) /\ HasKey(u, secrets[r].key)
         => q = r

(* The steps of syncMint.                                                  *)
MintPCs == {"userName", "GetUser", "CreateUser", "TagUser", "PutUserPolicy", "ListAccessKeys",
            "rotateAccessKeys", "CreateAccessKey"}

(* A call mints only where the admin secret says so, passes the admin key  *)
(* on only where it says so, and holds a new key only while no secret has  *)
(* a live key of its user.                                                 *)
KeySource(k) ==
    /\ k.pc \in MintPCs => RootMode = "mint"
    /\ k.pc = "syncAccessKeySecret" =>
         /\ k.newKey = RootKey => RootMode = "passthrough"
         /\ k.newKey \in Keys =>
              \A r \in Refs : secrets[r] # None => ~HasKey(k.cr.status.user, secrets[r].key)

SourceInv ==
    /\ RootMode # "mint" => \A u \in Users : iam[u] = None
    /\ \A r \in Refs : secrets[r] # None /\ secrets[r].key = RootKey => RootMode = "passthrough"
    /\ \A w \in Workers : KeySource(wk[w])

(* Every secret of the request c other than q holds a dead key, or none.   *)
OthersDead(c, q) ==
    \A r \in Refs : secrets[r] # None /\ secrets[r].owner = c /\ r # q => Dead(secrets[r].key)

AbandonedCall(k, stored) ==
    k.pc = "updateStatus" /\ ~k.base.deleting /\ stored = k.base
      /\ k.cr.status.syncGen = k.base.gen
    => OthersDead(k.req, k.base.ref)

AbandonedInv ==
    /\ \A c \in CRs :
         crs[c] # None /\ crs[c].status.syncGen = crs[c].gen => OthersDead(c, crs[c].ref)
    /\ \A w \in Workers : wk[w].pc # "idle" => AbandonedCall(wk[w], crs[wk[w].req])

(* A key of a user after a step of a call was there before, or is a fresh  *)
(* one of the call's user.                                                 *)
LEMMA KeyComesFromCall ==
    ASSUME StepFacts, TypeInv, NEW w \in Workers, WorkerStep(w), NEW u \in Users, NEW j, HasKey(u, j)'
    PROVE  \/ HasKey(u, j)
           \/ u = UserName(w) /\ wk[w].pc = "CreateAccessKey" /\ FreshKey(j)
<1>1. UsesIAM(w)
  BY Zenon DEF StepFacts, IAMFacts
<1>2. CASE iam'[u] = iam[u]
  BY <1>2, Zenon DEF HasKey
<1>3. CASE iam'[u] # iam[u]
  <2>1. u = UserName(w) /\ iam'[u] # None
    BY <1>1, <1>3, Zenon DEF UsesIAM, HasKey
  <2>2. \/ iam'[u].keys = {}
        \/ iam[u] # None /\ iam'[u].keys \subseteq iam[u].keys
        \/ /\ iam[u] # None /\ wk[w].pc = "CreateAccessKey"
           /\ AddsKeys(iam'[u].keys, iam[u].keys)
    <3>1. User0.keys = {}
      BY Zenon DEF User0
    <3>2. QED
      BY <1>1, <1>3, <2>1, <3>1, Zenon DEF UsesIAM
  <2>3. QED
    BY <2>1, <2>2, Zenon DEF HasKey, AddsKeys
<1>4. QED
  BY <1>2, <1>3, Zenon

(* So a dead key in a secret stays dead.                                   *)
LEMMA DeadStaysDead ==
    ASSUME StepFacts, TypeInv, NEW w \in Workers, WorkerStep(w), NEW r \in Refs, secrets[r] # None
    PROVE  /\ \A u \in Users : HasKey(u, secrets[r].key)' /\ secrets'[r] = secrets[r]
                               => HasKey(u, secrets[r].key)
           /\ Dead(secrets[r].key) /\ secrets'[r] = secrets[r] => Dead(secrets[r].key)'
<1>1. ~FreshKey(secrets[r].key)
  BY Zenon DEF FreshKey
<1>2. ASSUME NEW u \in Users, secrets'[r] = secrets[r], HasKey(u, secrets[r].key)'
      PROVE  HasKey(u, secrets[r].key)
  <2>1. \A j : HasKey(u, j)' => HasKey(u, j) \/ FreshKey(j)
    BY KeyComesFromCall, Zenon
  <2>2. iam'[u] # None /\ secrets[r].key \in iam'[u].keys
    BY <1>2, Zenon DEF HasKey
  <2>3. QED
    BY <1>1, <2>1, <2>2, Zenon DEF HasKey
<1>3. QED
  BY <1>2, Zenon DEF Dead

(* The key that syncAccessKeySecret writes: the admin key, or a live key   *)
(* of the call's user, which is new or the one the secret had.             *)
LEMMA WantedKey ==
    ASSUME StepFacts, TypeInv, NEW w \in Workers, wk[w].pc = "syncAccessKeySecret", CallProgress(wk[w])
    PROVE  /\ Wanted(w) # None /\ Wanted(w).owner = wk[w].req
           /\ \/ wk[w].newKey = RootKey /\ Wanted(w).key = RootKey
              \/ /\ UserName(w) \in Users /\ HasKey(UserName(w), Wanted(w).key)
                 /\ \/ wk[w].newKey \in Keys /\ Wanted(w).key = wk[w].newKey
                    \/ /\ secrets[wk[w].cr.ref] # None
                       /\ Wanted(w).key = secrets[wk[w].cr.ref].key
<1> DEFINE k == wk[w]
           s == secrets[k.cr.ref]
           x == iam[UserName(w)]
<1>1. Progress(k, s, x)
  BY Zenon DEF CallProgress, UserName
<1>2. k.existing = s /\ (\/ k.newKey = RootKey
                         \/ /\ UserName(w) # None /\ x # None
                            /\ \/ k.newKey \in x.keys
                               \/ k.newKey = None /\ s # None /\ s.key \in x.keys)
  BY <1>1, Zenon DEF Progress, UserName
<1>3. Wanted(w).owner = k.req
  BY Zenon DEF Wanted, SecretWith
<1>4. Wanted(w).key = IF k.newKey \in {None, EmptyKey} /\ k.existing # None
                      THEN k.existing.key ELSE k.newKey
  BY Zenon DEF Wanted, SecretWith, KeyGiven
<1>5. UserName(w) \in Users \cup {None} /\ (UserName(w) \in Users => x \in User \cup {None})
  BY Zenon DEF StepFacts, RunningFacts, At, UserName, Status, TypeInv, TypeOK
<1>6. Serves(Wanted(w), UserName(w), x, k.cr.policy)
  BY WantedServes, Zenon
<1>7. Wanted(w) # None
  BY <1>6, Zenon DEF Serves
<1>8. x \in User /\ k.newKey \in x.keys => k.newKey \in Keys
  BY Zenon DEF User
<1>9. RootKey # None /\ None \notin Keys /\ RootKey # EmptyKey /\ EmptyKey \notin Keys
  BY DistinctAssumption, Zenon DEF RootKey, EmptyKey
<1> HIDE DEF k, s, x
<1>10. QED
  BY <1>2, <1>3, <1>4, <1>5, <1>7, <1>8, <1>9, Zenon DEF HasKey, k, s, x

(* A step of a call leaves every other secret alone; one that writes a     *)
(* secret leaves the users and the requests alone.                         *)
LEMMA SecretsInCall ==
    ASSUME StepFacts, TypeInv, NEW w \in Workers, WorkerStep(w)
    PROVE  /\ \A r \in Refs :
                \/ secrets'[r] \in {secrets[r], None}
                \/ /\ r = wk[w].cr.ref /\ wk[w].pc = "syncAccessKeySecret"
                   /\ secrets'[r] = Wanted(w)
           /\ wk[w].pc = "syncAccessKeySecret" =>
                (\A u \in Users : iam'[u] = iam[u]) /\ (\A c \in CRs : crs'[c] = crs[c])
<1>1. WritesSecret(w) /\ UsesIAM(w) /\ Writes(w)
  BY Zenon DEF StepFacts, SecretFacts, IAMFacts, CallFacts
<1>2. secrets \in [Refs -> Secret \cup {None}]
  BY Zenon DEF TypeInv, TypeOK
<1>3. ASSUME NEW r \in Refs
      PROVE  \/ secrets'[r] \in {secrets[r], None}
             \/ /\ r = wk[w].cr.ref /\ wk[w].pc = "syncAccessKeySecret"
                /\ secrets'[r] = Wanted(w)
  BY <1>1, <1>2, Zenon DEF WritesSecret
<1>4. ASSUME wk[w].pc = "syncAccessKeySecret"
      PROVE  (\A u \in Users : iam'[u] = iam[u]) /\ (\A c \in CRs : crs'[c] = crs[c])
  BY <1>1, <1>4, Zenon DEF UsesIAM, Writes, DeletePCs
<1>5. QED
  BY <1>3, <1>4, Zenon

(* The name of a user that has a key stays in its request.                 *)
LEMMA LiveNameStays ==
    ASSUME StepFacts, TypeInv, OrphanInv, NEW w \in Workers, WorkerStep(w), NEW c \in CRs, NEW u \in Users,
           iam[u] # None, Names(crs[c], u)
    PROVE  Names(crs'[c], u)
<1>1. Writes(w) /\ KeepsNames /\ wk[w].pc # "idle" /\ u # None
  BY DistinctAssumption, Zenon DEF StepFacts, CallFacts, NameFacts
<1>2. ASSUME crs'[c] = None
      PROVE  FALSE
  <2>1. c = wk[w].req /\ crs[c] = wk[w].base /\ wk[w].pc = "removeDeprovisionFinalizer"
    BY <1>1, <1>2, DistinctAssumption, Zenon DEF Writes, Updated, Protected, Names
  <2>2. wk[w].base.status.user \in {None, UserName(w)}
    BY <1>1, Zenon DEF StepFacts, RunningFacts, At, UserName
  <2>3. UserName(w) = u
    BY <1>1, <2>1, <2>2, Zenon DEF Names
  <2>4. UserName(w) = None \/ iam[UserName(w)] = None
    BY <2>1, Zenon DEF OrphanInv, CallInv, DeletedPCs, UserName
  <2>5. QED
    BY <1>1, <2>3, <2>4, Zenon
<1>3. QED
  BY <1>1, <1>2, Zenon DEF KeepsNames, Names

(* A step of a call keeps the live keys in the secrets apart.              *)
LEMMA CallKeepsSecretKeys ==
    ASSUME StepFacts, TypeInv, OrphanInv, SecretKeys, NEW w \in Workers, WorkerStep(w),
           CallProgress(wk[w]), KeySource(wk[w])
    PROVE  SecretKeys'
<1> DEFINE k == wk[w]
           U == UserName(w)
<1>0. k.pc # "idle" /\ k.req \in CRs
  BY Zenon DEF StepFacts, CallFacts
<1>1. ASSUME NEW u \in Users, NEW v \in Users, NEW j \in Keys, HasKey(u, j)', HasKey(v, j)'
      PROVE  u = v
  <2>1. /\ HasKey(u, j) \/ (u = U /\ FreshKey(j))
        /\ HasKey(v, j) \/ (v = U /\ FreshKey(j))
    BY <1>1, KeyComesFromCall, Zenon
  <2>2. FreshKey(j) => ~HasKey(u, j) /\ ~HasKey(v, j)
    BY Zenon DEF FreshKey, HasKey
  <2>3. QED
    BY <2>1, <2>2, Zenon DEF SecretKeys
<1>2. ASSUME NEW r \in Refs, NEW u \in Users, secrets'[r] # None, HasKey(u, secrets[r].key)'
      PROVE  secrets'[r].owner \in CRs /\ Names(crs'[secrets'[r].owner], u)
  <2>1. CASE secrets'[r] = secrets[r]
    <3>1. HasKey(u, secrets[r].key)
      BY <1>2, <2>1, DeadStaysDead, Zenon
    <3>2. secrets[r].owner \in CRs /\ Names(crs[secrets[r].owner], u)
      BY <1>2, <2>1, <3>1, Zenon DEF SecretKeys
    <3>3. iam[u] # None
      BY <3>1, Zenon DEF HasKey
    <3>4. QED
      BY <2>1, <3>2, <3>3, LiveNameStays, Zenon
  <2>2. CASE k.pc = "syncAccessKeySecret" /\ secrets'[r] = Wanted(w)
    <3>1. (\A v \in Users : iam'[v] = iam[v]) /\ crs'[k.req] = crs[k.req]
      BY <1>0, <2>2, SecretsInCall, Zenon
    <3>2. HasKey(u, Wanted(w).key) /\ Wanted(w).owner = k.req
      BY <1>2, <2>2, <3>1, WantedKey, Zenon DEF HasKey
    <3>3. iam[u] \in User /\ Wanted(w).key \in Keys
      BY <3>2, Zenon DEF HasKey, TypeInv, TypeOK, User
    <3>4. U \in Users /\ HasKey(U, Wanted(w).key)
      BY <2>2, <3>3, WantedKey, DistinctAssumption, Zenon
    <3>5. u = U
      BY <3>2, <3>3, <3>4, Zenon DEF SecretKeys
    <3>6. Records(crs[k.req], U)
      BY <2>2, <3>4, DistinctAssumption, Zenon DEF OrphanInv, CallInv, SyncPCs, UserName
    <3>7. QED
      BY <1>0, <2>2, <3>1, <3>2, <3>5, <3>6, Zenon DEF Records, Names
  <2>3. QED
    BY <1>2, <2>1, <2>2, SecretsInCall, Zenon
<1>3. ASSUME NEW q \in Refs, NEW r \in Refs, NEW u \in Users, secrets'[q] # None, secrets'[r] # None,
             HasKey(u, secrets[q].key)', HasKey(u, secrets[r].key)'
      PROVE  q = r
  <2>1. CASE secrets'[q] = secrets[q] /\ secrets'[r] = secrets[r]
    <3>1. HasKey(u, secrets[q].key) /\ HasKey(u, secrets[r].key)
      BY <1>3, <2>1, DeadStaysDead, Zenon
    <3>2. QED
      BY <1>3, <2>1, <3>1, Zenon DEF SecretKeys
  <2>2. ASSUME NEW a \in Refs, NEW b \in Refs, a # b, k.pc = "syncAccessKeySecret", a = k.cr.ref,
               secrets[b] # None, HasKey(u, secrets[b].key), HasKey(u, Wanted(w).key)
        PROVE  FALSE
    <3>1. iam[u] \in User /\ Wanted(w).key \in Keys
      BY <2>2, Zenon DEF HasKey, TypeInv, TypeOK, User
    <3>2. /\ U \in Users /\ HasKey(U, Wanted(w).key)
          /\ \/ k.newKey \in Keys
             \/ secrets[a] # None /\ Wanted(w).key = secrets[a].key
      BY <2>2, <3>1, WantedKey, DistinctAssumption, Zenon
    <3>3. u = U
      BY <2>2, <3>1, <3>2, Zenon DEF SecretKeys
    <3>4. k.newKey \in Keys => ~HasKey(u, secrets[b].key)
      BY <2>2, <3>3, Zenon DEF KeySource, UserName
    <3>5. QED
      BY <2>2, <3>2, <3>4, Zenon DEF SecretKeys
  <2>3. ASSUME NEW t \in {q, r}
        PROVE  \/ secrets'[t] = secrets[t]
               \/ t = k.cr.ref /\ k.pc = "syncAccessKeySecret" /\ secrets'[t] = Wanted(w)
    BY <1>3, <2>3, SecretsInCall, Zenon
  <2>4. k.pc = "syncAccessKeySecret" => HasKey(u, secrets'[q].key) /\ HasKey(u, secrets'[r].key)
    BY <1>3, SecretsInCall, Zenon DEF HasKey
  <2>5. QED
    BY <1>3, <2>1, <2>2, <2>3, <2>4, Zenon
<1>4. QED
  BY <1>1, <1>2, <1>3, Zenon DEF SecretKeys

(* A step of a call keeps minting and passing through apart.               *)
LEMMA CallKeepsSource ==
    ASSUME StepFacts, SourceInv, TypeInv, KeyInv, NEW w \in Workers, Workers = {w}, WorkerStep(w),
           CallProgress(wk[w])
    PROVE  SourceInv'
<1> DEFINE k == wk[w]
           n == wk'[w]
<1>1. /\ RootMode' = RootMode /\ UsesIAM(w) /\ WritesSecret(w) /\ Proceeds(w)
      /\ n.pc \in SyncPCs => Advances(w)
  BY Zenon DEF StepFacts, OwnFacts, Catches, IAMFacts, SecretFacts, CallFacts, RootMode
<1>2. KeySource(k)
  BY Zenon DEF SourceInv
<1>3. ASSUME RootMode' # "mint", NEW u \in Users
      PROVE  iam'[u] = None
  <2>1. iam[u] = None /\ k.pc # "CreateUser"
    BY <1>1, <1>2, <1>3, Zenon DEF SourceInv, KeySource, MintPCs
  <2>2. QED
    BY <1>1, <2>1, Zenon DEF UsesIAM
<1>4. ASSUME NEW r \in Refs, secrets'[r] # None, secrets'[r].key = RootKey
      PROVE  RootMode' = "passthrough"
  <2>1. CASE secrets'[r] = secrets[r]
    BY <1>1, <1>4, <2>1, Zenon DEF SourceInv
  <2>2. CASE k.pc = "syncAccessKeySecret" /\ secrets'[r] = Wanted(w)
    <3>1. RootKey \notin Keys
      BY DistinctAssumption, Zenon
    <3>2. ~(UserName(w) \in Users /\ HasKey(UserName(w), RootKey))
      BY <3>1, Zenon DEF HasKey, TypeInv, TypeOK, User
    <3>3. k.newKey = RootKey
      BY <1>4, <2>2, <3>2, WantedKey, Zenon
    <3>4. QED
      BY <1>1, <1>2, <2>2, <3>3, Zenon DEF KeySource
  <2>3. QED
    BY <1>4, <2>1, <2>2, SecretsInCall, Zenon
<1>5. ASSUME n.pc \in MintPCs
      PROVE  RootMode' = "mint"
  <2>1. n.pc \in SyncPCs
    BY <1>5, Zenon DEF MintPCs, SyncPCs
  <2>2. RootMode = "mint" \/ k.pc \in MintPCs
    BY <1>1, <1>5, <2>1, Zenon DEF Advances, MintPCs
  <2>3. QED
    BY <1>1, <1>2, <2>2, Zenon DEF KeySource
<1>6. ASSUME n.pc = "syncAccessKeySecret"
      PROVE  /\ n.newKey = RootKey => RootMode' = "passthrough"
             /\ n.newKey \in Keys =>
                  \A r \in Refs : secrets'[r] # None => ~HasKey(wk[w].cr.status.user, secrets[r].key)'
  <2>1. /\ Advances(w) /\ UNCHANGED secrets /\ None # RootKey
        /\ RootKey \notin Keys /\ EmptyKey \notin Keys /\ None \notin Keys
    BY <1>1, <1>6, DistinctAssumption, Zenon DEF SyncPCs, WritesSecret
  <2>2. CASE k.pc = "cloudCreds"
    BY <1>1, <1>6, <2>1, <2>2, Zenon DEF Advances
  <2>3. CASE k.pc = "ListAccessKeys"
    <3>1. n.newKey = None
      BY <1>6, <2>1, <2>3, Zenon DEF Advances, CallProgress, Progress, SyncPCs
    <3>2. QED
      BY <2>1, <3>1, Zenon
  <2>4. CASE k.pc = "CreateAccessKey"
    <3>0. PICK u \in Users : u = UserName(w)
      BY <2>4, Zenon DEF StepFacts, NamedFacts, NamedPCs
    <3>1. n.newKey # RootKey /\ n.cr.status.user = u
      BY <1>1, <1>6, <2>1, <2>4, <3>0, Zenon DEF Advances, Proceeds, DrawsName, UserName
    <3>2. \A j : ~HasKey(u, j)
      BY <2>4, <3>0, Zenon DEF KeyInv, KeyCall, HasKey, UserName
    <3>3. ASSUME NEW r \in Refs, secrets'[r] # None
          PROVE  ~HasKey(u, secrets[r].key)'
      BY <2>1, <3>2, <3>3, DeadStaysDead, Zenon
    <3>4. QED
      BY <3>1, <3>3, Zenon DEF HasKey
  <2>5. QED
    BY <1>6, <2>1, <2>2, <2>3, <2>4, Zenon DEF Advances
<1>7. KeySource(wk[w])'
  BY <1>5, <1>6, Zenon DEF KeySource
<1>8. \A v \in Workers : v = w
  BY Zenon
<1>9. QED
  BY <1>3, <1>4, <1>7, <1>8, Zenon DEF SourceInv

(* The same after a step.                                                  *)
DeadAfter(c, q) ==
    \A r \in Refs : secrets'[r] # None /\ secrets'[r].owner = c /\ r # q
                   => Dead(secrets[r].key)'

(* A step of a call writes a key only into the secret it works on, so the  *)
(* other secrets of any request stay dead.                                 *)
LEMMA OthersStayDead ==
    ASSUME StepFacts, TypeInv, NEW w \in Workers, WorkerStep(w), CallProgress(wk[w]), NEW c, NEW q,
           OthersDead(c, q),
           wk[w].pc = "syncAccessKeySecret" /\ c = wk[w].req => q = wk[w].cr.ref
    PROVE  DeadAfter(c, q)
<1> SUFFICES ASSUME NEW r \in Refs, secrets'[r] # None, secrets'[r].owner = c, r # q
             PROVE  Dead(secrets[r].key)'
  BY Zenon DEF DeadAfter
<1>1. CASE secrets'[r] = secrets[r]
  <2>1. Dead(secrets[r].key)
    BY <1>1, Zenon DEF OthersDead
  <2>2. QED
    BY <1>1, <2>1, DeadStaysDead, Zenon
<1>2. CASE r = wk[w].cr.ref /\ wk[w].pc = "syncAccessKeySecret" /\ secrets'[r] = Wanted(w)
  BY <1>2, WantedKey, Zenon
<1>3. QED
  BY <1>1, <1>2, SecretsInCall, Zenon

(* A sync that succeeds has replaced the key of its user, or found it in   *)
(* its own secret: no other secret of the request holds it.                *)
LEMMA SettledLeavesDead ==
    ASSUME StepFacts, ProperAdmin, TypeInv, TypeInv', OrphanInv, SecretKeys', SourceInv',
           NEW w \in Workers, WorkerStep(w), CallProgress(wk[w]), SyncDone(w)
    PROVE  DeadAfter(wk[w].req, wk[w].cr.ref)
<1> DEFINE k == wk[w]
           q == k.cr.ref
           U == UserName(w)
<1> SUFFICES ASSUME NEW r \in Refs, secrets'[r] # None, secrets'[r].owner = k.req, r # q,
                    NEW u \in Users, HasKey(u, secrets[r].key)'
             PROVE  FALSE
  BY Zenon DEF DeadAfter, Dead
<1>1. Serves(secrets'[q], U, iam[U], k.cr.policy)
  BY SettledServes, Zenon
<1>2. k.pc \in {"needsUpdatePolicy", "syncAccessKeySecret"} /\ k.pc # "idle" /\ k.req \in CRs
  BY Zenon DEF StepFacts, CallFacts, SyncDone, ProperAdmin
<1>3. iam'[U] = iam[U] /\ crs'[k.req] = crs[k.req] /\ q \in Refs /\ U \in Users \cup {None}
  BY <1>2, Zenon
     DEF StepFacts, IAMFacts, CallFacts, RunningFacts, UsesIAM, Writes, DeletePCs, At,
     CredentialsRequest, Status, UserName
<1>4. secrets'[q].key # RootKey
  <2>1. iam'[u] # None
    BY Zenon DEF HasKey
  <2>2. QED
    BY <1>1, <1>3, <2>1, Zenon DEF SourceInv, Serves
<1>5. /\ U \in Users /\ U # None /\ secrets'[q] # None
      /\ iam'[U] # None /\ secrets'[q].key \in iam'[U].keys
  BY <1>1, <1>3, <1>4, Zenon DEF Serves
<1>6. Names(crs'[k.req], u)
  BY Zenon DEF SecretKeys
<1>7. Names(crs'[k.req], U)
  BY <1>2, <1>3, <1>5, Zenon DEF OrphanInv, CallInv, SyncPCs, UserName, Records, Names
<1>8. u = U
  BY <1>6, <1>7, Zenon DEF Names
<1>9. PICK p \in Refs : p = q
  BY <1>3, Zenon
<1>10. HasKey(u, secrets[p].key)'
  BY <1>5, <1>8, <1>9, Zenon DEF HasKey
<1>11. QED
  BY <1>5, <1>9, <1>10, Zenon DEF SecretKeys

(* A step of a call leaves the secrets that synced requests have abandoned *)
(* dead.                                                                   *)
LEMMA CallKeepsAbandoned ==
    ASSUME StepFacts, ProperAdmin, TypeInv, TypeInv', OrphanInv, LineageInv, SecretKeys', SourceInv',
           AbandonedInv, NEW w \in Workers, Workers = {w}, WorkerStep(w), CallProgress(wk[w])
    PROVE  AbandonedInv'
<1> DEFINE k == wk[w]
           n == wk'[w]
           old == crs[k.req]
           new == crs'[k.req]
<1>1. Proceeds(w) /\ Writes(w) /\ k.pc # "idle" /\ k.req \in CRs
  BY Zenon DEF StepFacts, CallFacts
<1>2. CallCopies(k, crCache[w][k.req], old) /\ AbandonedCall(k, old)
  BY <1>1, Zenon DEF LineageInv, AbandonedInv
<1>3. /\ k.base \in CredentialsRequest /\ k.base # None /\ k.base.gen \in Nat
      /\ old \in CredentialsRequest \cup {None}
  BY <1>1, DistinctAssumption, Zenon DEF StepFacts, RunningFacts, At, CredentialsRequest
<1>4. ASSUME new # None, new.status.syncGen = new.gen
      PROVE  DeadAfter(k.req, new.ref)
  <2>1. CASE new = old
    <3>1. OthersDead(k.req, new.ref)
      BY <1>1, <1>4, <2>1, Zenon DEF AbandonedInv
    <3>2. k.pc = "syncAccessKeySecret" => new.ref = k.cr.ref
      <4> SUFFICES ASSUME k.pc = "syncAccessKeySecret"
                   PROVE  old.ref = k.cr.ref
        BY <2>1, Zenon
      <4>1. Behind(k.base, old) /\ k.cr.ref = k.base.ref
        BY <1>2, Zenon DEF CallCopies, SyncPCs, SameButStatus
      <4>2. old.gen \in Nat /\ old.status.syncGen = old.gen
        BY <1>3, <1>4, <2>1, Zenon DEF CredentialsRequest, Status
      <4>3. QED
        BY <1>3, <4>1, <4>2, BehindSynced, Zenon
    <3>3. \A x : OthersDead(k.req, x) /\ (k.pc = "syncAccessKeySecret" => x = k.cr.ref)
                 => DeadAfter(k.req, x)
      BY OthersStayDead, Zenon
    <3>4. QED
      BY <3>1, <3>2, <3>3, Zenon
  <2>2. CASE /\ old = k.base /\ k.pc # "syncAccessKeySecret"
             /\ new.gen = k.base.gen /\ new.ref = k.base.ref
             /\ \/ SameSync(new.status, k.base.status)
                \/ k.pc = "updateStatus" /\ ~k.base.deleting /\ new.status = k.cr.status
    <3>1. OthersDead(k.req, k.base.ref)
      <4>1. CASE SameSync(new.status, k.base.status)
        BY <1>1, <1>3, <1>4, <2>2, <4>1, Zenon DEF AbandonedInv, SameSync
      <4>2. CASE k.pc = "updateStatus" /\ ~k.base.deleting /\ new.status = k.cr.status
        BY <1>2, <1>4, <2>2, <4>2, Zenon DEF AbandonedCall
      <4>3. QED
        BY <2>2, <4>1, <4>2, Zenon
    <3>2. \A x : OthersDead(k.req, x) => DeadAfter(k.req, x)
      BY <2>2, OthersStayDead, Zenon
    <3>3. QED
      BY <2>2, <3>1, <3>2, Zenon
  <2>3. CASE old = k.base /\ k.pc = "addDeprovisionFinalizer" /\ Protected(new, k.base)
    BY <2>2, <2>3, Zenon DEF Protected, SameSync
  <2>4. CASE old = k.base /\ k.pc = "updateStatus" /\ Updated(new, k.base, k.cr.status)
    <3>1. k.base.deleting => SameSync(k.cr.status, k.base.status)
      BY <1>2, <2>4, Zenon DEF CallCopies
    <3>2. QED
      BY <2>2, <2>4, <3>1, Zenon DEF Updated, SameButStatus
  <2>5. CASE /\ old = k.base /\ k.pc \in {"clearDeprovisionFailure", "userName"}
             /\ \E s \in Status : SameSync(s, k.cr.status) /\ Updated(new, k.base, s)
    <3>1. SameSync(k.cr.status, k.base.status)
      BY <1>2, <2>5, Zenon DEF CallCopies, SyncPCs, DeletePCs
    <3>2. QED
      BY <2>2, <2>5, <3>1, Zenon DEF Updated, SameButStatus, SameSync
  <2>6. QED
    BY <1>1, <1>4, <2>1, <2>3, <2>4, <2>5, Zenon DEF Writes
<1>5. ASSUME NEW c \in CRs, c # k.req, crs'[c] # None, crs'[c].status.syncGen = crs'[c].gen
      PROVE  DeadAfter(c, crs'[c].ref)
  <2>1. crs'[c] = crs[c]
    BY <1>1, <1>5, Zenon DEF Writes
  <2>2. OthersDead(c, crs[c].ref)
    BY <1>5, <2>1, Zenon DEF AbandonedInv
  <2>3. \A x : OthersDead(c, x) => DeadAfter(c, x)
    BY <1>5, OthersStayDead, Zenon
  <2>4. QED
    BY <2>1, <2>2, <2>3, Zenon
<1>6. ASSUME n.pc = "updateStatus", ~n.base.deleting, crs'[n.req] = n.base,
             n.cr.status.syncGen = n.base.gen
      PROVE  DeadAfter(n.req, n.base.ref)
  <2>1. n.req = k.req /\ n.base = k.base /\ k.pc \in SyncPCs
    BY <1>1, <1>2, <1>6, Zenon DEF Proceeds, CallCopies
  <2>2. CASE SameSync(n.cr.status, k.cr.status)
    <3>1. SameSync(k.cr.status, k.base.status)
      BY <1>2, <2>1, Zenon DEF CallCopies
    <3>2. new # None /\ new.status.syncGen = new.gen
      BY <1>3, <1>6, <2>1, <2>2, <3>1, Zenon DEF SameSync
    <3>3. QED
      BY <1>4, <1>6, <2>1, <3>2, Zenon
  <2>3. CASE SyncDone(w)
    <3>1. k.cr.ref = k.base.ref
      BY <1>2, Zenon DEF CallCopies, SameButStatus
    <3>2. QED
      BY <2>1, <2>3, <3>1, SettledLeavesDead, Zenon
  <2>4. QED
    BY <1>1, <1>6, <2>2, <2>3, Zenon DEF Proceeds
<1>7. ASSUME NEW c \in CRs, crs'[c] # None, crs'[c].status.syncGen = crs'[c].gen
      PROVE  OthersDead(c, crs[c].ref)'
  <2>1. DeadAfter(c, crs'[c].ref)
    BY <1>4, <1>5, <1>7
  <2>2. QED
    BY <2>1, Zenon DEF OthersDead, DeadAfter
<1>8. AbandonedCall(wk[w], crs[wk[w].req])'
  BY <1>6, Zenon DEF AbandonedCall, OthersDead, DeadAfter
<1>9. \A v \in Workers : v = w
  BY Zenon
<1>10. QED
  BY <1>7, <1>8, <1>9, Zenon DEF AbandonedInv

(* No user of the cluster takes the name of an IAM user from a request.    *)
LEMMA OutsideNameStays ==
    ASSUME TypeInv, LifeInv, UNCHANGED crs \/ \E c \in CRs : UserWrites(c),
           NEW c \in CRs, NEW u \in Users, Names(crs[c], u)
    PROVE  Names(crs'[c], u)
<1>1. crs[c] # None /\ crs[c].status.user = u /\ u # None
  BY DistinctAssumption, Zenon DEF Names
<1>2. crs[c].finalizer
  BY <1>1, Zenon DEF LifeInv, UnprotectedUnnamed
<1>3. ASSUME UserWrites(c)
      PROVE  crs'[c] # None /\ crs'[c].status = crs[c].status
  <2>1. CASE crs[c] \in CredentialsRequest /\ crs'[c] = [crs[c] EXCEPT !.deleting = TRUE]
    BY <2>1, DistinctAssumption, Zenon DEF CredentialsRequest
  <2>2. CASE crs'[c] \in CredentialsRequest /\ crs'[c].status = crs[c].status
    BY <2>2, DistinctAssumption, Zenon
  <2>3. QED
    BY <1>1, <1>2, <1>3, <2>1, <2>2, Zenon DEF UserWrites
<1>4. \A d \in CRs \ {c} : UserWrites(d) => crs'[c] = crs[c]
  BY Zenon DEF UserWrites
<1>5. crs'[c] # None /\ crs'[c].status = crs[c].status
  BY <1>1, <1>3, <1>4, Zenon
<1>6. QED
  BY <1>1, <1>5, Zenon DEF Names

(* The steps outside the calls keep all of it, as long as the admin secret *)
(* stays what it is.                                                       *)
LEMMA OthersKeepDead ==
    ASSUME StepFacts, Undisturbed, "rootEdits" \notin Disturbances, TypeInv, TypeInv', LifeInv, LineageInv,
           SecretKeys, SourceInv, AbandonedInv,
           \/ Environment
           \/ \E w \in Workers : \/ Restart(w)
                                 \/ \E c \in CRs : Reconcile(w, c) \/ SyncCRCache(w, c)
                                 \/ \E r \in Refs : SyncSecretCache(w, r)
    PROVE  SecretKeys' /\ SourceInv' /\ AbandonedInv'
<1>1. UNCHANGED <<iam, secrets>> /\ (UNCHANGED crs \/ \E c \in CRs : UserWrites(c))
  BY OutsideCalls, Zenon
<1>2. RootMode' = RootMode
  BY Zenon DEF StepFacts, OutsideFacts, OwnFacts, Catches, RootMode
<1>3. \A w \in Workers :
        \/ wk'[w] = wk[w] \/ wk'[w].pc = "idle"
        \/ wk'[w].pc \in {"DeleteUserPolicy", "namespace", "addDeprovisionFinalizer"}
  BY OutsideCalls, Zenon
<1>4. SecretKeys'
  <2>1. ASSUME NEW r \in Refs, NEW u \in Users, secrets[r] # None, HasKey(u, secrets[r].key)
        PROVE  secrets[r].owner \in CRs /\ Names(crs'[secrets[r].owner], u)
    <3>1. secrets[r].owner \in CRs /\ Names(crs[secrets[r].owner], u)
      BY <2>1, Zenon DEF SecretKeys
    <3>2. QED
      BY <1>1, <3>1, OutsideNameStays, Zenon
  <2>2. QED
    BY <1>1, <2>1, Zenon DEF SecretKeys, HasKey
<1>5. SourceInv'
  <2>1. ASSUME NEW w \in Workers
        PROVE  KeySource(wk[w])'
    <3>1. CASE wk'[w] = wk[w]
      BY <1>1, <1>2, <3>1, Zenon DEF SourceInv, KeySource, HasKey
    <3>2. CASE wk'[w].pc \in {"idle", "DeleteUserPolicy", "namespace", "addDeprovisionFinalizer"}
      BY <3>2, Zenon DEF KeySource, MintPCs
    <3>3. QED
      BY <1>3, <3>1, <3>2, Zenon
  <2>2. QED
    BY <1>1, <1>2, <2>1, Zenon DEF SourceInv
<1>6. \A c, q : OthersDead(c, q) => DeadAfter(c, q)
  BY <1>1, Zenon DEF OthersDead, DeadAfter, Dead, HasKey
<1>7. ASSUME NEW c \in CRs, crs'[c] # None, crs'[c].status.syncGen = crs'[c].gen
      PROVE  OthersDead(c, crs[c].ref)'
  <2> SUFFICES DeadAfter(c, crs'[c].ref)
    BY Zenon DEF OthersDead, DeadAfter
  <2>1. CASE crs'[c] = crs[c]
    <3>1. OthersDead(c, crs[c].ref)
      BY <1>7, <2>1, Zenon DEF AbandonedInv
    <3>2. QED
      BY <1>6, <2>1, <3>1, Zenon
  <2>2. CASE UserWrites(c)
    <3> DEFINE old == crs[c]
               new == crs'[c]
    <3>1. StoredCopy(old)
      BY Zenon DEF LineageInv
    <3>2. CASE new.status = NewStatus /\ new.gen = 1
      BY <1>7, <3>2, SMTT(30) DEF NewStatus
    <3>3. CASE old \in CredentialsRequest /\ new.status = old.status /\ new.gen = old.gen + 1
      <4>1. old # None /\ old.gen \in Nat /\ old.status.syncGen \in Nat
        BY <3>3, DistinctAssumption, Zenon DEF CredentialsRequest, Status
      <4>2. QED
        BY <1>7, <3>1, <3>3, <4>1 DEF StoredCopy
    <3>4. CASE old \in CredentialsRequest /\ new = [old EXCEPT !.deleting = TRUE]
      <4>1. old # None /\ new.status = old.status /\ new.gen = old.gen /\ new.ref = old.ref
        BY <3>4, DistinctAssumption, Zenon DEF CredentialsRequest
      <4>2. OthersDead(c, new.ref)
        BY <1>7, <4>1, Zenon DEF AbandonedInv
      <4>3. QED
        BY <1>6, <4>2, Zenon
    <3>5. QED
      BY <1>7, <2>2, <3>2, <3>3, <3>4, Zenon DEF UserWrites
  <2>3. \A d \in CRs \ {c} : UserWrites(d) => crs'[c] = crs[c]
    BY Zenon DEF UserWrites
  <2>4. QED
    BY <1>1, <2>1, <2>2, <2>3, Zenon
<1>8. ASSUME NEW w \in Workers, wk'[w].pc # "idle"
      PROVE  AbandonedCall(wk[w], crs[wk[w].req])'
  <2>1. CASE wk'[w] = wk[w]
    <3> SUFFICES ASSUME wk[w].pc = "updateStatus", ~wk[w].base.deleting,
                        crs'[wk[w].req] = wk[w].base, wk[w].cr.status.syncGen = wk[w].base.gen
                 PROVE  DeadAfter(wk[w].req, wk[w].base.ref)
      BY <2>1, Zenon DEF AbandonedCall, OthersDead, DeadAfter
    <3>1. crs[wk[w].req] = wk[w].base
      BY <1>1, StillStored, Zenon
    <3>2. OthersDead(wk[w].req, wk[w].base.ref)
      BY <3>1, Zenon DEF AbandonedInv, AbandonedCall
    <3>3. QED
      BY <1>6, <3>2, Zenon
  <2>2. CASE wk'[w].pc # "updateStatus"
    BY <2>2, Zenon DEF AbandonedCall
  <2>3. QED
    BY <1>3, <1>8, <2>1, <2>2, Zenon
<1>9. AbandonedInv'
  BY <1>7, <1>8, Zenon DEF AbandonedInv
<1>10. QED
  BY <1>4, <1>5, <1>9, Zenon

(* The invariant, with what it rests on.                                   *)
DeadInv == SecretKeys /\ SourceInv /\ AbandonedInv

(* There are no secrets, requests and calls at the start.                  *)
LEMMA InitDead == Init => DeadInv
<1> SUFFICES ASSUME Init PROVE DeadInv
  BY Zenon
<1>1. /\ \A c \in CRs : crs[c] = None
      /\ \A u \in Users : iam[u] = None
      /\ \A r \in Refs : secrets[r] = None
      /\ \A w \in Workers : wk[w].pc = "idle"
  BY Zenon DEF Init, IdleWorker, Locals
<1>2. SecretKeys
  BY <1>1, Zenon DEF SecretKeys, HasKey
<1>3. SourceInv /\ AbandonedInv
  BY <1>1, Zenon DEF SourceInv, KeySource, MintPCs, AbandonedInv
<1>4. QED
  BY <1>2, <1>3, Zenon DEF DeadInv

(* Every step of the single process and of its environment keeps it.       *)
LEMMA DeadStep ==
    ASSUME StepFacts, SingleProcess, Undisturbed, "rootEdits" \notin Disturbances,
           ProperAdmin, TypeInv, TypeInv', OrphanInv, LifeInv, LineageInv, TargetInv, SyncInv,
           KeyInv, DeadInv, [Next]_vars
    PROVE  DeadInv'
<1>0. SecretKeys /\ SourceInv /\ AbandonedInv
  BY Zenon DEF DeadInv
<1>1. ASSUME NEW w \in Workers, WorkerStep(w)
      PROVE  DeadInv'
  <2>1. Workers = {w} /\ CallProgress(wk[w]) /\ KeySource(wk[w])
    BY <1>0, <1>1, Zenon DEF StepFacts, CallFacts, SingleProcess, SyncInv, SourceInv
  <2>2. SecretKeys' /\ SourceInv'
    BY <1>0, <1>1, <2>1, CallKeepsSecretKeys, CallKeepsSource, Zenon
  <2>3. AbandonedInv'
    BY <1>0, <1>1, <2>1, <2>2, CallKeepsAbandoned, Zenon
  <2>4. QED
    BY <2>2, <2>3, Zenon DEF DeadInv
<1>2. CASE UNCHANGED vars
  <2>1. UNCHANGED <<crs, secrets, root, iam, wk>>
    BY <1>2, Zenon DEF vars
  <2>2. SecretKeys'
    BY <1>0, <2>1, Zenon DEF SecretKeys, HasKey
  <2>3. SourceInv'
    BY <1>0, <2>1, Zenon DEF SourceInv, KeySource, HasKey, RootMode
  <2>4. AbandonedInv'
    BY <1>0, <2>1, Zenon DEF AbandonedInv, AbandonedCall, OthersDead, Dead, HasKey
  <2>5. QED
    BY <2>2, <2>3, <2>4, Zenon DEF DeadInv
<1>3. QED
  BY <1>0, <1>1, <1>2, OthersKeepDead, Zenon DEF Next, DeadInv

(* An abandoned secret holds a key that no user has.                       *)
LEMMA AbandonedIsDead == DeadInv => AbandonedSecretIsDead
<1> SUFFICES ASSUME DeadInv, NEW c \in CRs, NEW r \in Refs, secrets[r] # None,
                    secrets[r].owner = c, secrets[r].key \in Keys, crs[c] # None,
                    crs[c].ref # r, crs[c].status.syncGen = crs[c].gen
             PROVE  ~LiveKey(secrets[r].key)
  BY Zenon DEF AbandonedSecretIsDead
<1>1. Dead(secrets[r].key)
  BY Zenon DEF DeadInv, AbandonedInv, OthersDead
<1>2. secrets[r].key # RootKey
  BY DistinctAssumption, Zenon
<1>3. QED
  BY <1>1, <1>2, Zenon DEF Dead, HasKey, LiveKey

=============================================================================
