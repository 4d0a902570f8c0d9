--------------------------- MODULE OperatorProofs ---------------------------
(***************************************************************************)
(* The steps of the proofs about the running operator, driven by its       *)
(* watches and its work queues: the queue hands out requests only, so that *)
(* the operator takes only steps of Reconciler; its state has the types    *)
(* stated; and no wake-up is lost, as long as there is one process.        *)
(***************************************************************************)
EXTENDS Operator, Invariants, FiniteSetTheorems, TLAPS

-----------------------------------------------------------------------------
(* The operations of the work queue *)

(* InSomeOrder lists every element of a finite set once.                   *)
LEMMA SomeOrderFacts ==
    ASSUME NEW S, IsFiniteSet(S)
    PROVE  InSomeOrder(S) \in Seq(S) /\ Range(InSomeOrder(S)) = S /\ IsInjective(InSomeOrder(S))
<1> DEFINE n == Cardinality(S)
           s == InSomeOrder(S)
<1>1. n \in Nat /\ ExistsBijection(1..n, S)
  BY FS_CardinalityType, Zenon
<1>2. PICK f \in [1..n -> S] : IsInjective(f)
  BY <1>1, Zenon DEF ExistsBijection, Bijection, Injection
<1>3. s \in [1..n -> S] /\ IsInjective(s)
  BY <1>2, Zenon DEF InSomeOrder
<1> HIDE DEF s
<1>4. s \in Seq(S)
  BY <1>1, <1>3
<1>5. Range(s) = S
  <2>1. IsFiniteSet(1..n) /\ Cardinality(1..n) = n
    BY <1>1, FS_Interval
  <2>2. s \in Injection(1..n, S)
    BY <1>3, Zenon DEF Injection
  <2>3. s \in Surjection(1..n, S)
    BY <2>1, <2>2, FS_Injection, Zenon
  <2>4. QED
    BY <1>3, <2>3, Zenon DEF Surjection, Range
<1>6. QED
  BY <1>3, <1>4, <1>5, Zenon DEF s

(* Appending other elements keeps every element single.                    *)
LEMMA ConcatFacts ==
    ASSUME NEW S, NEW s \in Seq(S), NEW t \in Seq(S), IsInjective(s), IsInjective(t),
           Range(s) \cap Range(t) = {}
    PROVE  /\ s \o t \in Seq(S)
           /\ Range(s \o t) = Range(s) \cup Range(t)
           /\ IsInjective(s \o t)
<1> DEFINE m == Len(s)
           n == Len(t)
           st == s \o t
<1>1. m \in Nat /\ n \in Nat /\ DOMAIN s = 1..m /\ DOMAIN t = 1..n
  OBVIOUS
<1>2. st \in Seq(S) /\ DOMAIN st = 1..(m + n)
  OBVIOUS
<1>3. \A i \in 1..(m + n) : st[i] = IF i <= m THEN s[i] ELSE t[i - m]
  OBVIOUS
<1> HIDE DEF m, n, st
<1>4. Range(st) = Range(s) \cup Range(t)
  <2>1. ASSUME NEW i \in 1..m PROVE i \in 1..(m + n) /\ st[i] = s[i]
    BY <1>1, <1>3
  <2>2. ASSUME NEW i \in 1..n PROVE i + m \in 1..(m + n) /\ st[i + m] = t[i]
    <3>1. i + m \in 1..(m + n) /\ ~(i + m <= m) /\ (i + m) - m = i
      BY <1>1
    <3>2. QED
      BY <1>3, <3>1, Zenon
  <2>3. ASSUME NEW i \in 1..(m + n), ~(i <= m) PROVE i - m \in 1..n
    BY <1>1, <2>3
  <2>4. ASSUME NEW i \in 1..(m + n), i <= m PROVE i \in 1..m
    BY <1>1, <2>4
  <2>5. ASSUME NEW i \in 1..(m + n) PROVE st[i] \in Range(s) \cup Range(t)
    <3>1. CASE i <= m
      BY <1>1, <1>3, <2>4, <3>1, Zenon DEF Range
    <3>2. CASE ~(i <= m)
      BY <1>1, <1>3, <2>3, <3>2, Zenon DEF Range
    <3>3. QED
      BY <3>1, <3>2, Zenon
  <2>6. Range(st) \subseteq Range(s) \cup Range(t)
    BY <1>2, <2>5, Zenon DEF Range
  <2>7. Range(s) \subseteq Range(st)
    BY <1>1, <1>2, <2>1, Zenon DEF Range
  <2>8. Range(t) \subseteq Range(st)
    BY <1>1, <1>2, <2>2, Zenon DEF Range
  <2>9. QED
    BY <2>6, <2>7, <2>8, Zenon
<1>5. IsInjective(st)
  <2> SUFFICES ASSUME NEW i \in 1..(m + n), NEW j \in 1..(m + n), st[i] = st[j]
               PROVE  i = j
    BY <1>2, Zenon DEF IsInjective
  <2>1. ASSUME NEW k \in 1..(m + n)
        PROVE  \/ k \in 1..m /\ st[k] = s[k]
               \/ k - m \in 1..n /\ ~(k <= m) /\ st[k] = t[k - m]
    BY <1>1, <1>3
  <2>2. CASE i \in 1..m /\ j \in 1..m
    BY <1>1, <1>3, <2>2 DEF IsInjective
  <2>3. CASE i - m \in 1..n /\ j - m \in 1..n /\ ~(i <= m) /\ ~(j <= m)
    <3>1. t[i - m] = t[j - m]
      BY <1>3, <2>3, Zenon
    <3>2. i - m = j - m
      BY <1>1, <2>3, <3>1, Zenon DEF IsInjective
    <3>3. QED
      BY <1>1, <3>2
  <2>4. ASSUME NEW k \in 1..(m + n), NEW l \in 1..(m + n), st[k] = st[l],
               k \in 1..m, l - m \in 1..n, ~(l <= m)
        PROVE  FALSE
    <3>1. s[k] = t[l - m]
      BY <1>1, <1>3, <2>4
    <3>2. s[k] \in Range(s) /\ t[l - m] \in Range(t)
      BY <1>1, <2>4, Zenon DEF Range
    <3>3. QED
      BY <3>1, <3>2, Zenon
  <2>5. QED
    BY <2>1, <2>2, <2>3, <2>4, <1>1, Zenon
<1>6. QED
  BY <1>2, <1>4, <1>5, Zenon DEF st

(* Taking the first element off removes it.                                *)
LEMMA TailFacts ==
    ASSUME NEW S, NEW s \in Seq(S), s # <<>>, IsInjective(s)
    PROVE  /\ Head(s) \in S /\ Tail(s) \in Seq(S)
           /\ Head(s) \in Range(s)
           /\ Range(Tail(s)) = Range(s) \ {Head(s)}
           /\ IsInjective(Tail(s))
<1> DEFINE n == Len(s)
           t == Tail(s)
<1>1. n \in Nat /\ n # 0 /\ DOMAIN s = 1..n /\ Head(s) = s[1]
  OBVIOUS
<1>2. t \in Seq(S) /\ DOMAIN t = 1..(n - 1) /\ \A i \in 1..(n - 1) : t[i] = s[i + 1]
  OBVIOUS
<1>3. Head(s) \in S /\ Head(s) \in Range(s)
  BY <1>1 DEF Range
<1> HIDE DEF n, t
<1>4. ASSUME NEW i \in 1..(n - 1) PROVE i + 1 \in 1..n /\ i + 1 # 1
  BY <1>1
<1>5. ASSUME NEW i \in 1..n, i # 1 PROVE i - 1 \in 1..(n - 1) /\ (i - 1) + 1 = i
  BY <1>1, <1>5
<1>6. Range(t) = Range(s) \ {Head(s)}
  <2>1. ASSUME NEW i \in 1..(n - 1) PROVE t[i] \in Range(s) \ {Head(s)}
    <3>1. t[i] = s[i + 1] /\ i + 1 \in DOMAIN s /\ 1 \in DOMAIN s /\ i + 1 # 1
      BY <1>1, <1>2, <1>4
    <3>2. s[i + 1] # s[1]
      BY <3>1, Zenon DEF IsInjective
    <3>3. QED
      BY <1>1, <3>1, <3>2, Zenon DEF Range
  <2>2. ASSUME NEW i \in 1..n, s[i] # Head(s) PROVE s[i] \in Range(t)
    <3>1. i # 1
      BY <1>1, <2>2, Zenon
    <3>2. i - 1 \in 1..(n - 1) /\ t[i - 1] = s[i]
      BY <1>2, <1>5, <3>1, Zenon
    <3>3. QED
      BY <1>2, <3>2, Zenon DEF Range
  <2>3. Range(t) \subseteq Range(s) \ {Head(s)}
    BY <1>2, <2>1, Zenon DEF Range
  <2>4. ASSUME NEW x \in Range(s), x # Head(s) PROVE x \in Range(t)
    <3>1. PICK i \in 1..n : x = s[i]
      BY <1>1, Zenon DEF Range
    <3>2. QED
      BY <2>2, <2>4, <3>1, Zenon
  <2>5. QED
    BY <2>3, <2>4, Zenon
<1>7. IsInjective(t)
  <2> SUFFICES ASSUME NEW i \in 1..(n - 1), NEW j \in 1..(n - 1), t[i] = t[j]
               PROVE  i = j
    BY <1>2, Zenon DEF IsInjective
  <2>1. i + 1 = j + 1
    <3>1. s[i + 1] = s[j + 1] /\ i + 1 \in DOMAIN s /\ j + 1 \in DOMAIN s
      BY <1>1, <1>2, <1>4, Zenon
    <3>2. QED
      BY <3>1, Zenon DEF IsInjective
  <2>2. QED
    BY <2>1
<1>8. QED
  BY <1>2, <1>3, <1>6, <1>7, Zenon DEF t

(* A queue of requests that is consistent.                                 *)
GoodQueue(q) == q \in Queue(CRs) /\ Consistent(q)

(* Adding requests keeps a queue consistent.                               *)
LEMMA AddAllGood ==
    ASSUME NEW q, GoodQueue(q), NEW R \in SUBSET CRs
    PROVE  GoodQueue(AddAll(q, R))
<1> DEFINE new == R \ q.dirty
           S == new \ q.processing
           l == q.list \o InSomeOrder(S)
           x == AddAll(q, R)
<1>1. /\ q.list \in Seq(CRs) /\ q.dirty \subseteq CRs /\ q.processing \subseteq CRs
      /\ q.delayed \subseteq CRs /\ Range(q.list) = q.dirty \ q.processing
      /\ IsInjective(q.list)
  BY Zenon DEF GoodQueue, Queue, Consistent
<1>2. IsFiniteSet(S)
  BY FiniteAssumption, FS_Subset, Zenon
<1>3. /\ InSomeOrder(S) \in Seq(S) /\ Range(InSomeOrder(S)) = S /\ IsInjective(InSomeOrder(S))
  BY <1>2, SomeOrderFacts, Zenon
<1>4. InSomeOrder(S) \in Seq(CRs)
  BY <1>3
<1>5. Range(q.list) \cap Range(InSomeOrder(S)) = {}
  BY <1>1, <1>3, Zenon
<1>6. l \in Seq(CRs) /\ Range(l) = Range(q.list) \cup S /\ IsInjective(l)
  <2> DEFINE t == InSomeOrder(S)
  <2>1. t \in Seq(CRs) /\ Range(t) = S /\ IsInjective(t) /\ Range(q.list) \cap Range(t) = {}
    BY <1>3, <1>4, <1>5, Zenon
  <2>2. q.list \in Seq(CRs) /\ IsInjective(q.list)
    BY <1>1, Zenon
  <2> HIDE DEF t, S
  <2>3. /\ q.list \o t \in Seq(CRs)
        /\ Range(q.list \o t) = Range(q.list) \cup Range(t)
        /\ IsInjective(q.list \o t)
    BY <2>1, <2>2, ConcatFacts, Zenon
  <2>4. QED
    BY <2>1, <2>3, Zenon DEF t
<1>7. x = [q EXCEPT !.dirty = q.dirty \cup new, !.list = l]
  BY Zenon DEF AddAll
<1> HIDE DEF l, x
<1>8. /\ x \in Queue(CRs) /\ x.list = l /\ x.dirty = q.dirty \cup new
      /\ x.processing = q.processing
  <2> DEFINE d == q.dirty \cup new
  <2>1. d \in SUBSET CRs /\ q \in Queue(CRs) /\ x = [q EXCEPT !.dirty = d, !.list = l]
    BY <1>1, <1>7, Zenon DEF GoodQueue
  <2> HIDE DEF d
  <2>2. x \in Queue(CRs) /\ x.list = l /\ x.dirty = d /\ x.processing = q.processing
    BY <1>6, <2>1, Zenon DEF Queue
  <2>3. QED
    BY <2>2, Zenon DEF d
<1>9. Range(l) = (q.dirty \cup new) \ q.processing
  BY <1>1, <1>6, Zenon
<1>10. QED
  BY <1>6, <1>8, <1>9, Zenon DEF GoodQueue, Consistent, x

(* Taking the next request keeps a queue consistent, and it is a request.  *)
LEMMA GetGood ==
    ASSUME NEW q, GoodQueue(q), q.list # <<>>
    PROVE  Head(q.list) \in CRs /\ GoodQueue(Get(q))
<1>1. /\ q.list \in Seq(CRs) /\ q.dirty \subseteq CRs /\ q.processing \subseteq CRs
      /\ q.delayed \subseteq CRs /\ Range(q.list) = q.dirty \ q.processing
      /\ IsInjective(q.list)
  BY Zenon DEF GoodQueue, Queue, Consistent
<1> DEFINE c == Head(q.list)
           l == Tail(q.list)
           x == Get(q)
<1>2. /\ c \in CRs /\ l \in Seq(CRs) /\ c \in Range(q.list)
      /\ Range(l) = Range(q.list) \ {c} /\ IsInjective(l)
  BY <1>1, TailFacts, Zenon
<1>3. x = [q EXCEPT !.list = l, !.dirty = q.dirty \ {c}, !.processing = q.processing \cup {c}]
  BY Zenon DEF Get
<1> HIDE DEF c, l, x
<1>4. /\ x \in Queue(CRs) /\ x.list = l /\ x.dirty = q.dirty \ {c}
      /\ x.processing = q.processing \cup {c}
  <2> DEFINE d == q.dirty \ {c}
             p == q.processing \cup {c}
  <2>1. /\ d \in SUBSET CRs /\ p \in SUBSET CRs /\ q \in Queue(CRs)
        /\ x = [q EXCEPT !.list = l, !.dirty = d, !.processing = p]
    BY <1>1, <1>2, <1>3, Zenon DEF GoodQueue
  <2> HIDE DEF d, p
  <2>2. x \in Queue(CRs) /\ x.list = l /\ x.dirty = d /\ x.processing = p
    BY <1>2, <2>1, Zenon DEF Queue
  <2>3. QED
    BY <2>2, Zenon DEF d, p
<1>5. Range(l) = (q.dirty \ {c}) \ (q.processing \cup {c})
  BY <1>1, <1>2, Zenon
<1>6. QED
  BY <1>2, <1>4, <1>5, Zenon DEF GoodQueue, Consistent, c, x

(* Finishing a request keeps a queue consistent.                           *)
LEMMA DoneGood ==
    ASSUME NEW q, GoodQueue(q), NEW failed
    PROVE  GoodQueue(Done(q, failed))
<1> DEFINE S == q.processing \cap q.dirty
           l == q.list \o InSomeOrder(S)
           d == IF failed THEN q.delayed \cup q.processing ELSE q.delayed
           x == Done(q, failed)
<1>1. /\ q.list \in Seq(CRs) /\ q.dirty \subseteq CRs /\ q.processing \subseteq CRs
      /\ q.delayed \subseteq CRs /\ Range(q.list) = q.dirty \ q.processing
      /\ IsInjective(q.list)
  BY Zenon DEF GoodQueue, Queue, Consistent
<1>2. IsFiniteSet(S)
  BY <1>1, FiniteAssumption, FS_Subset, Zenon
<1>3. /\ InSomeOrder(S) \in Seq(S) /\ Range(InSomeOrder(S)) = S /\ IsInjective(InSomeOrder(S))
  BY <1>2, SomeOrderFacts, Zenon
<1>4. InSomeOrder(S) \in Seq(CRs)
  BY <1>1, <1>3
<1>5. Range(q.list) \cap Range(InSomeOrder(S)) = {}
  BY <1>1, <1>3, Zenon
<1>6. l \in Seq(CRs) /\ Range(l) = Range(q.list) \cup S /\ IsInjective(l)
  <2> DEFINE t == InSomeOrder(S)
  <2>1. t \in Seq(CRs) /\ Range(t) = S /\ IsInjective(t) /\ Range(q.list) \cap Range(t) = {}
    BY <1>3, <1>4, <1>5, Zenon
  <2>2. q.list \in Seq(CRs) /\ IsInjective(q.list)
    BY <1>1, Zenon
  <2> HIDE DEF t, S
  <2>3. /\ q.list \o t \in Seq(CRs)
        /\ Range(q.list \o t) = Range(q.list) \cup Range(t)
        /\ IsInjective(q.list \o t)
    BY <2>1, <2>2, ConcatFacts, Zenon
  <2>4. QED
    BY <2>1, <2>3, Zenon DEF t
<1>7. x = [q EXCEPT !.processing = {}, !.list = l, !.delayed = d]
  BY Zenon DEF Done
<1>8. d \in SUBSET CRs /\ {} \in SUBSET CRs /\ q \in Queue(CRs)
  BY <1>1, Zenon DEF GoodQueue
<1> HIDE DEF l, d, x
<1>9. x \in Queue(CRs) /\ x.list = l /\ x.dirty = q.dirty /\ x.processing = {}
  BY <1>6, <1>7, <1>8, Zenon DEF Queue
<1>10. Range(l) = q.dirty \ {}
  BY <1>1, <1>6, Zenon
<1>11. QED
  BY <1>6, <1>9, <1>10, Zenon DEF GoodQueue, Consistent, x

(* So does the end of a back-off.                                          *)
LEMMA RetryGood ==
    ASSUME NEW q, GoodQueue(q), NEW c \in CRs
    PROVE  GoodQueue(Retry(q, c))
<1> DEFINE x == [q EXCEPT !.delayed = @ \ {c}]
<1>1. GoodQueue(x)
  BY Zenon DEF GoodQueue, Queue, Consistent
<1> HIDE DEF x
<1>2. QED
  BY <1>1, AddAllGood, Zenon DEF Retry, x

(* A new queue is consistent.                                              *)
LEMMA EmptyGood == GoodQueue(EmptyQueue)
  BY DEF GoodQueue, EmptyQueue, Queue, Consistent, Range, IsInjective

(* The empty queue is one, and nothing in it is dirty.                     *)
LEMMA EmptyType == EmptyQueue \in Queue(CRs) /\ EmptyQueue.dirty = {}
  BY DEF EmptyQueue, Queue

-----------------------------------------------------------------------------
(* The steps of the operator *)

QueueInv == queue \in [Workers -> {q \in Queue(CRs) : Consistent(q)}]

(* Replacing one process's queue by a good one.                            *)
LEMMA QueueStep ==
    ASSUME QueueInv, NEW w \in Workers, NEW q, GoodQueue(q), queue' = [queue EXCEPT ![w] = q]
    PROVE  QueueInv'
  BY Zenon DEF QueueInv, GoodQueue

(* Every process has a good queue.                                         *)
LEMMA QueueOf ==
    ASSUME QueueInv, NEW w \in Workers
    PROVE  GoodQueue(queue[w])
  BY Zenon DEF QueueInv, GoodQueue

(* What the watches add are requests.                                      *)
LEMMA AddStep ==
    ASSUME QueueInv, NEW w \in Workers, NEW R \in SUBSET CRs, Add(w, R)
    PROVE  QueueInv'
<1>1. queue' = [queue EXCEPT ![w] = AddAll(queue[w], R)]
  BY Zenon DEF Add
<1>2. QED
  BY <1>1, AddAllGood, QueueOf, QueueStep, Zenon

(* The annotation of a secret names a request, or none.                    *)
LEMMA mapFnType ==
    ASSUME NEW s \in Secret \cup {None}
    PROVE  mapFn(s) \in SUBSET CRs
  BY Zenon DEF mapFn, Secret

(* The end of a work item.                                                 *)
LEMMA FinishStep ==
    ASSUME QueueInv, NEW w \in Workers, FinishItem(w)
    PROVE  QueueInv'
<1>1. queue' = [queue EXCEPT ![w] = Done(queue[w], op[w].failed)]
  BY Zenon DEF FinishItem
<1>2. QED
  BY <1>1, DoneGood, QueueOf, QueueStep, Zenon

(* The informers' and the queue's steps.                                   *)
LEMMA WatchSteps ==
    ASSUME TypeInv, QueueInv, NEW w \in Workers,
           \/ Resync(w)
           \/ \E c \in CRs : WatchCR(w, c) \/ BackoffOver(w, c)
           \/ \E r \in Refs : WatchSecret(w, r)
           \/ \E n \in Namespaces : WatchNamespace(w, n)
    PROVE  [Next]_vars /\ QueueInv'
<1>1. /\ \A r \in Refs : mapFn(secretCache[w][r]) \in SUBSET CRs
      /\ \A r \in Refs : mapFn(secrets[r]) \in SUBSET CRs
  <2>1. /\ secrets \in [Refs -> Secret \cup {None}]
        /\ secretCache \in [Workers -> [Refs -> Secret \cup {None}]]
    BY Zenon DEF TypeInv, TypeOK
  <2>2. QED
    BY <2>1, mapFnType, Zenon
<1>2. CASE Resync(w)
  <2> DEFINE held == {c \in CRs : crCache[w][c] # None}
                     \cup UNION {mapFn(secretCache[w][r]) : r \in Refs}
  <2>1. held \in SUBSET CRs
    BY <1>1, Zenon
  <2>2. Add(w, held) /\ UNCHANGED vars
    BY <1>2, Zenon DEF Resync
  <2> HIDE DEF held
  <2>3. QED
    BY <2>1, <2>2, AddStep, Zenon
<1>3. ASSUME NEW c \in CRs, WatchCR(w, c)
      PROVE  [Next]_vars /\ QueueInv'
  <2>1. SyncCRCache(w, c) /\ Add(w, {c}) /\ {c} \in SUBSET CRs
    BY <1>3, Zenon DEF WatchCR
  <2>2. QED
    BY <2>1, AddStep, Zenon DEF Next
<1>4. ASSUME NEW c \in CRs, BackoffOver(w, c)
      PROVE  [Next]_vars /\ QueueInv'
  <2>1. UNCHANGED vars /\ queue' = [queue EXCEPT ![w] = Retry(queue[w], c)]
    BY <1>4, Zenon DEF BackoffOver
  <2>2. QED
    BY <2>1, RetryGood, QueueOf, QueueStep, Zenon
<1>5. ASSUME NEW r \in Refs, WatchSecret(w, r)
      PROVE  [Next]_vars /\ QueueInv'
  <2>1. SyncSecretCache(w, r)
    BY <1>5, Zenon DEF WatchSecret
  <2>2. PICK R \in SUBSET CRs : Add(w, R)
    BY <1>1, <1>5, Zenon DEF WatchSecret
  <2>3. QED
    BY <2>1, <2>2, AddStep, Zenon DEF Next
<1>6. ASSUME NEW n \in Namespaces, WatchNamespace(w, n)
      PROVE  [Next]_vars /\ QueueInv'
  <2>1. UNCHANGED vars /\ Add(w, namespaceMapFn(w, n)) /\ namespaceMapFn(w, n) \in SUBSET CRs
    BY <1>6, Zenon DEF WatchNamespace, namespaceMapFn
  <2>2. QED
    BY <2>1, AddStep, Zenon
<1>7. QED
  BY <1>2, <1>3, <1>4, <1>5, <1>6, Zenon

(* The steps of the worker, from the work item to the operator status.     *)
LEMMA WorkerSteps ==
    ASSUME QueueInv, NEW w \in Workers, OperatorStep(w)
    PROVE  [Next]_vars /\ QueueInv'
<1>0. UNCHANGED queue => QueueInv'
  BY Zenon DEF QueueInv
<1>1. CASE processNextWorkItem(w)
  <2> DEFINE c == Head(queue[w].list)
  <2>1. GoodQueue(queue[w]) /\ queue[w].list # <<>>
    BY <1>1, QueueOf, Zenon DEF processNextWorkItem
  <2>2. c \in CRs /\ GoodQueue(Get(queue[w]))
    BY <2>1, GetGood, Zenon
  <2>3. queue' = [queue EXCEPT ![w] = Get(queue[w])] /\ (Reconcile(w, c) \/ UNCHANGED vars)
    BY <1>1, Zenon DEF processNextWorkItem
  <2> HIDE DEF c
  <2>4. QueueInv'
    BY <2>2, <2>3, QueueStep, Zenon
  <2>5. QED
    BY <2>2, <2>3, <2>4, Zenon DEF Next
<1>2. CASE ReconcileStep(w)
  BY <1>0, <1>2, Zenon DEF ReconcileStep, Next
<1>3. CASE syncOperatorStatus(w)
  <2>1. UNCHANGED vars /\ (FinishItem(w) \/ UNCHANGED queue)
    BY <1>3, Zenon DEF syncOperatorStatus
  <2>2. QED
    BY <1>0, <2>1, FinishStep, Zenon
<1>4. CASE createClusterOperator(w)
  <2>1. UNCHANGED vars /\ (FinishItem(w) \/ UNCHANGED queue)
    BY <1>4, Zenon DEF createClusterOperator
  <2>2. QED
    BY <1>0, <2>1, FinishStep
<1>5. CASE updateClusterOperator(w)
  <2>1. UNCHANGED vars /\ FinishItem(w)
    BY <1>5, Zenon DEF updateClusterOperator
  <2>2. QED
    BY <2>1, FinishStep, Zenon
<1>6. QED
  BY <1>1, <1>2, <1>3, <1>4, <1>5, Zenon DEF OperatorStep

(* Every step of the operator is a step of Reconciler or leaves its state  *)
(* alone, and keeps the queues good.                                       *)
LEMMA OperatorStepOK ==
    ASSUME TypeInv, QueueInv, [OperatorNext]_allVars
    PROVE  [Next]_vars /\ QueueInv'
<1>0. UNCHANGED queue => QueueInv'
  BY Zenon DEF QueueInv
<1>1. ASSUME NEW w \in Workers, RestartProcess(w)
      PROVE  [Next]_vars /\ QueueInv'
  <2> DEFINE R == {c \in CRs : crCache'[w][c] # None}
  <2>1. R \in SUBSET CRs /\ GoodQueue(AddAll(EmptyQueue, R))
    BY EmptyGood, AddAllGood, Zenon
  <2>2. queue' = [queue EXCEPT ![w] = AddAll(EmptyQueue, R)]
    BY <1>1, Zenon DEF RestartProcess
  <2>3. Restart(w) \/ UNCHANGED vars
    BY <1>1, Zenon DEF RestartProcess
  <2> HIDE DEF R
  <2>4. QueueInv'
    BY <2>1, <2>2, QueueStep, Zenon
  <2>5. QED
    BY <2>3, <2>4, Zenon DEF Next
<1>2. ASSUME NEW w \in Workers, SyncCOCache(w)
      PROVE  [Next]_vars /\ QueueInv'
  BY <1>0, <1>2, Zenon DEF SyncCOCache
<1>3. CASE ClusterChange
  BY <1>0, <1>3, Zenon DEF ClusterChange, Next
<1>4. CASE DeleteClusterOperator \/ ApplyManifest
  BY <1>0, <1>4, Zenon DEF DeleteClusterOperator, ApplyManifest
<1>5. CASE UNCHANGED allVars
  BY <1>0, <1>5, Zenon DEF allVars, operatorVars
<1>6. QED
  BY <1>1, <1>2, <1>3, <1>4, <1>5, WatchSteps, WorkerSteps, Zenon DEF OperatorNext

(* The queues are empty at the start.                                      *)
LEMMA InitQueue == OperatorInit => QueueInv
  BY EmptyGood, Zenon DEF OperatorInit, QueueInv, GoodQueue

(* Good queues are consistent, and hand out requests.                      *)
LEMMA QueueHolds ==
    ASSUME QueueInv
    PROVE  /\ QueueConsistent
           /\ \A w \in Workers : queue[w].list # <<>> => Head(queue[w].list) \in CRs
<1>1. QueueConsistent
  BY Zenon DEF QueueInv, QueueConsistent
<1>2. ASSUME NEW w \in Workers, queue[w].list # <<>>
      PROVE  Head(queue[w].list) \in CRs
  BY <1>2, GetGood, QueueOf, Zenon
<1>3. QED
  BY <1>1, <1>2, Zenon

-----------------------------------------------------------------------------
(* Types *)

DeferredType == [pc: {"none", "syncOperatorStatus", "create", "update"},
                 failed: BOOLEAN, current: BOOLEAN, new: ClusterOperator \cup {None}]

OperatorEntries == [status: {"Unset", "True", "False"}, numbers: Seq(Nat)]

(* OperatorTypeOK without the queues.                                      *)
OperatorTyped ==
    /\ nsEvents \in [Workers -> SUBSET Namespaces]
    /\ op \in [Workers -> DeferredType]
    /\ co \in ClusterOperator \cup {None}
    /\ coCache \in [Workers -> ClusterOperator \cup {None}]
    /\ coCurrent \in [Workers -> BOOLEAN]
    /\ statusFaults \in 0..MaxStatusFaults

(* computeStatusConditions yields conditions, for any finite set of        *)
(* requests.                                                               *)
LEMMA ConditionsComputed ==
    ASSUME NEW conds \in [OperatorCondTypes -> OperatorEntries],
           NEW statuses, IsFiniteSet(DOMAIN statuses)
    PROVE  computeStatusConditions(conds, statuses) \in [OperatorCondTypes -> OperatorEntries]
<1> DEFINE total == Cardinality(DOMAIN statuses)
           failing == Cardinality({c \in DOMAIN statuses : IsFailing(statuses[c])})
           provisioned == Cardinality({c \in DOMAIN statuses : statuses[c].provisioned})
           a == IF failing > 0 THEN OperatorCondition("True", <<failing, total>>)
                ELSE OperatorCondition("False", <<>>)
           b == IF provisioned < total \/ failing > 0
                THEN OperatorCondition("True", <<provisioned, total, failing>>)
                ELSE OperatorCondition("False", <<total>>)
           d == OperatorCondition("True", <<>>)
<1>1. total \in Nat /\ failing \in Nat /\ provisioned \in Nat
  <2>1. ASSUME NEW S \in SUBSET DOMAIN statuses PROVE Cardinality(S) \in Nat
    BY FS_Subset, FS_CardinalityType, Zenon
  <2>2. QED
    BY <2>1, Zenon
<1>2. computeStatusConditions(conds, statuses)
      = [[[conds EXCEPT ![OperatorFailing] = a] EXCEPT ![OperatorProgressing] = b]
          EXCEPT ![OperatorAvailable] = d]
  BY Zenon DEF computeStatusConditions, SetStatusCondition
<1> HIDE DEF total, failing, provisioned
<1>3. a \in OperatorEntries /\ b \in OperatorEntries /\ d \in OperatorEntries
  BY <1>1 DEF OperatorEntries, OperatorCondition
<1> HIDE DEF a, b, d
<1>4. QED
  BY <1>2, <1>3, Zenon

(* The status that syncOperatorStatus computes.                            *)
LEMMA StatusType ==
    ASSUME NEW object \in ClusterOperator, NEW requests
    PROVE  StatusFrom(object.conds, requests) \in ClusterOperator
<1> DEFINE listed == {c \in Central : requests[c] # None}
           statuses == [c \in listed |-> requests[c].status]
           conds == computeStatusConditions(object.conds, statuses)
<1>1. IsFiniteSet(listed)
  BY FiniteAssumption, StatusAssumption, FS_Subset, Zenon
<1>2. DOMAIN statuses = listed
  BY Zenon
<1>3. object.conds \in [OperatorCondTypes -> OperatorEntries]
  BY Zenon DEF ClusterOperator, OperatorEntries
<1>4. conds \in [OperatorCondTypes -> OperatorEntries]
  <2> HIDE DEF statuses, listed
  <2>1. QED
    BY <1>1, <1>2, <1>3, ConditionsComputed, Zenon
<1>5. StatusFrom(object.conds, requests) = [conds |-> conds, version |-> Version]
  BY Zenon DEF StatusFrom
<1> HIDE DEF conds
<1>6. QED
  BY <1>4, <1>5 DEF ClusterOperator, OperatorEntries

(* An object without a status.                                             *)
LEMMA BlankType == BlankOperator \in ClusterOperator
  BY DEF BlankOperator, ClusterOperator, BlankConditions, OperatorCondition

(* The deferred calls that a step may leave behind.                        *)
LEMMA DeferredTypes ==
    /\ NoDeferred \in DeferredType
    /\ \A failed \in BOOLEAN : Deferred(failed) \in DeferredType
  BY Zenon DEF NoDeferred, Deferred, DeferredType

(* What a step may set in a deferred call.                                 *)
LEMMA DeferredSet ==
    ASSUME op \in [Workers -> DeferredType], NEW w \in Workers,
           NEW new \in ClusterOperator, NEW current \in BOOLEAN
    PROVE  /\ [op EXCEPT ![w].pc = "create", ![w].new = new] \in [Workers -> DeferredType]
           /\ [op EXCEPT ![w].pc = "update", ![w].new = new, ![w].current = current]
              \in [Workers -> DeferredType]
           /\ [op EXCEPT ![w].pc = "update", ![w].current = current]
              \in [Workers -> DeferredType]
<1> DEFINE d == op[w]
<1>1. d \in DeferredType
  BY Zenon
<1> HIDE DEF d
<1>2. [d EXCEPT !.pc = "create", !.new = new] \in DeferredType
  BY <1>1, Zenon DEF DeferredType
<1>3. [d EXCEPT !.pc = "update", !.new = new, !.current = current] \in DeferredType
  BY <1>1, Zenon DEF DeferredType
<1>4. [d EXCEPT !.pc = "update", !.current = current] \in DeferredType
  BY <1>1, Zenon DEF DeferredType
<1>5. [op EXCEPT ![w].pc = "create", ![w].new = new]
      = [op EXCEPT ![w] = [d EXCEPT !.pc = "create", !.new = new]]
  BY Zenon DEF d
<1>6. [op EXCEPT ![w].pc = "update", ![w].new = new, ![w].current = current]
      = [op EXCEPT ![w] = [d EXCEPT !.pc = "update", !.new = new, !.current = current]]
  BY Zenon DEF d
<1>7. [op EXCEPT ![w].pc = "update", ![w].current = current]
      = [op EXCEPT ![w] = [d EXCEPT !.pc = "update", !.current = current]]
  BY Zenon DEF d
<1>8. QED
  BY <1>2, <1>3, <1>4, <1>5, <1>6, <1>7, Zenon

(* The steps of syncOperatorStatus and of the ClusterOperator.             *)
LEMMA StatusStepType ==
    ASSUME OperatorTypeOK,
           \/ \E w \in Workers : \/ syncOperatorStatus(w) \/ createClusterOperator(w)
                                 \/ updateClusterOperator(w) \/ SyncCOCache(w)
           \/ DeleteClusterOperator \/ ApplyManifest
    PROVE  OperatorTyped'
<1>0. /\ nsEvents \in [Workers -> SUBSET Namespaces]
      /\ op \in [Workers -> DeferredType]
      /\ co \in ClusterOperator \cup {None}
      /\ coCache \in [Workers -> ClusterOperator \cup {None}]
      /\ coCurrent \in [Workers -> BOOLEAN]
      /\ statusFaults \in 0..MaxStatusFaults
  BY Zenon DEF OperatorTypeOK, DeferredType
<1>1. StatusFault => statusFaults' \in 0..MaxStatusFaults
  BY <1>0, StatusAssumption DEF StatusFault
<1>2. ASSUME NEW object \in ClusterOperator \cup {None}, WriteOperator(object)
      PROVE  /\ co' \in ClusterOperator \cup {None} /\ UNCHANGED coCache
             /\ coCurrent' \in [Workers -> BOOLEAN]
  BY <1>2, Zenon DEF WriteOperator
<1>3. \A w \in Workers : FinishItem(w) => op' \in [Workers -> DeferredType]
  BY <1>0, DeferredTypes, Zenon DEF FinishItem
<1>4. ASSUME NEW w \in Workers, syncOperatorStatus(w) PROVE OperatorTyped'
  <2> DEFINE read == IF COLag THEN coCache[w] ELSE co
             old == IF read = None THEN BlankOperator ELSE read
             new == StatusFrom(old.conds, crCache[w])
             current == COLag => coCurrent[w]
  <2>1. old \in ClusterOperator
    BY <1>0, BlankType, Zenon
  <2>2. new \in ClusterOperator
    <3> HIDE DEF old
    <3>1. QED
      BY <2>1, StatusType, Zenon
  <2>3. current \in BOOLEAN
    BY <1>0, Zenon
  <2>4. /\ UNCHANGED <<nsEvents, coVars>>
        /\ \/ op' = [op EXCEPT ![w].pc = "create", ![w].new = new]
           \/ op' = [op EXCEPT ![w].pc = "update", ![w].new = new, ![w].current = current]
           \/ FinishItem(w)
    BY <1>4, Zenon DEF syncOperatorStatus
  <2> HIDE DEF new, current
  <2>5. op' \in [Workers -> DeferredType]
    <3>1. /\ [op EXCEPT ![w].pc = "create", ![w].new = new] \in [Workers -> DeferredType]
          /\ [op EXCEPT ![w].pc = "update", ![w].new = new, ![w].current = current]
             \in [Workers -> DeferredType]
      BY <1>0, <2>2, <2>3, DeferredSet, Zenon
    <3>2. QED
      BY <1>3, <2>4, <3>1, Zenon
  <2>6. QED
    BY <1>0, <2>4, <2>5, Zenon DEF coVars, OperatorTyped
<1>5. ASSUME NEW w \in Workers, createClusterOperator(w) PROVE OperatorTyped'
  <2>1. /\ UNCHANGED nsEvents
        /\ \/ /\ WriteOperator(BlankOperator) /\ UNCHANGED statusFaults
              /\ op' = [op EXCEPT ![w].pc = "update", ![w].current = TRUE]
           \/ NoWrite /\ FinishItem(w) /\ (UNCHANGED statusFaults \/ StatusFault)
    BY <1>5, Zenon DEF createClusterOperator
  <2>2. op' \in [Workers -> DeferredType]
    <3>1. TRUE \in BOOLEAN
      BY Zenon
    <3>2. [op EXCEPT ![w].pc = "update", ![w].current = TRUE] \in [Workers -> DeferredType]
      BY <1>0, <3>1, BlankType, DeferredSet, Zenon
    <3>3. QED
      BY <1>3, <2>1, <3>2, Zenon
  <2>3. QED
    BY <1>0, <1>1, <1>2, <2>1, <2>2, BlankType, Zenon DEF NoWrite, OperatorTyped
<1>6. ASSUME NEW w \in Workers, updateClusterOperator(w) PROVE OperatorTyped'
  <2>1. /\ UNCHANGED nsEvents /\ FinishItem(w)
        /\ UNCHANGED statusFaults \/ StatusFault
        /\ WriteOperator(op[w].new) \/ NoWrite
    BY <1>6, Zenon DEF updateClusterOperator
  <2>2. op[w].new \in ClusterOperator \cup {None}
    BY <1>0, Zenon DEF DeferredType
  <2>3. QED
    BY <1>0, <1>1, <1>2, <1>3, <2>1, <2>2, Zenon DEF NoWrite, OperatorTyped
<1>7. ASSUME NEW w \in Workers, SyncCOCache(w) PROVE OperatorTyped'
  BY <1>0, <1>7, Zenon DEF SyncCOCache, OperatorTyped
<1>8. CASE DeleteClusterOperator \/ ApplyManifest
  <2>1. /\ UNCHANGED nsEvents
        /\ UNCHANGED statusFaults \/ StatusFault
        /\ WriteOperator(BlankOperator) \/ WriteOperator(None)
        /\ \/ UNCHANGED op
           \/ op' = [v \in Workers |-> [op[v] EXCEPT !.current = FALSE]]
    BY <1>8, Zenon DEF DeleteClusterOperator, ApplyManifest
  <2>2. op' \in [Workers -> DeferredType]
    <3>1. \A d \in DeferredType : [d EXCEPT !.current = FALSE] \in DeferredType
      BY Zenon DEF DeferredType
    <3>2. QED
      BY <1>0, <2>1, <3>1, Zenon
  <2>3. QED
    BY <1>0, <1>1, <1>2, <2>1, <2>2, BlankType, Zenon DEF OperatorTyped
<1>9. QED
  BY <1>4, <1>5, <1>6, <1>7, <1>8, Zenon

(* The other steps of the operator.                                        *)
LEMMA OtherStepType ==
    ASSUME TypeInv', OperatorTypeOK,
           \/ ClusterChange
           \/ \E w \in Workers :
                \/ processNextWorkItem(w) \/ ReconcileStep(w) \/ RestartProcess(w) \/ Resync(w)
                \/ \E c \in CRs : WatchCR(w, c) \/ BackoffOver(w, c)
                \/ \E r \in Refs : WatchSecret(w, r)
                \/ \E n \in Namespaces : WatchNamespace(w, n)
           \/ UNCHANGED allVars
    PROVE  OperatorTyped'
<1>0. /\ nsEvents \in [Workers -> SUBSET Namespaces]
      /\ op \in [Workers -> DeferredType]
      /\ co \in ClusterOperator \cup {None}
      /\ coCache \in [Workers -> ClusterOperator \cup {None}]
      /\ coCurrent \in [Workers -> BOOLEAN]
      /\ statusFaults \in 0..MaxStatusFaults
  BY Zenon DEF OperatorTypeOK, DeferredType
<1>1. CASE UNCHANGED <<nsEvents, op, coVars>>
  BY <1>0, <1>1, Zenon DEF coVars, OperatorTyped
<1>2. ASSUME NEW w \in Workers, processNextWorkItem(w) \/ ReconcileStep(w)
      PROVE  /\ UNCHANGED <<nsEvents, coVars>> /\ op' \in [Workers -> DeferredType]
  <2>1. /\ UNCHANGED <<nsEvents, coVars>>
        /\ \/ UNCHANGED op
           \/ op' = [op EXCEPT ![w] = Deferred(FALSE)]
           \/ op' = [op EXCEPT ![w] = Deferred(ReturnsError(w))]
    BY <1>2, Zenon DEF processNextWorkItem, ReconcileStep
  <2>2. ReturnsError(w) \in BOOLEAN
    BY Zenon DEF ReturnsError
  <2>3. Deferred(FALSE) \in DeferredType /\ Deferred(ReturnsError(w)) \in DeferredType
    BY <2>2, DeferredTypes, Zenon
  <2>4. QED
    BY <1>0, <2>1, <2>3, Zenon
<1>3. ASSUME NEW w \in Workers, RestartProcess(w)
      PROVE  /\ nsEvents' \in [Workers -> SUBSET Namespaces]
             /\ op' \in [Workers -> DeferredType]
             /\ coCache' \in [Workers -> ClusterOperator \cup {None}]
             /\ coCurrent' \in [Workers -> BOOLEAN]
             /\ statusFaults' \in 0..MaxStatusFaults /\ UNCHANGED co
  <2>1. /\ UNCHANGED statusFaults \/ StatusFault
        /\ nsEvents' = [nsEvents EXCEPT ![w] = namespaces]
        /\ op' = [op EXCEPT ![w] = NoDeferred]
        /\ coCache' = [coCache EXCEPT ![w] = co]
        /\ coCurrent' = [coCurrent EXCEPT ![w] = TRUE]
        /\ UNCHANGED co
    BY <1>3, Zenon DEF RestartProcess
  <2>2. UNCHANGED namespaces
    BY <1>3, Zenon DEF RestartProcess, Restart, vars, apiVars
  <2>3. namespaces \in SUBSET Namespaces
    BY <2>2, Zenon DEF TypeInv, TypeOK
  <2>4. statusFaults' \in 0..MaxStatusFaults
    BY <1>0, <2>1, StatusAssumption DEF StatusFault
  <2>5. QED
    BY <1>0, <2>1, <2>3, <2>4, DeferredTypes, Zenon
<1>4. ASSUME NEW w \in Workers, NEW n \in Namespaces, WatchNamespace(w, n)
      PROVE  nsEvents' \in [Workers -> SUBSET Namespaces] /\ UNCHANGED <<op, coVars>>
  BY <1>0, <1>4, Zenon DEF WatchNamespace
<1>5. ASSUME ClusterChange
      PROVE  nsEvents' \in [Workers -> SUBSET Namespaces] /\ UNCHANGED <<op, coVars>>
  <2>1. namespaces' \in SUBSET Namespaces
    BY Zenon DEF TypeInv, TypeOK
  <2>2. QED
    BY <1>0, <1>5, <2>1, Zenon DEF ClusterChange
<1>6. ASSUME NEW w \in Workers,
             \/ Resync(w)
             \/ \E c \in CRs : WatchCR(w, c) \/ BackoffOver(w, c)
             \/ \E r \in Refs : WatchSecret(w, r)
      PROVE  UNCHANGED <<nsEvents, op, coVars>>
  BY <1>6, Zenon DEF Resync, WatchCR, BackoffOver, WatchSecret
<1>7. UNCHANGED allVars => UNCHANGED <<nsEvents, op, coVars>>
  BY Zenon DEF allVars, operatorVars, coVars
<1>8. UNCHANGED coVars => UNCHANGED <<co, coCache, coCurrent, statusFaults>>
  BY Zenon DEF coVars
<1>9. QED
  BY <1>0, <1>1, <1>2, <1>3, <1>4, <1>5, <1>6, <1>7, <1>8, Zenon DEF OperatorTyped

(* Every step of the operator leaves its state of the types stated.        *)
LEMMA OperatorTypeStep ==
    ASSUME TypeInv', QueueInv', OperatorTypeOK, [OperatorNext]_allVars
    PROVE  OperatorTypeOK'
<1>1. queue' \in [Workers -> Queue(CRs)]
  BY Zenon DEF QueueInv
<1>2. OperatorTyped'
  BY StatusStepType, OtherStepType, Zenon DEF OperatorNext, OperatorStep
<1>3. QED
  BY <1>1, <1>2, Zenon DEF OperatorTypeOK, OperatorTyped, DeferredType

(* So does the start.                                                      *)
LEMMA OperatorTypeInit ==
    ASSUME OperatorInit, TypeInv
    PROVE  OperatorTypeOK
<1>1. EmptyQueue \in Queue(CRs) /\ namespaces \in SUBSET Namespaces
  BY EmptyType, Zenon DEF TypeInv, TypeOK
<1>2. QED
  BY <1>1, BlankType, DeferredTypes, StatusAssumption
     DEF OperatorInit, OperatorTypeOK, DeferredType

-----------------------------------------------------------------------------
(* The invariant behind NoLostWakeup *)

(* The namespaces whose creation the process has handled.                  *)
Open(w) == namespaces \ nsEvents[w]

(* The queue will hand out the request again.                              *)
Awake(q, c) == c \in q.dirty \cup q.delayed

(* The request is about to come back after an error.                       *)
Returning(w, c) == c \in queue[w].processing /\ op[w].pc # "none" /\ op[w].failed

(* The request is in the queue, or being reconciled, or about to come back *)
(* after an error, or needs nothing.                                       *)
Minded(w, c) ==
    \/ Awake(queue[w], c)
    \/ wk[w].pc # "idle" /\ wk[w].req = c
    \/ Returning(w, c)
    \/ Quiet(crCache[w][c], crs[c], Open(w))

(* What the running call knows of its request.                             *)
Known(w) == CallKnows(wk[w], crCache[w][wk[w].req], crs[wk[w].req], Open(w))

(* A running call has its request in the queue's processing set, and knows *)
(* of it what CallKnows says unless the queue has it again.                *)
Attends(w) ==
    Busy(wk[w]) => /\ op[w].pc = "none" /\ wk[w].req \in queue[w].processing
                   /\ Awake(queue[w], wk[w].req) \/ Known(w)

WakeInv == \A w \in Workers : Attends(w) /\ \A c \in CRs : Minded(w, c)

-----------------------------------------------------------------------------
(* Copies of a request *)

(* A namespace that goes, or whose creation is still to be handled, leaves *)
(* a calm request calm.                                                    *)
LEMMA CalmShrinks ==
    ASSUME NEW open, NEW open2 \in SUBSET open, NEW x
    PROVE  /\ Calm(x, open) => Calm(x, open2)
           /\ \A y : Quiet(x, y, open) => Quiet(x, y, open2)
           /\ \A k, y : CallKnows(k, x, y, open) => CallKnows(k, x, y, open2)
<1>1. ASSUME NEW z
      PROVE  Calm(z, open) => Calm(z, open2)
  BY Zenon DEF Calm
<1>2. QED
  BY <1>1, ZenonT(40) DEF Quiet, CallKnows

(* The creation of a namespace wakes what was waiting for it: a calm       *)
(* request of another namespace, or one marked as provisioned, stays calm. *)
LEMMA CalmOpens ==
    ASSUME NEW open, NEW n, NEW x,
           x.status.provisioned \/ NamespaceOf[x.ref] # n
    PROVE  /\ Calm(x, open) => Calm(x, open \cup {n})
           /\ \A y : Quiet(x, y, open) => Quiet(x, y, open \cup {n})
           /\ \A k, y : CallKnows(k, x, y, open) => CallKnows(k, x, y, open \cup {n})
<1>1. ASSUME NEW z, z.status.provisioned \/ NamespaceOf[z.ref] # n
      PROVE  Calm(z, open) => Calm(z, open \cup {n})
  BY <1>1, Zenon DEF Calm
<1>2. \A y : Quiet(x, y, open) => Quiet(x, y, open \cup {n})
  BY <1>1, Zenon DEF Quiet
<1>3. ASSUME NEW k, NEW y, CallKnows(k, x, y, open)
      PROVE  CallKnows(k, x, y, open \cup {n})
  <2>1. k.cr.ref = x.ref
    BY <1>3, Zenon DEF CallKnows, SameButStatus
  <2>2. Missing(k.cr.status) /\ k.cr.status.provisioned = x.status.provisioned /\ Calm(k.cr, open)
        => Calm(k.cr, open \cup {n})
    <3>1. CASE NamespaceOf[x.ref] # n
      BY <1>1, <2>1, <3>1, Zenon
    <3>2. CASE x.status.provisioned
      BY <1>1, <3>2, Zenon
    <3>3. QED
      BY <3>1, <3>2, Zenon
  <2>3. ~Missing(k.cr.status) /\ Calm(k.cr, open) => Calm(k.cr, open \cup {n})
    BY Zenon DEF Calm
  <2>4. QED
    BY <1>3, <2>2, <2>3, Zenon DEF CallKnows
<1>4. QED
  BY <1>1, <1>2, <1>3, Zenon

(* No write of a user brings the stored request back to the cached copy.   *)
LEMMA PastStays ==
    ASSUME TypeInv, NEW c \in CRs, UserWrites(c), NEW x \in CredentialsRequest
    PROVE  /\ Past(x, crs[c]) => Past(x, crs'[c])
           /\ crs[c] # None /\ crs[c].finalizer /\ crs[c].status # x.status
              => crs'[c] # None /\ crs'[c].finalizer /\ crs'[c].status # x.status
<1> DEFINE old == crs[c]
           new == crs'[c]
<1>0. None \notin CredentialsRequest
  BY DistinctAssumption, Zenon
<1>1. \/ old = None /\ new # None /\ ~new.finalizer
      \/ /\ old # None /\ new # None
         /\ new.finalizer = old.finalizer /\ new.status = old.status
      \/ old # None /\ ~old.finalizer /\ new = None
  <2>1. CASE old \in CredentialsRequest /\ new = [old EXCEPT !.deleting = TRUE]
             /\ new \in CredentialsRequest
    BY <1>0, <2>1, Zenon DEF CredentialsRequest
  <2>2. QED
    BY <1>0, <2>1, Zenon DEF UserWrites
<1> HIDE DEF old, new
<1>2. QED
  BY <1>1, Zenon DEF Past, old, new

(* A copy that is as stored has not been left behind.                      *)
LEMMA NotPastItself ==
    ASSUME NEW x, NEW hour, x # None, Honest(x, hour)
    PROVE  ~Past(x, x)
BY Zenon DEF Past, Honest

-----------------------------------------------------------------------------
(* The queue *)

(* Add puts the requests among the dirty ones.                             *)
LEMMA AddSets ==
    ASSUME NEW q \in Queue(CRs), NEW R
    PROVE  /\ AddAll(q, R).dirty = q.dirty \cup R
           /\ AddAll(q, R).processing = q.processing
           /\ AddAll(q, R).delayed = q.delayed
  BY Zenon DEF Queue, AddAll

(* A watch that adds requests to the queue of its process.                *)
LEMMA QueueAdds ==
    ASSUME OperatorTypeOK, NEW w \in Workers, NEW R, Add(w, R)
    PROVE  /\ queue'[w].dirty = queue[w].dirty \cup R
           /\ queue'[w].processing = queue[w].processing
           /\ queue'[w].delayed = queue[w].delayed
<1>1. queue[w] \in Queue(CRs) /\ queue'[w] = AddAll(queue[w], R)
  BY Zenon DEF OperatorTypeOK, Add
<1>2. QED
  BY <1>1, AddSets

(* Get moves the head of the list to the processing set.                   *)
LEMMA QueueGets ==
    ASSUME NEW q \in Queue(CRs), NEW p, p = Get(q)
    PROVE  /\ p.dirty = q.dirty \ {Head(q.list)} /\ p.delayed = q.delayed
           /\ p.processing = q.processing \cup {Head(q.list)}
  BY Zenon DEF Queue, Get

(* Done delays, after an error, what was processed.                        *)
LEMMA DoneSets ==
    ASSUME NEW q \in Queue(CRs), NEW failed
    PROVE  /\ Done(q, failed).dirty = q.dirty
           /\ q.delayed \subseteq Done(q, failed).delayed
           /\ failed => q.processing \subseteq Done(q, failed).delayed
  BY Zenon DEF Queue, Done

(* The end of a work item, in the queue of its process.                    *)
LEMMA QueueFinishes ==
    ASSUME OperatorTypeOK, NEW w \in Workers, FinishItem(w)
    PROVE  /\ queue'[w].dirty = queue[w].dirty
           /\ queue[w].delayed \subseteq queue'[w].delayed
           /\ op[w].failed => queue[w].processing \subseteq queue'[w].delayed
<1>1. queue[w] \in Queue(CRs) /\ queue'[w] = Done(queue[w], op[w].failed)
  BY Zenon DEF OperatorTypeOK, FinishItem
<1>2. QED
  BY <1>1, DoneSets, Zenon

(* A request whose back-off is over is dirty instead of delayed.           *)
LEMMA RetrySets ==
    ASSUME NEW q \in Queue(CRs), NEW c
    PROVE  /\ Retry(q, c).dirty = q.dirty \cup {c}
           /\ Retry(q, c).processing = q.processing
           /\ Retry(q, c).delayed = q.delayed \ {c}
<1> DEFINE d == [q EXCEPT !.delayed = @ \ {c}]
<1>1. /\ d \in Queue(CRs) /\ d.dirty = q.dirty /\ d.processing = q.processing
      /\ d.delayed = q.delayed \ {c}
  BY Zenon DEF Queue
<1>2. Retry(q, c) = AddAll(d, {c})
  BY Zenon DEF Retry
<1> HIDE DEF d
<1>3. QED
  BY <1>1, <1>2, AddSets

(* The end of a back-off, in the queue of its process.                     *)
LEMMA QueueRetries ==
    ASSUME OperatorTypeOK, NEW w \in Workers, NEW c, BackoffOver(w, c)
    PROVE  /\ queue'[w].dirty = queue[w].dirty \cup {c}
           /\ queue'[w].processing = queue[w].processing
           /\ queue'[w].delayed = queue[w].delayed \ {c}
<1>1. queue[w] \in Queue(CRs) /\ queue'[w] = Retry(queue[w], c)
  BY Zenon DEF OperatorTypeOK, BackoffOver
<1>2. QED
  BY <1>1, RetrySets

-----------------------------------------------------------------------------
(* The steps that leave the call alone *)

(* The invariant stays when the queue forgets nothing, the deferred call   *)
(* is the same or over, and what was quiet or known stays so.              *)
LEMMA WakeStays ==
    ASSUME WakeInv, NEW w \in Workers, \A v \in Workers : v = w, UNCHANGED wk,
           \A c \in CRs : Awake(queue[w], c) => Awake(queue'[w], c),
           \A c \in CRs : Returning(w, c) => Returning(w, c)' \/ Awake(queue'[w], c),
           Busy(wk[w]) /\ op[w].pc = "none"
             => op'[w].pc = "none" /\ queue[w].processing \subseteq queue'[w].processing,
           \A c \in CRs : Quiet(crCache[w][c], crs[c], Open(w))
                          => Quiet(crCache[w][c], crs[c], Open(w))' \/ Awake(queue'[w], c),
           Busy(wk[w]) /\ Known(w) => Known(w)' \/ Awake(queue'[w], wk[w].req),
           Busy(wk[w]) => wk[w].req \in CRs
    PROVE  WakeInv'
<1>1. Attends(w)'
  BY Zenon DEF WakeInv, Attends
<1>2. \A c \in CRs : Minded(w, c)'
  BY Zenon DEF WakeInv, Minded
<1>3. QED
  BY <1>1, <1>2, Zenon DEF WakeInv

(* Requests are added, and the copies of the others stay as they are.      *)
LEMMA AddingWakes ==
    ASSUME OperatorTypeOK, WakeInv, NEW w \in Workers, \A v \in Workers : v = w,
           UNCHANGED <<wk, op, crs>>, NEW R, Add(w, R),
           \A c \in CRs : c \in R \/ (Quiet(crCache[w][c], crs[c], Open(w))
                                      => Quiet(crCache[w][c], crs[c], Open(w))'),
           Busy(wk[w]) => wk[w].req \in R \/ (Known(w) => Known(w)'),
           Busy(wk[w]) => wk[w].req \in CRs
    PROVE  WakeInv'
<1>2. /\ queue'[w].dirty = queue[w].dirty \cup R /\ queue'[w].delayed = queue[w].delayed
      /\ queue'[w].processing = queue[w].processing
  BY QueueAdds, Zenon
<1>3. /\ \A c : Awake(queue[w], c) => Awake(queue'[w], c)
      /\ \A c \in R : Awake(queue'[w], c)
  BY <1>2, Zenon DEF Awake
<1>4. \A c \in CRs : Returning(w, c) => Returning(w, c)'
  BY <1>2, Zenon DEF Returning
<1>5. QED
  BY <1>2, <1>3, <1>4, WakeStays, Zenon

(* The watches of the requests and of their secrets, and the resync.       *)
LEMMA WatchesWake ==
    ASSUME StepFacts, TypeInv, OperatorTypeOK, WakeInv, NEW w \in Workers, \A v \in Workers : v = w,
           \/ Resync(w)
           \/ \E c \in CRs : WatchCR(w, c)
           \/ \E r \in Refs : WatchSecret(w, r)
    PROVE  WakeInv'
<1>0. Busy(wk[w]) => wk[w].req \in CRs
  BY Zenon DEF StepFacts, RunningFacts, Busy, At
<1>1. ASSUME NEW R, Add(w, R), UNCHANGED <<wk, op, crs, crCache, namespaces, nsEvents>>
      PROVE  WakeInv'
  <2>1. /\ \A c \in CRs : Quiet(crCache[w][c], crs[c], Open(w))
                          => Quiet(crCache[w][c], crs[c], Open(w))'
        /\ Known(w) => Known(w)'
    BY <1>1, Zenon DEF Open, Known
  <2>2. QED
    BY <1>0, <1>1, <2>1, AddingWakes, Zenon
<1>2. CASE Resync(w)
  <2>1. PICK R : Add(w, R)
    BY <1>2, Zenon DEF Resync
  <2>2. UNCHANGED <<wk, op, crs, crCache, namespaces, nsEvents>>
    BY <1>2, Zenon DEF Resync, vars, apiVars, cacheVars
  <2>3. QED
    BY <1>1, <2>1, <2>2, Zenon
<1>3. ASSUME NEW r \in Refs, WatchSecret(w, r)
      PROVE  WakeInv'
  <2>1. PICK R : Add(w, R)
    BY <1>3, Zenon DEF WatchSecret
  <2>2. UNCHANGED <<wk, op, crs, crCache, namespaces, nsEvents>>
    BY <1>3, Zenon DEF WatchSecret, SyncSecretCache, apiVars
  <2>3. QED
    BY <1>1, <2>1, <2>2, Zenon
<1>4. ASSUME NEW c \in CRs, WatchCR(w, c)
      PROVE  WakeInv'
  <2>1. Add(w, {c}) /\ UNCHANGED <<wk, op, crs, namespaces, nsEvents>>
    BY <1>4, Zenon DEF WatchCR, SyncCRCache, apiVars
  <2>2. \A d \in CRs : d \in {c} \/ crCache'[w][d] = crCache[w][d]
    BY <1>4, Zenon DEF WatchCR, SyncCRCache, TypeInv, TypeOK
  <2>3. \A d \in CRs : d \in {c} \/ (Quiet(crCache[w][d], crs[d], Open(w))
                                     => Quiet(crCache[w][d], crs[d], Open(w))')
    BY <2>1, <2>2, Zenon DEF Open
  <2>4. Busy(wk[w]) => wk[w].req \in {c} \/ (Known(w) => Known(w)')
    BY <1>0, <2>1, <2>2, Zenon DEF Known, Open
  <2>5. QED
    BY <1>0, <2>1, <2>3, <2>4, AddingWakes, Zenon
<1>5. QED
  BY <1>2, <1>3, <1>4, Zenon

(* The watch of the namespaces.                                            *)
LEMMA NamespaceWakes ==
    ASSUME StepFacts, TypeInv, OperatorTypeOK, WakeInv, NEW w \in Workers, \A v \in Workers : v = w,
           NEW n \in Namespaces, WatchNamespace(w, n)
    PROVE  WakeInv'
<1>0. Busy(wk[w]) => wk[w].req \in CRs
  BY Zenon DEF StepFacts, RunningFacts, Busy, At
<1>1. /\ Add(w, namespaceMapFn(w, n))
      /\ UNCHANGED <<wk, op, crs, crCache, namespaces>>
  BY Zenon DEF WatchNamespace, vars, apiVars, cacheVars
<1>2. Open(w)' \in SUBSET (Open(w) \cup {n})
  BY <1>1, Zenon DEF WatchNamespace, Open, OperatorTypeOK
<1>3. ASSUME NEW c \in CRs, c \notin namespaceMapFn(w, n), crCache[w][c] # None
      PROVE  crCache[w][c].status.provisioned \/ NamespaceOf[crCache[w][c].ref] # n
  BY <1>3, Zenon DEF namespaceMapFn
<1>4. ASSUME NEW c \in CRs, c \notin namespaceMapFn(w, n),
             Quiet(crCache[w][c], crs[c], Open(w))
      PROVE  Quiet(crCache[w][c], crs[c], Open(w)')
  <2>1. CASE crCache[w][c] = None
    BY <2>1, Zenon DEF Quiet
  <2>2. CASE crCache[w][c] # None
    <3>1. Quiet(crCache[w][c], crs[c], Open(w) \cup {n})
      BY <1>3, <1>4, <2>2, CalmOpens, Zenon
    <3>2. QED
      BY <1>2, <3>1, CalmShrinks, Zenon
  <2>3. QED
    BY <2>1, <2>2, Zenon
<1>5. ASSUME Busy(wk[w]), wk[w].req \notin namespaceMapFn(w, n), Known(w)
      PROVE  CallKnows(wk[w], crCache[w][wk[w].req], crs[wk[w].req], Open(w)')
  <2>1. crCache[w][wk[w].req] # None
    BY <1>5, Zenon DEF Known, CallKnows
  <2>2. CallKnows(wk[w], crCache[w][wk[w].req], crs[wk[w].req], Open(w) \cup {n})
    BY <1>0, <1>3, <1>5, <2>1, CalmOpens, Zenon DEF Known
  <2>3. \A k, x, y : CallKnows(k, x, y, Open(w) \cup {n}) => CallKnows(k, x, y, Open(w)')
    BY <1>2, CalmShrinks, Zenon
  <2>4. QED
    BY <2>2, <2>3, Zenon
<1>6. \A c \in CRs : \/ c \in namespaceMapFn(w, n)
                     \/ Quiet(crCache[w][c], crs[c], Open(w))
                        => Quiet(crCache[w][c], crs[c], Open(w))'
  BY <1>1, <1>4, Zenon
<1>7. Busy(wk[w]) => wk[w].req \in namespaceMapFn(w, n) \/ (Known(w) => Known(w)')
  BY <1>1, <1>5, Zenon DEF Known
<1>8. QED
  BY <1>0, <1>1, <1>6, <1>7, AddingWakes, Zenon

(* The end of a back-off.                                                  *)
LEMMA BackoffWakes ==
    ASSUME StepFacts, TypeInv, OperatorTypeOK, WakeInv, NEW w \in Workers, \A v \in Workers : v = w,
           NEW c \in CRs, BackoffOver(w, c)
    PROVE  WakeInv'
<1>0. Busy(wk[w]) => wk[w].req \in CRs
  BY Zenon DEF StepFacts, RunningFacts, Busy, At
<1>1. UNCHANGED <<wk, op, crs, crCache, namespaces, nsEvents>>
  BY Zenon DEF BackoffOver, vars, apiVars, cacheVars
<1>3. /\ queue'[w].dirty = queue[w].dirty \cup {c} /\ queue'[w].delayed = queue[w].delayed \ {c}
      /\ queue'[w].processing = queue[w].processing
  BY QueueRetries, Zenon
<1>4. \A d \in CRs : Awake(queue[w], d) => Awake(queue'[w], d)
  BY <1>3, Zenon DEF Awake
<1>5. \A d \in CRs : Returning(w, d) => Returning(w, d)'
  BY <1>1, <1>3, Zenon DEF Returning
<1>6. /\ \A d \in CRs : Quiet(crCache[w][d], crs[d], Open(w))
                        => Quiet(crCache[w][d], crs[d], Open(w))'
      /\ Known(w) => Known(w)'
  BY <1>1, Zenon DEF Open, Known
<1>7. QED
  BY <1>0, <1>1, <1>3, <1>4, <1>5, <1>6, WakeStays, Zenon

-----------------------------------------------------------------------------
(* The deferred syncOperatorStatus *)

(* The end of a work item: after an error the request is delayed.          *)
LEMMA FinishWakes ==
    ASSUME TypeInv, OperatorTypeOK, WakeInv, NEW w \in Workers, \A v \in Workers : v = w,
           op[w].pc # "none", UNCHANGED <<vars, nsEvents>>,
           \/ UNCHANGED queue /\ op'[w].pc # "none" /\ op'[w].failed = op[w].failed
           \/ FinishItem(w)
    PROVE  WakeInv'
<1>1. UNCHANGED <<wk, crs, crCache, namespaces>>
  BY Zenon DEF vars, apiVars, cacheVars
<1>2. ~Busy(wk[w])
  BY Zenon DEF WakeInv, Attends
<1>3. \A c \in CRs : Quiet(crCache[w][c], crs[c], Open(w))
                     => Quiet(crCache[w][c], crs[c], Open(w))'
  BY <1>1, Zenon DEF Open
<1>4. CASE UNCHANGED queue /\ op'[w].pc # "none" /\ op'[w].failed = op[w].failed
  <2>1. \A c \in CRs : Returning(w, c) => Returning(w, c)'
    BY <1>4, Zenon DEF Returning
  <2>2. QED
    BY <1>1, <1>2, <1>3, <1>4, <2>1, WakeStays, Zenon
<1>5. CASE FinishItem(w)
  <2>2. /\ queue'[w].dirty = queue[w].dirty /\ queue[w].delayed \subseteq queue'[w].delayed
        /\ op[w].failed => queue[w].processing \subseteq queue'[w].delayed
    BY <1>5, QueueFinishes, Zenon
  <2>3. \A c \in CRs : Awake(queue[w], c) => Awake(queue'[w], c)
    BY <2>2, Zenon DEF Awake
  <2>4. \A c \in CRs : Returning(w, c) => Awake(queue'[w], c)
    BY <2>2, Zenon DEF Returning, Awake
  <2>5. QED
    BY <1>1, <1>2, <1>3, <2>3, <2>4, WakeStays, Zenon
<1>6. QED
  BY <1>4, <1>5, Zenon

(* The steps of syncOperatorStatus, and what happens to the ClusterOperator*)
(* besides.                                                                *)
LEMMA StatusWakes ==
    ASSUME StepFacts, TypeInv, OperatorTypeOK, WakeInv, NEW w \in Workers, \A v \in Workers : v = w,
           \/ syncOperatorStatus(w) \/ createClusterOperator(w) \/ updateClusterOperator(w)
           \/ SyncCOCache(w) \/ DeleteClusterOperator \/ ApplyManifest
    PROVE  WakeInv'
<1>0. /\ op \in [Workers -> [pc: {"none", "syncOperatorStatus", "create", "update"},
                             failed: BOOLEAN, current: BOOLEAN,
                             new: ClusterOperator \cup {None}]]
  BY Zenon DEF OperatorTypeOK
<1>1. CASE syncOperatorStatus(w)
  <2>1. /\ op[w].pc = "syncOperatorStatus" /\ UNCHANGED <<vars, nsEvents>>
        /\ \/ \E new : op' = [op EXCEPT ![w].pc = "create", ![w].new = new] /\ UNCHANGED queue
           \/ /\ \E new, current : op' = [op EXCEPT ![w].pc = "update", ![w].new = new,
                                                    ![w].current = current]
              /\ UNCHANGED queue
           \/ FinishItem(w)
    BY <1>1, Zenon DEF syncOperatorStatus
  <2>2. ASSUME NEW new, op' = [op EXCEPT ![w].pc = "create", ![w].new = new]
        PROVE  op'[w].pc # "none" /\ op'[w].failed = op[w].failed
    BY <1>0, <2>2, Zenon
  <2>3. ASSUME NEW new, NEW current,
               op' = [op EXCEPT ![w].pc = "update", ![w].new = new, ![w].current = current]
        PROVE  op'[w].pc # "none" /\ op'[w].failed = op[w].failed
    BY <1>0, <2>3
  <2>4. QED
    BY <2>1, <2>2, <2>3, FinishWakes, Zenon
<1>2. CASE createClusterOperator(w) \/ updateClusterOperator(w)
  <2>1. /\ op[w].pc \in {"create", "update"} /\ UNCHANGED <<vars, nsEvents>>
        /\ \/ op' = [op EXCEPT ![w].pc = "update", ![w].current = TRUE] /\ UNCHANGED queue
           \/ FinishItem(w)
    BY <1>2, Zenon DEF createClusterOperator, updateClusterOperator
  <2>2. \/ UNCHANGED queue /\ op'[w].pc # "none" /\ op'[w].failed = op[w].failed
        \/ FinishItem(w)
    BY <1>0, <2>1
  <2>3. QED
    BY <2>1, <2>2, FinishWakes, Zenon
<1>3. CASE SyncCOCache(w) \/ DeleteClusterOperator \/ ApplyManifest
  <2>1. /\ UNCHANGED <<vars, queue, nsEvents>>
        /\ UNCHANGED op \/ op' = [v \in Workers |-> [op[v] EXCEPT !.current = FALSE]]
    BY <1>3, Zenon DEF SyncCOCache, DeleteClusterOperator, ApplyManifest
  <2>2. UNCHANGED <<wk, crs, crCache, namespaces>>
    BY <2>1, Zenon DEF vars, apiVars, cacheVars
  <2>3. op'[w].pc = op[w].pc /\ op'[w].failed = op[w].failed
    BY <1>0, <2>1, Zenon
  <2>4. /\ \A c \in CRs : Returning(w, c) => Returning(w, c)'
        /\ \A c \in CRs : Quiet(crCache[w][c], crs[c], Open(w))
                          => Quiet(crCache[w][c], crs[c], Open(w))'
        /\ Known(w) => Known(w)'
    BY <2>1, <2>2, <2>3, Zenon DEF Open, Known, Returning
  <2>5. Busy(wk[w]) => wk[w].req \in CRs
    BY Zenon DEF StepFacts, RunningFacts, Busy, At
  <2>6. QED
    BY <2>1, <2>2, <2>3, <2>4, <2>5, WakeStays, Zenon
<1>4. QED
  BY <1>1, <1>2, <1>3, Zenon

-----------------------------------------------------------------------------
(* The cluster's users *)

(* What the users do leaves a quiet request quiet: what needs a Reconcile  *)
(* reaches the queue with the next event of its watch.                     *)
LEMMA ChangesWake ==
    ASSUME StepFacts, TypeInv, OperatorTypeOK, WakeInv, NEW w \in Workers, \A v \in Workers : v = w,
           ClusterChange
    PROVE  WakeInv'
<1>0. Busy(wk[w]) => wk[w].req \in CRs
  BY Zenon DEF StepFacts, RunningFacts, Busy, At
<1>1. /\ UNCHANGED <<wk, crCache, queue, op>> /\ Environment
      /\ nsEvents'[w] = nsEvents[w] \cup (namespaces' \ namespaces)
  BY Zenon DEF StepFacts, EnvironmentFacts, ClusterChange
<1>2. Open(w)' \in SUBSET Open(w)
  BY <1>1, Zenon DEF Open
<1>3. UNCHANGED crs \/ \E c \in CRs : UserWrites(c)
  BY <1>1, Zenon DEF StepFacts, EnvironmentFacts
<1>4. ASSUME NEW c \in CRs, crCache[w][c] # None
      PROVE  /\ Past(crCache[w][c], crs[c]) => Past(crCache[w][c], crs'[c])
             /\ \A k : CallKnows(k, crCache[w][c], crs[c], Open(w))
                       => CallKnows(k, crCache[w][c], crs'[c], Open(w))
  <2>1. CASE crs'[c] = crs[c]
    BY <2>1, Zenon
  <2>2. CASE UserWrites(c)
    <3>1. crCache[w][c] \in CredentialsRequest
      BY <1>4, SMTT(30) DEF TypeInv, TypeOK
    <3>2. /\ Past(crCache[w][c], crs[c]) => Past(crCache[w][c], crs'[c])
          /\ crs[c] # None /\ crs[c].finalizer /\ crs[c].status # crCache[w][c].status
             => crs'[c] # None /\ crs'[c].finalizer /\ crs'[c].status # crCache[w][c].status
      BY <2>2, <3>1, PastStays, Zenon
    <3>3. QED
      BY <3>2, Zenon DEF CallKnows
  <2>3. crs'[c] = crs[c] \/ UserWrites(c)
    BY <1>3, ZenonT(40) DEF UserWrites
  <2>4. QED
    BY <2>1, <2>2, <2>3, Zenon
<1>5. ASSUME NEW c \in CRs, Quiet(crCache[w][c], crs[c], Open(w))
      PROVE  Quiet(crCache[w][c], crs'[c], Open(w)')
  <2>1. Quiet(crCache[w][c], crs'[c], Open(w))
    BY <1>4, <1>5, Zenon DEF Quiet
  <2>2. QED
    BY <1>2, <2>1, CalmShrinks, Zenon
<1>6. ASSUME Busy(wk[w]), Known(w)
      PROVE  CallKnows(wk[w], crCache[w][wk[w].req], crs'[wk[w].req], Open(w)')
  <2>1. crCache[w][wk[w].req] # None
    BY <1>6, Zenon DEF Known, CallKnows
  <2>2. CallKnows(wk[w], crCache[w][wk[w].req], crs'[wk[w].req], Open(w))
    BY <1>0, <1>4, <1>6, <2>1, Zenon DEF Known
  <2>3. \A k, x, y : CallKnows(k, x, y, Open(w)) => CallKnows(k, x, y, Open(w)')
    BY <1>2, CalmShrinks, Zenon
  <2>4. QED
    BY <2>2, <2>3, Zenon
<1>7. /\ \A c \in CRs : Quiet(crCache[w][c], crs[c], Open(w))
                        => Quiet(crCache[w][c], crs[c], Open(w))'
      /\ Busy(wk[w]) /\ Known(w) => Known(w)'
  BY <1>1, <1>5, <1>6, Zenon DEF Known
<1>8. \A c \in CRs : Returning(w, c) => Returning(w, c)'
  BY <1>1, Zenon DEF Returning
<1>9. QED
  BY <1>0, <1>1, <1>7, <1>8, WakeStays, Zenon

-----------------------------------------------------------------------------
(* The steps of a work item, and a restart *)

(* A request is taken off the queue.                                       *)
LEMMA ItemWakes ==
    ASSUME StepFacts, TypeInv, HonestInv, OperatorTypeOK, QueueConsistent, WakeInv,
           NEW w \in Workers, \A v \in Workers : v = w, processNextWorkItem(w),
           NEW c \in CRs, c = Head(queue[w].list)
    PROVE  WakeInv'
<1>1. /\ wk[w].pc = "idle" /\ op[w].pc = "none" /\ UNCHANGED nsEvents
      /\ queue' = [queue EXCEPT ![w] = Get(queue[w])]
  BY Zenon DEF processNextWorkItem, At
<1>2. queue[w] \in Queue(CRs) /\ queue'[w] = Get(queue[w])
  BY <1>1, Zenon DEF OperatorTypeOK
<1>3. /\ queue'[w].dirty = queue[w].dirty \ {c} /\ queue'[w].delayed = queue[w].delayed
      /\ queue'[w].processing = queue[w].processing \cup {c}
  BY <1>2, QueueGets, Zenon
<1>4. \A d \in CRs \ {c} : Awake(queue[w], d) => Awake(queue'[w], d)
  BY <1>3, Zenon DEF Awake
<1>5. \A d \in CRs : Awake(queue[w], d) \/ Quiet(crCache[w][d], crs[d], Open(w))
  BY <1>1, Zenon DEF WakeInv, Minded, Returning
<1>6. CASE Reconcile(w, c) /\ UNCHANGED op
  <2>1. UNCHANGED <<crs, crCache, namespaces>>
    BY <1>6, Zenon DEF StepFacts, StartFacts, Starts, OwnFacts, Catches
  <2>2. /\ wk'[w].req = c /\ wk'[w].base = crCache[w][c] /\ wk'[w].cr = crCache[w][c]
        /\ wk'[w].base # None
        /\ \/ wk'[w].pc = "DeleteUserPolicy" /\ wk'[w].base.deleting /\ wk'[w].base.finalizer
           \/ wk'[w].pc = "namespace" /\ ~wk'[w].base.deleting /\ wk'[w].base.finalizer
           \/ /\ wk'[w].pc = "addDeprovisionFinalizer" /\ ~wk'[w].base.deleting
              /\ ~wk'[w].base.finalizer
    BY <1>6, Zenon DEF StepFacts, StartFacts, Starts
  <2>3. \A d \in CRs : Minded(w, d)'
    <3>1. wk'[w].pc # "idle"
      BY <2>2, Zenon
    <3>2. ASSUME NEW d \in CRs, d # c
          PROVE  Awake(queue'[w], d) \/ Quiet(crCache[w][d], crs[d], Open(w))'
      BY <1>1, <1>4, <1>5, <2>1, <3>2, Zenon DEF Open
    <3>3. QED
      BY <2>2, <3>1, <3>2, Zenon DEF Minded
  <2>4. CallKnows(wk'[w], crCache[w][c], crs[c], Open(w)')
    BY <2>2, Zenon DEF CallKnows, SameButStatus, SyncPCs, DeletePCs, ActuatorPCs
  <2>5. Attends(w)'
    <3>1. Known(w)'
      BY <2>1, <2>2, <2>4, Zenon DEF Known
    <3>2. op'[w].pc = "none" /\ wk'[w].req \in queue'[w].processing
      BY <1>1, <1>3, <1>6, <2>2, Zenon
    <3>3. QED
      BY <3>1, <3>2, Zenon DEF Attends
  <2>6. QED
    BY <2>3, <2>5, Zenon DEF WakeInv
<1>7. CASE (crCache[w][c] # None => crCache[w][c].deleting /\ ~crCache[w][c].finalizer)
           /\ UNCHANGED vars
  <2>1. UNCHANGED <<wk, crs, crCache, namespaces>>
    BY <1>7, Zenon DEF vars, apiVars, cacheVars
  <2>2. crCache[w][c] = None
    BY <1>7, Zenon DEF HonestInv, Honest
  <2>3. \A d \in CRs : Minded(w, d)'
    <3>1. ASSUME NEW d \in CRs, d # c
          PROVE  Awake(queue'[w], d) \/ Quiet(crCache[w][d], crs[d], Open(w))'
      BY <1>1, <1>4, <1>5, <2>1, <3>1, Zenon DEF Open
    <3>2. Quiet(crCache[w][c], crs[c], Open(w))'
      BY <2>1, <2>2, Zenon DEF Quiet
    <3>3. QED
      BY <3>1, <3>2, Zenon DEF Minded
  <2>4. Attends(w)'
    BY <1>1, <2>1, Zenon DEF Attends, Busy
  <2>5. QED
    BY <2>3, <2>4, Zenon DEF WakeInv
<1>8. QED
  BY <1>6, <1>7, Zenon DEF processNextWorkItem

(* A call makes a step.                                                    *)
LEMMA CallWakes ==
    ASSUME StepFacts, MindFacts, TypeInv, TypeInv', HonestInv, OperatorTypeOK, WakeInv,
           NEW w \in Workers, \A v \in Workers : v = w, ReconcileStep(w)
    PROVE  WakeInv'
<1>0. PICK c \in CRs : c = wk[w].req
  BY Zenon DEF StepFacts, CallFacts, ReconcileStep
<1>1. /\ WorkerStep(w) /\ UNCHANGED <<queue, nsEvents>>
      /\ op' = IF wk'[w].pc \in PanicPCs \cup {"idle"}
               THEN [op EXCEPT ![w] = Deferred(ReturnsError(w))]
               ELSE op
  BY Zenon DEF ReconcileStep
<1>2. /\ UNCHANGED <<crCache, namespaces>> /\ c \in CRs /\ wk[w].pc # "idle"
      /\ \A d \in CRs \ {c} : crs'[d] = crs[d]
      /\ wk'[w].pc # "idle" => wk'[w].req = c
  BY <1>0, <1>1, Zenon DEF StepFacts, CallFacts, OwnFacts, Catches, Writes, Proceeds
<1>3. Busy(wk[w])
  BY <1>1, <1>2, Zenon DEF StepFacts, ReportFacts, Busy, Reports
<1>4. /\ op[w].pc = "none" /\ c \in queue[w].processing
      /\ Awake(queue[w], c) \/ Known(w)
  BY <1>0, <1>3, Zenon DEF WakeInv, Attends
<1>5. Open(w)' = Open(w) /\ Open(w) \in SUBSET namespaces
  BY <1>1, <1>2, Zenon DEF Open
<1>6. \/ Awake(queue[w], c)
      \/ /\ Busy(wk'[w]) => CallKnows(wk'[w], crCache[w][c], crs'[c], Open(w))
         /\ wk'[w].pc = "idle" => ReturnsError(w) \/ Quiet(crCache[w][c], crs'[c], Open(w))
  <2>1. ASSUME Known(w)
        PROVE  KnowsOrEnds(w, Open(w))
    BY <1>1, <1>5, <2>1, Zenon DEF MindFacts, Known
  <2>2. QED
    BY <1>0, <1>4, <2>1, Zenon DEF KnowsOrEnds
<1>7. ASSUME NEW d \in CRs, d # c
      PROVE  Minded(w, d)'
  <2>1. Awake(queue[w], d) \/ Quiet(crCache[w][d], crs[d], Open(w))
    BY <1>0, <1>4, <1>7, Zenon DEF WakeInv, Minded, Returning
  <2>2. QED
    BY <1>1, <1>2, <1>5, <1>7, <2>1, Zenon DEF Minded
<1>8. Minded(w, c)'
  <2>1. CASE wk'[w].pc # "idle"
    BY <1>2, <2>1, Zenon DEF Minded
  <2>2. CASE wk'[w].pc = "idle" /\ ReturnsError(w)
    <3>1. op'[w].pc # "none" /\ op'[w].failed
      <4>1. op' = [op EXCEPT ![w] = Deferred(ReturnsError(w))]
        BY <1>1, <2>2, Zenon
      <4>2. op'[w] = Deferred(ReturnsError(w))
        BY <4>1, Zenon DEF OperatorTypeOK
      <4>3. QED
        BY <2>2, <4>2, Zenon DEF Deferred, NoDeferred
    <3>2. Returning(w, c)'
      BY <1>1, <1>2, <1>4, <3>1, Zenon DEF Returning
    <3>3. QED
      BY <3>2, Zenon DEF Minded
  <2>3. CASE Awake(queue[w], c) \/ Quiet(crCache[w][c], crs'[c], Open(w))
    BY <1>1, <1>2, <1>5, <2>3, Zenon DEF Minded
  <2>4. QED
    BY <1>6, <2>1, <2>2, <2>3, Zenon
<1>9. Attends(w)'
  <2> SUFFICES ASSUME Busy(wk'[w])
               PROVE  /\ op'[w].pc = "none" /\ wk'[w].req \in queue'[w].processing
                      /\ Awake(queue'[w], wk'[w].req) \/ Known(w)'
    BY Zenon DEF Attends
  <2>1. wk'[w].pc \notin PanicPCs \cup {"idle"} /\ wk'[w].req = c
    BY <1>2, Zenon DEF Busy
  <2>2. UNCHANGED op
    BY <1>1, <2>1, Zenon
  <2>3. QED
    BY <1>1, <1>2, <1>4, <1>5, <1>6, <2>1, <2>2, Zenon DEF Known
<1>10. QED
  BY <1>7, <1>8, <1>9, Zenon DEF WakeInv

(* A process that starts again finds every request in its watches.         *)
LEMMA RestartWakes ==
    ASSUME TypeInv, OperatorTypeOK, WakeInv, NEW w \in Workers, \A v \in Workers : v = w,
           RestartProcess(w)
    PROVE  WakeInv'
<1>1. wk'[w].pc = "idle"
  <2>1. Restart(w) => wk'[w].pc = "idle"
    BY DEF Restart, Return, IdleWorker, Locals, TypeInv, TypeOK
  <2>2. QED
    BY <2>1, Zenon DEF RestartProcess, vars, At
<1>2. queue'[w] = AddAll(EmptyQueue, {c \in CRs : crCache'[w][c] # None})
  BY Zenon DEF RestartProcess, OperatorTypeOK
<1>3. EmptyQueue \in Queue(CRs) /\ EmptyQueue.dirty = {}
  BY EmptyType, Zenon
<1>4. queue'[w].dirty = {} \cup {c \in CRs : crCache'[w][c] # None}
  BY <1>2, <1>3, AddSets, Zenon
<1>5. \A c \in CRs : Minded(w, c)'
  <2>1. ASSUME NEW c \in CRs
        PROVE  Awake(queue'[w], c) \/ crCache'[w][c] = None
    BY <1>4, Zenon DEF Awake
  <2>2. QED
    BY <2>1, Zenon DEF Minded, Quiet
<1>6. Attends(w)'
  BY <1>1, Zenon DEF Attends, Busy
<1>7. QED
  BY <1>5, <1>6, Zenon DEF WakeInv

-----------------------------------------------------------------------------
(* The theorem's two halves *)

(* Every step of the operator.                                             *)
LEMMA WakeStep ==
    ASSUME StepFacts, MindFacts, SingleProcess, TypeInv, TypeInv', HonestInv,
           OperatorTypeOK, QueueInv, WakeInv, [OperatorNext]_allVars
    PROVE  WakeInv'
<1>0. ASSUME NEW w \in Workers
      PROVE  \A v \in Workers : v = w
  BY <1>0, Zenon DEF SingleProcess
<1>1. ASSUME NEW w \in Workers, processNextWorkItem(w)
      PROVE  WakeInv'
  <2>1. QueueConsistent /\ Head(queue[w].list) \in CRs
    BY <1>1, QueueHolds, Zenon DEF processNextWorkItem
  <2>2. QED
    BY <1>0, <1>1, <2>1, ItemWakes, Zenon
<1>2. ASSUME NEW w \in Workers, ReconcileStep(w)
      PROVE  WakeInv'
  BY <1>0, <1>2, CallWakes, Zenon
<1>3. ASSUME NEW w \in Workers, RestartProcess(w)
      PROVE  WakeInv'
  BY <1>0, <1>3, RestartWakes, Zenon
<1>4. ASSUME NEW w \in Workers,
             \/ syncOperatorStatus(w) \/ createClusterOperator(w) \/ updateClusterOperator(w)
             \/ SyncCOCache(w) \/ DeleteClusterOperator \/ ApplyManifest
      PROVE  WakeInv'
  BY <1>0, <1>4, StatusWakes, Zenon
<1>5. ASSUME NEW w \in Workers,
             \/ Resync(w)
             \/ \E c \in CRs : WatchCR(w, c)
             \/ \E r \in Refs : WatchSecret(w, r)
      PROVE  WakeInv'
  BY <1>0, <1>5, WatchesWake, Zenon
<1>6. ASSUME NEW w \in Workers, NEW c \in CRs, BackoffOver(w, c)
      PROVE  WakeInv'
  BY <1>0, <1>6, BackoffWakes, Zenon
<1>7. ASSUME NEW w \in Workers, NEW n \in Namespaces, WatchNamespace(w, n)
      PROVE  WakeInv'
  BY <1>0, <1>7, NamespaceWakes, Zenon
<1>8. PICK p : p \in Workers
  BY Zenon DEF SingleProcess
<1>9. ASSUME ClusterChange
      PROVE  WakeInv'
  BY <1>0, <1>8, <1>9, ChangesWake, Zenon
<1>10. CASE UNCHANGED allVars
  <2>1. UNCHANGED <<wk, crs, crCache, namespaces, queue, op, nsEvents>>
    BY <1>10, Zenon DEF allVars, operatorVars, vars, apiVars, cacheVars
  <2>2. QED
    BY <2>1, Zenon DEF WakeInv, Attends, Minded, Returning, Known, Open
<1>11. QED
  BY <1>1, <1>2, <1>3, <1>4, <1>5, <1>6, <1>7, <1>8, <1>9, <1>10, Zenon
     DEF OperatorNext, OperatorStep

(* The invariant holds at first: there is no request.                      *)
LEMMA WakeInit == OperatorInit => WakeInv
<1> SUFFICES ASSUME OperatorInit
             PROVE  WakeInv
  BY Zenon
<1>1. /\ \A w \in Workers : wk[w].pc = "idle"
      /\ \A w \in Workers, c \in CRs : crCache[w][c] = None
  BY Zenon DEF OperatorInit, Init, IdleWorker, Locals
<1>2. QED
  BY <1>1, Zenon DEF WakeInv, Attends, Busy, Minded, Quiet

(* The invariant leaves no request without a wake-up that needs one.       *)
LEMMA WakeSuffices ==
    ASSUME HonestInv, WakeInv, NEW p, p \in Workers
    PROVE  NoLostWakeup
<1> SUFFICES ASSUME NEW c \in CRs, crs[c] # None, AtRest(c)
             PROVE  \/ Settled(c)
                    \/ /\ crs[c].status.provisioned
                       /\ crs[c].status.conds[MissingNamespace] = "True"
  BY Zenon DEF NoLostWakeup
<1> DEFINE x == crs[c]
<1>1. /\ wk[p].req # c /\ ~Awake(queue[p], c) /\ c \notin queue[p].processing
      /\ crCache[p][c] = x /\ NamespaceOf[x.ref] \notin nsEvents[p]
  BY Zenon DEF AtRest, Awake
<1>2. Quiet(x, x, Open(p))
  BY <1>1, Zenon DEF WakeInv, Minded, Returning
<1>3. ~Past(x, x)
  BY NotPastItself, Zenon DEF HonestInv
<1>4. Calm(x, Open(p))
  BY <1>2, <1>3, Zenon DEF Quiet
<1>5. NamespaceOf[x.ref] \notin Open(p) => NamespaceOf[x.ref] \notin namespaces
  BY <1>1, Zenon DEF Open
<1> HIDE DEF x
<1>6. QED
  BY <1>4, <1>5, Zenon DEF Calm, Settled, Missing, x

=============================================================================
