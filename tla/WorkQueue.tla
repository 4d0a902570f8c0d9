------------------------------ MODULE WorkQueue ------------------------------
(***************************************************************************)
(* The rate limiting work queue of a controller (client-go, external) as   *)
(* processNextWorkItem uses it (pkg/controller/internalcontroller).  A     *)
(* queue is a record: list holds the waiting requests in order, dirty the  *)
(* requests that need a Reconcile, processing the one being reconciled,    *)
(* and delayed the failed ones whose back-off has not passed.              *)
(***************************************************************************)
EXTENDS Integers, FiniteSets, Sequences, Functions

Queue(requests) ==
    [list: Seq(requests), dirty: SUBSET requests, processing: SUBSET requests,
     delayed: SUBSET requests]

EmptyQueue == [list |-> <<>>, dirty |-> {}, processing |-> {}, delayed |-> {}]

(* The requests of a set as a list, in an order that is left open: event   *)
(* handlers go through lists whose order means nothing.                    *)
InSomeOrder(requests) ==
    CHOOSE list \in [1..Cardinality(requests) -> requests] : IsInjective(list)

(* Add, once per request: one that is waiting already is not added again,  *)
(* and one that is being reconciled has to wait for Done.                  *)
AddAll(q, requests) ==
    LET new == requests \ q.dirty
    IN  [q EXCEPT !.dirty = @ \cup new,
                  !.list = @ \o InSomeOrder(new \ q.processing)]

(* Get: the request is no longer dirty, but processing until Done.         *)
Get(q) ==
    [q EXCEPT !.list = Tail(@), !.dirty = @ \ {Head(q.list)},
              !.processing = @ \cup {Head(q.list)}]

(* Mutant: an error does not bring the request back.                       *)
DoneDropsErrors(q, failed) ==
    [q EXCEPT !.processing = {},
              !.list = @ \o InSomeOrder(q.processing \cap q.dirty)]

(* Mutant: a failed request goes straight back to the end of the list.     *)
DoneRequeues(q, failed) ==
    [q EXCEPT !.processing = {},
              !.list = @ \o InSomeOrder(IF failed THEN q.processing ELSE q.processing \cap q.dirty)]

(* Mutant: after an error, the return comes before Done.                   *)
DoneOnSuccess(q, failed) ==
    IF failed
    THEN [q EXCEPT !.delayed = @ \cup q.processing]
    ELSE [q EXCEPT !.processing = {},
                   !.list = @ \o InSomeOrder(q.processing \cap q.dirty)]

(* The end of processNextWorkItem: AddRateLimited after an error, Forget   *)
(* otherwise, then the deferred Done.                                      *)
Done(q, failed) ==
    [q EXCEPT !.processing = {},
              !.list = @ \o InSomeOrder(q.processing \cap q.dirty),
              !.delayed = IF failed THEN @ \cup q.processing ELSE @]

(* The back-off of a failed request has passed.                            *)
Retry(q, c) == AddAll([q EXCEPT !.delayed = @ \ {c}], {c})

(* What waits is what is dirty and not being reconciled, each once.        *)
Consistent(q) ==
    /\ Range(q.list) = q.dirty \ q.processing
    /\ IsInjective(q.list)

=============================================================================
