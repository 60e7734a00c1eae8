----------------------- MODULE KeyedCoalescingWorker -----------------------
(***************************************************************************)
(* packages/shared/src/KeyedCoalescingWorker.ts, the worker behind the     *)
(* terminal manager's history persistence (terminal/Manager.ts).           *)
(*                                                                         *)
(* One fiber serves a queue of keys.  A value enqueued for a key that is   *)
(* queued or active is merged into that key's latest value instead of      *)
(* being queued again, so correctness rests on the three places            *)
(* (latestByKey, queuedKeys, activeKeys) never disagreeing with the queue  *)
(* and the fiber.  Every Effect.tx is one action; the fiber may be         *)
(* interleaved with enqueues between any two of them.                      *)
(*                                                                         *)
(* The n-th value enqueued for a key is the number n.  The manager's merge *)
(* keeps the newer history, so a merged value is the number of its newest  *)
(* part, and 0 is a missing map entry.                                     *)
(***************************************************************************)
EXTENDS Integers, Sequences, FiniteSets

CONSTANTS
    Keys,          \* terminal sessions
    MaxEnqueues    \* bound: values enqueued per key

ASSUME MaxEnqueuesAssumption == MaxEnqueues \in Nat

VARIABLES
    latestByKey,   \* pending value of each key, None if there is none
    queuedKeys,
    activeKeys,
    queue,         \* the TxQueue of keys
    worker,        \* the fiber: its place, its key and the value it processes
    enqueued,      \* how many values each key was given
    handled        \* the value last handed to process and finished, by key

vars == <<latestByKey, queuedKeys, activeKeys, queue, worker, enqueued, handled>>

None == 0

merge(current, next) == next

Places == {"take", "claim", "process", "cleanup", "requeue"}

At(place, key, value) == [at |-> place, key |-> key, value |-> value]

(* The fiber between two items; the key it last held is left in place.     *)
Resting(key) == At("take", key, None)

Init ==
    /\ latestByKey = [k \in Keys |-> None]
    /\ queuedKeys = {}
    /\ activeKeys = {}
    /\ queue = << >>
    /\ worker \in {Resting(k) : k \in Keys}
    /\ enqueued = [k \in Keys |-> 0]
    /\ handled = [k \in Keys |-> 0]

(* Mutant of Enqueue: a queued key is offered again.                       *)
EnqueueUnlessActive(k) ==
    /\ enqueued[k] < MaxEnqueues
    /\ enqueued' = [enqueued EXCEPT ![k] = @ + 1]
    /\ latestByKey' = [latestByKey EXCEPT ![k] = enqueued[k] + 1]
    /\ IF k \in activeKeys
       THEN UNCHANGED <<queuedKeys, queue>>
       ELSE /\ queuedKeys' = queuedKeys \cup {k}
            /\ queue' = Append(queue, k)
    /\ UNCHANGED <<activeKeys, worker, handled>>

(***************************************************************************)
(* enqueue: the merge and the offer are one transaction.                   *)
(***************************************************************************)
Enqueue(k) ==
    /\ enqueued[k] < MaxEnqueues
    /\ enqueued' = [enqueued EXCEPT ![k] = @ + 1]
    /\ latestByKey' = [latestByKey EXCEPT ![k] =
                          IF @ = None THEN enqueued[k] + 1 ELSE merge(@, enqueued[k] + 1)]
    /\ IF k \in queuedKeys \cup activeKeys
       THEN UNCHANGED <<queuedKeys, queue>>
       ELSE /\ queuedKeys' = queuedKeys \cup {k}
            /\ queue' = Append(queue, k)
    /\ UNCHANGED <<activeKeys, worker, handled>>

Take ==
    /\ worker.at = "take"
    /\ queue # << >>
    /\ worker' = At("claim", Head(queue), None)
    /\ queue' = Tail(queue)
    /\ UNCHANGED <<latestByKey, queuedKeys, activeKeys, enqueued, handled>>

(***************************************************************************)
(* The transaction after the take: the key leaves queuedKeys, and if it    *)
(* has a value it becomes active and the value is the fiber's.             *)
(***************************************************************************)
Claim ==
    LET k == worker.key
    IN  /\ worker.at = "claim"
        /\ queuedKeys' = queuedKeys \ {k}
        /\ latestByKey' = [latestByKey EXCEPT ![k] = None]
        /\ IF latestByKey[k] = None
           THEN /\ worker' = Resting(k)
                /\ UNCHANGED activeKeys
           ELSE /\ worker' = At("process", k, latestByKey[k])
                /\ activeKeys' = activeKeys \cup {k}
        /\ UNCHANGED <<queue, enqueued, handled>>

(* Mutant of Processed: the state of before process is written back.       *)
ProcessedWritesBack ==
    LET k == worker.key
    IN  /\ worker.at = "process"
        /\ handled' = [handled EXCEPT ![k] = worker.value]
        /\ latestByKey' = [latestByKey EXCEPT ![k] = IF @ = None THEN None ELSE worker.value]
        /\ IF latestByKey[k] = None
           THEN /\ worker' = Resting(k)
                /\ activeKeys' = activeKeys \ {k}
           ELSE /\ worker' = At("process", k, latestByKey[k])
                /\ UNCHANGED activeKeys
        /\ UNCHANGED <<queuedKeys, queue, enqueued>>

(***************************************************************************)
(* processKey: process succeeds, then either the value merged meanwhile is *)
(* processed next or the key stops being active.                           *)
(***************************************************************************)
Processed ==
    LET k == worker.key
    IN  /\ worker.at = "process"
        /\ handled' = [handled EXCEPT ![k] = worker.value]
        /\ latestByKey' = [latestByKey EXCEPT ![k] = None]
        /\ IF latestByKey[k] = None
           THEN /\ worker' = Resting(k)
                /\ activeKeys' = activeKeys \ {k}
           ELSE /\ worker' = At("process", k, latestByKey[k])
                /\ UNCHANGED activeKeys
        /\ UNCHANGED <<queuedKeys, queue, enqueued>>

(***************************************************************************)
(* process fails or dies: its value is given up.                           *)
(***************************************************************************)
ProcessFails ==
    /\ worker.at = "process"
    /\ handled' = [handled EXCEPT ![worker.key] = worker.value]
    /\ worker' = [worker EXCEPT !.at = "cleanup"]
    /\ UNCHANGED <<latestByKey, queuedKeys, activeKeys, queue, enqueued>>

(* Mutants of CleanupFailedKey: the value merged during the failure is not *)
(* queued; the key stays active.                                           *)
CleanupWithoutRequeue ==
    /\ worker.at = "cleanup"
    /\ activeKeys' = activeKeys \ {worker.key}
    /\ worker' = Resting(worker.key)
    /\ UNCHANGED <<latestByKey, queuedKeys, queue, enqueued, handled>>

CleanupKeepsActive ==
    /\ worker.at = "cleanup"
    /\ worker' = Resting(worker.key)
    /\ UNCHANGED <<latestByKey, queuedKeys, activeKeys, queue, enqueued, handled>>

(***************************************************************************)
(* cleanupFailedKey: one transaction on the state, and a separate offer.   *)
(***************************************************************************)
CleanupFailedKey ==
    LET k == worker.key
    IN  /\ worker.at = "cleanup"
        /\ activeKeys' = activeKeys \ {k}
        /\ IF latestByKey[k] # None /\ k \notin queuedKeys
           THEN /\ queuedKeys' = queuedKeys \cup {k}
                /\ worker' = At("requeue", k, None)
           ELSE /\ UNCHANGED queuedKeys
                /\ worker' = Resting(k)
        /\ UNCHANGED <<latestByKey, queue, enqueued, handled>>

Requeue ==
    /\ worker.at = "requeue"
    /\ queue' = Append(queue, worker.key)
    /\ worker' = Resting(worker.key)
    /\ UNCHANGED <<latestByKey, queuedKeys, activeKeys, enqueued, handled>>

Fiber == Take \/ Claim \/ Processed \/ ProcessFails \/ CleanupFailedKey \/ Requeue

Next == Fiber \/ \E k \in Keys : Enqueue(k)

Spec == Init /\ [][Next]_vars

(***************************************************************************)
(* The fiber is scheduled and process terminates.                          *)
(***************************************************************************)
FairSpec == Spec /\ WF_vars(Fiber)

(* Mutant of Busy: drainKey does not wait for the active key.              *)
BusyUnlessActive(k) == latestByKey[k] # None \/ k \in queuedKeys

(***************************************************************************)
(* The condition on which drainKey retries its transaction.                *)
(***************************************************************************)
Busy(k) == latestByKey[k] # None \/ k \in queuedKeys \/ k \in activeKeys

-----------------------------------------------------------------------------
(* The keys and counters have their types.                                 *)
TypeOK ==
    /\ latestByKey \in [Keys -> Nat]
    /\ queuedKeys \subseteq Keys
    /\ activeKeys \subseteq Keys
    /\ queue \in Seq(Keys)
    /\ worker \in [at : Places, key : Keys, value : Nat]
    /\ enqueued \in [Keys -> Nat]
    /\ handled \in [Keys -> Nat]

(***************************************************************************)
(* No key is stranded: whatever has a pending value is on its way to the   *)
(* fiber exactly once - on the queue, just taken, about to be offered      *)
(* again, or in process - in every interleaving of enqueue with the four   *)
(* transactions of the fiber and with failures.                            *)
(***************************************************************************)
Waiting(k) ==
    \/ \E i \in 1..Len(queue) : queue[i] = k
    \/ worker.at \in {"claim", "requeue"} /\ worker.key = k

NoKeyStranded ==
    \A k \in Keys :
        /\ latestByKey[k] # None => k \in queuedKeys \cup activeKeys
        /\ k \in queuedKeys => Waiting(k)
        /\ k \in activeKeys => worker.at \in {"process", "cleanup"} /\ worker.key = k

(***************************************************************************)
(* A key is queued once, however often it is enqueued, and is never queued *)
(* while it is active: one key is never processed twice at a time.         *)
(***************************************************************************)
QueuedOnce ==
    /\ \A i, j \in 1..Len(queue) : queue[i] = queue[j] => i = j
    /\ \A i \in 1..Len(queue) :
          /\ queue[i] \in queuedKeys
          /\ worker.at # "take" => queue[i] # worker.key

(***************************************************************************)
(* What drainKey waits for is enough: when it returns, the newest value    *)
(* ever enqueued for the key has been through process.                     *)
(***************************************************************************)
DrainedMeansNewestHandled == \A k \in Keys : ~Busy(k) => handled[k] = enqueued[k]

(***************************************************************************)
(* Values of a key reach process from older to newer, so an old history    *)
(* never overwrites a newer one on disk.                                   *)
(***************************************************************************)
HandledInOrder ==
    [][\A k \in Keys : handled'[k] # handled[k] => handled'[k] > handled[k]]_vars

(***************************************************************************)
(* Once a key gets no more values, drainKey returns.  (A key that is never *)
(* left alone keeps the fiber, and starves the others: see the README.)    *)
(***************************************************************************)
DrainReturns == \A k \in Keys : Busy(k) ~> ~Busy(k)

=============================================================================
