-------------------- MODULE KeyedCoalescingWorkerProofs --------------------
(***************************************************************************)
(* Proofs about KeyedCoalescingWorker for any set of keys and any number   *)
(* of enqueues.                                                            *)
(*                                                                         *)
(* NoKeyStranded and QueuedOnce need each other: that an offer adds no     *)
(* second copy of a key rests on the key being neither queued nor active,  *)
(* and that a queued key is on its way rests on the copy the fiber took    *)
(* being the only one.  The values add that a pending value is always the  *)
(* newest one (Newest) and that values grow along the way from handled     *)
(* over the fiber to latestByKey (Growing).                                *)
(***************************************************************************)
EXTENDS KeyedCoalescingWorker, TLAPS

(* A key is queued or active, not both, and the fiber's place says which.  *)
PlacesAgree ==
    /\ queuedKeys \cap activeKeys = {}
    /\ worker.at \in {"claim", "requeue"} => worker.key \in queuedKeys
    /\ worker.at \in {"process", "cleanup"} => worker.key \in activeKeys

(* A pending value is the newest; a queued key has one; a key in process   *)
(* without one is being given its newest value.                            *)
Newest ==
    /\ \A k \in Keys : latestByKey[k] # None => latestByKey[k] = enqueued[k]
    /\ \A k \in queuedKeys : latestByKey[k] # None
    /\ worker.at = "process" /\ latestByKey[worker.key] = None =>
          worker.value = enqueued[worker.key]
    /\ worker.at = "cleanup" /\ latestByKey[worker.key] = None =>
          handled[worker.key] = enqueued[worker.key]

(* Values grow from handled to the fiber to latestByKey to enqueued.       *)
Growing ==
    /\ \A k \in Keys : handled[k] <= enqueued[k]
    /\ \A k \in Keys : latestByKey[k] # None => handled[k] < latestByKey[k]
    /\ worker.at = "process" =>
          /\ handled[worker.key] < worker.value
          /\ worker.value <= enqueued[worker.key]
          /\ latestByKey[worker.key] # None => worker.value < latestByKey[worker.key]

IInv ==
    /\ TypeOK
    /\ PlacesAgree
    /\ NoKeyStranded
    /\ QueuedOnce
    /\ Newest
    /\ Growing
    /\ DrainedMeansNewestHandled

-----------------------------------------------------------------------------
(* What offering a key does to the queue.                                  *)
LEMMA OfferFacts ==
    ASSUME NEW S, NEW q \in Seq(S), NEW e \in S
    PROVE  /\ Append(q, e) \in Seq(S)
           /\ Len(Append(q, e)) = Len(q) + 1
           /\ \A i \in 1..Len(q) : Append(q, e)[i] = q[i]
           /\ Append(q, e)[Len(q) + 1] = e
           /\ Len(q) \in Nat
           /\ \A i \in 1..Len(q) : q[i] \in S
  OBVIOUS

(* What taking a key does to the queue.                                    *)
LEMMA TakeFacts ==
    ASSUME NEW S, NEW q \in Seq(S), q # << >>
    PROVE  /\ Head(q) = q[1]
           /\ Tail(q) \in Seq(S)
           /\ Len(q) \in Nat \ {0}
           /\ Len(Tail(q)) = Len(q) - 1
           /\ \A i \in 1..Len(Tail(q)) : Tail(q)[i] = q[i + 1]
           /\ \A i \in 1..Len(q) : q[i] \in S
  OBVIOUS

(* The freshly made worker satisfies the strengthened invariant.           *)
LEMMA InitEstablishesIInv == Init => IInv
<1>1. SUFFICES ASSUME Init PROVE IInv
  OBVIOUS
<1>2. TypeOK
  BY <1>1 DEF Init, TypeOK, Resting, At, Places, None
<1>3. PlacesAgree /\ NoKeyStranded /\ QueuedOnce
  BY <1>1 DEF Init, PlacesAgree, NoKeyStranded, QueuedOnce, Resting, At
<1>4. Newest /\ Growing /\ DrainedMeansNewestHandled
  BY <1>1 DEF Init, Newest, Growing, DrainedMeansNewestHandled, Resting, At, None, Busy
<1> QED
  BY <1>2, <1>3, <1>4 DEF IInv

(* enqueue keeps it: the merge and the offer are one transaction.          *)
LEMMA EnqueuePreserves ==
    ASSUME IInv, NEW key \in Keys, Enqueue(key)
    PROVE  IInv'
<1> USE DEF IInv, At, None, merge
<1> DEFINE offer == key \notin queuedKeys \cup activeKeys
<1>q. queue \in Seq(Keys)
  BY DEF TypeOK
<1>a. ASSUME offer
      PROVE  /\ queue' \in Seq(Keys)
             /\ Len(queue) \in Nat
             /\ Len(queue') = Len(queue) + 1
             /\ \A i \in 1..Len(queue) : queue'[i] = queue[i]
             /\ queue'[Len(queue) + 1] = key
             /\ queuedKeys' = queuedKeys \cup {key}
             /\ \A i \in 1..Len(queue) : queue[i] \in Keys
  <2>1. queue' = Append(queue, key) /\ queuedKeys' = queuedKeys \cup {key}
    BY <1>a DEF Enqueue
  <2> QED
    BY <2>1, <1>q, OfferFacts
<1>b. ASSUME ~offer
      PROVE  queue' = queue /\ queuedKeys' = queuedKeys
  BY <1>b DEF Enqueue
<1>w. worker' = worker /\ activeKeys' = activeKeys
  BY DEF Enqueue
<1>1. TypeOK'
  <2>1. queue' \in Seq(Keys) /\ queuedKeys' \subseteq Keys
    BY <1>a, <1>b DEF TypeOK
  <2>2. latestByKey' \in [Keys -> Nat] /\ enqueued' \in [Keys -> Nat]
    BY DEF TypeOK, Enqueue
  <2> QED
    BY <2>1, <2>2 DEF TypeOK, Enqueue
<1>2. PlacesAgree'
  BY DEF PlacesAgree, TypeOK, Enqueue
<1>3. NoKeyStranded'
  <2>1. ASSUME NEW k \in Keys, latestByKey'[k] # None
        PROVE  k \in queuedKeys' \cup activeKeys'
    BY <2>1, <1>a, <1>b, <1>w DEF NoKeyStranded, TypeOK, Enqueue
  <2>2. ASSUME NEW k \in Keys, k \in queuedKeys'
        PROVE  Waiting(k)'
    <3>1. CASE offer /\ k = key
      <4>1. Len(queue) + 1 \in 1..Len(queue') /\ queue'[Len(queue) + 1] = k
        BY <3>1, <1>a
      <4> QED
        BY <4>1 DEF Waiting
    <3>2. CASE offer /\ k # key
      <4>1. Waiting(k)
        BY <2>2, <3>2, <1>a DEF NoKeyStranded
      <4>2. \A i \in 1..Len(queue) : i \in 1..Len(queue') /\ queue'[i] = queue[i]
        BY <3>2, <1>a
      <4> QED
        BY <4>1, <4>2, <1>w DEF Waiting
    <3>3. CASE ~offer
      BY <2>2, <3>3, <1>b, <1>w DEF NoKeyStranded, Waiting
    <3> QED
      BY <3>1, <3>2, <3>3
  <2>3. ASSUME NEW k \in Keys, k \in activeKeys'
        PROVE  worker'.at \in {"process", "cleanup"} /\ worker'.key = k
    BY <2>3, <1>w DEF NoKeyStranded
  <2> QED
    BY <2>1, <2>2, <2>3 DEF NoKeyStranded
<1>4. QueuedOnce'
  <2>1. CASE offer
    <3>1. \A i \in 1..Len(queue) : queue[i] # key
      BY <2>1 DEF QueuedOnce
    <3>2. worker.at # "take" => worker.key # key
      BY <2>1 DEF PlacesAgree, TypeOK, Places
    <3>3. \A i \in 1..Len(queue') : i \in 1..Len(queue) \/ i = Len(queue) + 1
      BY <2>1, <1>a
    <3>4. \A i, j \in 1..Len(queue') : queue'[i] = queue'[j] => i = j
      BY <2>1, <1>a, <3>1, <3>3 DEF QueuedOnce
    <3>5. \A i \in 1..Len(queue') :
             queue'[i] \in queuedKeys' /\ (worker'.at # "take" => queue'[i] # worker'.key)
      BY <2>1, <1>a, <1>w, <3>2, <3>3 DEF QueuedOnce
    <3> QED
      BY <3>4, <3>5 DEF QueuedOnce
  <2>2. CASE ~offer
    BY <2>2, <1>b, <1>w DEF QueuedOnce
  <2> QED
    BY <2>1, <2>2
<1>5. Newest'
  BY DEF Newest, TypeOK, PlacesAgree, NoKeyStranded, Growing, Enqueue
<1>6. Growing'
  BY DEF Growing, TypeOK, Newest, PlacesAgree, Enqueue
<1>7. DrainedMeansNewestHandled'
  BY DEF DrainedMeansNewestHandled, Busy, TypeOK, Newest, PlacesAgree, NoKeyStranded, Enqueue
<1> QED
  BY <1>1, <1>2, <1>3, <1>4, <1>5, <1>6, <1>7

(* Taking a key from the queue keeps it: the fiber holds the key.          *)
LEMMA TakePreserves ==
    ASSUME IInv, Take
    PROVE  IInv'
<1> USE DEF IInv, At, None, merge
<1>q. queue \in Seq(Keys) /\ queue # << >>
  BY DEF TypeOK, Take
<1>a. /\ queue' \in Seq(Keys)
      /\ Len(queue) \in Nat \ {0}
      /\ Len(queue') = Len(queue) - 1
      /\ \A i \in 1..Len(queue') : queue'[i] = queue[i + 1]
      /\ queue[1] \in Keys
      /\ worker' = [at |-> "claim", key |-> queue[1], value |-> 0]
  <2>1. queue' = Tail(queue) /\ worker' = [at |-> "claim", key |-> Head(queue), value |-> 0]
    BY DEF Take
  <2> QED
    BY <2>1, <1>q, TakeFacts
<1>u. UNCHANGED <<latestByKey, queuedKeys, activeKeys, enqueued, handled>> /\ worker.at = "take"
  BY DEF Take
<1>1. TypeOK'
  BY <1>a, <1>u DEF TypeOK, Places
<1>2. PlacesAgree'
  <2>1. queue[1] \in queuedKeys
    BY <1>a DEF QueuedOnce
  <2> QED
    BY <2>1, <1>a, <1>u DEF PlacesAgree
<1>3. NoKeyStranded'
  <2>1. ASSUME NEW k \in Keys, k \in queuedKeys
        PROVE  Waiting(k)'
    <3>1. PICK i \in 1..Len(queue) : queue[i] = k
      BY <2>1, <1>u DEF NoKeyStranded, Waiting
    <3>2. CASE i = 1
      BY <3>1, <3>2, <1>a DEF Waiting
    <3>3. CASE i # 1
      <4>1. i - 1 \in 1..Len(queue') /\ queue'[i - 1] = k
        BY <3>1, <3>3, <1>a
      <4> QED
        BY <4>1 DEF Waiting
    <3> QED
      BY <3>2, <3>3
  <2>2. activeKeys = {}
    BY <1>u DEF NoKeyStranded, TypeOK
  <2> QED
    BY <2>1, <2>2, <1>u DEF NoKeyStranded
<1>4. QueuedOnce'
  <2>1. \A i \in 1..Len(queue') : i + 1 \in 1..Len(queue) /\ i + 1 # 1 /\ queue'[i] = queue[i + 1]
    BY <1>a
  <2>2. 1 \in 1..Len(queue)
    BY <1>a
  <2>3. ASSUME NEW i \in 1..Len(queue'), NEW j \in 1..Len(queue'), queue'[i] = queue'[j]
        PROVE  i = j
    <3>1. queue[i + 1] = queue[j + 1]
      BY <2>1, <2>3
    <3>2. i + 1 = j + 1
      BY <2>1, <3>1 DEF QueuedOnce
    <3> QED
      BY <3>2
  <2>4. \A i \in 1..Len(queue') : queue'[i] \in queuedKeys' /\ queue'[i] # queue[1]
    BY <2>1, <2>2, <1>u DEF QueuedOnce
  <2> QED
    BY <2>3, <2>4, <1>a DEF QueuedOnce
<1>5. Newest'
  BY <1>a, <1>u DEF Newest
<1>6. Growing'
  BY <1>a, <1>u DEF Growing
<1>7. DrainedMeansNewestHandled'
  BY <1>u DEF DrainedMeansNewestHandled, Busy
<1> QED
  BY <1>1, <1>2, <1>3, <1>4, <1>5, <1>6, <1>7

(* The transaction after the take keeps it.                                *)
LEMMA ClaimPreserves ==
    ASSUME IInv, Claim
    PROVE  IInv'
<1> USE DEF IInv, At, None, merge
<1>1. TypeOK'
  BY DEF TypeOK, Places, Claim, Resting
<1>2. PlacesAgree'
  BY DEF PlacesAgree, TypeOK, Claim, Resting
<1>3. NoKeyStranded'
  BY DEF NoKeyStranded, Waiting, TypeOK, PlacesAgree, QueuedOnce, Newest, Claim, Resting
<1>4. QueuedOnce'
  BY DEF QueuedOnce, TypeOK, PlacesAgree, NoKeyStranded, Claim, Resting
<1>5. Newest'
  BY DEF Newest, TypeOK, PlacesAgree, NoKeyStranded, Growing, Claim, Resting
<1>6. Growing'
  BY DEF Growing, TypeOK, Newest, PlacesAgree, Claim, Resting
<1>7. DrainedMeansNewestHandled'
  BY DEF DrainedMeansNewestHandled, Busy, TypeOK, Newest, PlacesAgree, NoKeyStranded, Claim, Resting
<1> QED
  BY <1>1, <1>2, <1>3, <1>4, <1>5, <1>6, <1>7

(* A successful process keeps it, with or without a merged value.          *)
LEMMA ProcessedPreserves ==
    ASSUME IInv, Processed
    PROVE  IInv'
<1> USE DEF IInv, At, None, merge
<1>1. TypeOK'
  BY DEF TypeOK, Places, Processed, Resting
<1>2. PlacesAgree'
  BY DEF PlacesAgree, TypeOK, Processed, Resting
<1>3. NoKeyStranded'
  BY DEF NoKeyStranded, Waiting, TypeOK, PlacesAgree, QueuedOnce, Newest, Processed, Resting
<1>4. QueuedOnce'
  BY DEF QueuedOnce, TypeOK, PlacesAgree, NoKeyStranded, Processed, Resting
<1>5. Newest'
  BY DEF Newest, TypeOK, PlacesAgree, NoKeyStranded, Growing, Processed, Resting
<1>6. Growing'
  BY DEF Growing, TypeOK, Newest, PlacesAgree, Processed, Resting
<1>7. DrainedMeansNewestHandled'
  BY DEF DrainedMeansNewestHandled, Busy, TypeOK, Newest, PlacesAgree, NoKeyStranded, Processed, Resting
<1> QED
  BY <1>1, <1>2, <1>3, <1>4, <1>5, <1>6, <1>7

(* A failing process keeps it: its value is given up, not lost.            *)
LEMMA ProcessFailsPreserves ==
    ASSUME IInv, ProcessFails
    PROVE  IInv'
<1> USE DEF IInv, At, None, merge
<1>1. TypeOK'
  BY DEF TypeOK, Places, ProcessFails
<1>2. PlacesAgree'
  BY DEF PlacesAgree, TypeOK, ProcessFails
<1>3. NoKeyStranded'
  BY DEF NoKeyStranded, Waiting, TypeOK, PlacesAgree, QueuedOnce, Newest, ProcessFails
<1>4. QueuedOnce'
  BY DEF QueuedOnce, TypeOK, PlacesAgree, NoKeyStranded, ProcessFails
<1>5. Newest'
  BY DEF Newest, TypeOK, PlacesAgree, NoKeyStranded, Growing, ProcessFails
<1>6. Growing'
  BY DEF Growing, TypeOK, Newest, PlacesAgree, ProcessFails
<1>7. DrainedMeansNewestHandled'
  BY DEF DrainedMeansNewestHandled, Busy, TypeOK, Newest, PlacesAgree, NoKeyStranded, ProcessFails
<1> QED
  BY <1>1, <1>2, <1>3, <1>4, <1>5, <1>6, <1>7

(* The transaction of cleanupFailedKey keeps it.                           *)
LEMMA CleanupFailedKeyPreserves ==
    ASSUME IInv, CleanupFailedKey
    PROVE  IInv'
<1> USE DEF IInv, At, None, merge
<1>1. TypeOK'
  BY DEF TypeOK, Places, CleanupFailedKey, Resting
<1>2. PlacesAgree'
  BY DEF PlacesAgree, TypeOK, CleanupFailedKey, Resting
<1>3. NoKeyStranded'
  BY DEF NoKeyStranded, Waiting, TypeOK, PlacesAgree, QueuedOnce, Newest, CleanupFailedKey, Resting
<1>4. QueuedOnce'
  BY DEF QueuedOnce, TypeOK, PlacesAgree, NoKeyStranded, CleanupFailedKey, Resting
<1>5. Newest'
  BY DEF Newest, TypeOK, PlacesAgree, NoKeyStranded, Growing, CleanupFailedKey, Resting
<1>6. Growing'
  BY DEF Growing, TypeOK, Newest, PlacesAgree, CleanupFailedKey, Resting
<1>7. DrainedMeansNewestHandled'
  BY DEF DrainedMeansNewestHandled, Busy, TypeOK, Newest, PlacesAgree, NoKeyStranded, CleanupFailedKey, Resting
<1> QED
  BY <1>1, <1>2, <1>3, <1>4, <1>5, <1>6, <1>7

(* The separate offer of cleanupFailedKey keeps it.                        *)
LEMMA RequeuePreserves ==
    ASSUME IInv, Requeue
    PROVE  IInv'
<1> USE DEF IInv, At, None, Resting
<1> DEFINE key == worker.key
<1>a. /\ queue' \in Seq(Keys)
      /\ Len(queue) \in Nat
      /\ Len(queue') = Len(queue) + 1
      /\ \A i \in 1..Len(queue) : queue'[i] = queue[i]
      /\ queue'[Len(queue) + 1] = key
  <2>1. queue' = Append(queue, key) /\ queue \in Seq(Keys) /\ key \in Keys
    BY DEF Requeue, TypeOK
  <2> HIDE DEF key
  <2> QED
    BY <2>1, OfferFacts
<1>u. /\ UNCHANGED <<latestByKey, queuedKeys, activeKeys, enqueued, handled>>
      /\ worker.at = "requeue"
      /\ worker' = [at |-> "take", key |-> key, value |-> 0]
      /\ key \in Keys
  BY DEF Requeue, TypeOK
<1> HIDE DEF key
<1>k. key = worker.key
  BY DEF key
<1>1. TypeOK'
  BY <1>a, <1>u DEF TypeOK, Places
<1>2. PlacesAgree'
  BY <1>u DEF PlacesAgree
<1>3. NoKeyStranded'
  <2>1. ASSUME NEW k \in Keys, k \in queuedKeys
        PROVE  Waiting(k)'
    <3>1. CASE k = key
      <4>1. Len(queue) + 1 \in 1..Len(queue') /\ queue'[Len(queue) + 1] = k
        BY <3>1, <1>a
      <4> QED
        BY <4>1 DEF Waiting
    <3>2. CASE k # key
      <4>1. PICK i \in 1..Len(queue) : queue[i] = k
        BY <2>1, <3>2, <1>k DEF NoKeyStranded, Waiting
      <4>2. i \in 1..Len(queue') /\ queue'[i] = k
        BY <4>1, <1>a
      <4> QED
        BY <4>2 DEF Waiting
    <3> QED
      BY <3>1, <3>2
  <2>2. activeKeys = {}
    BY <1>u DEF NoKeyStranded, TypeOK
  <2> QED
    BY <2>1, <2>2, <1>u DEF NoKeyStranded
<1>4. QueuedOnce'
  <2>1. \A i \in 1..Len(queue) : queue[i] \in queuedKeys /\ queue[i] # key
    BY <1>u, <1>k DEF QueuedOnce
  <2>2. key \in queuedKeys
    BY <1>u, <1>k DEF PlacesAgree
  <2>3. \A i \in 1..Len(queue') : i \in 1..Len(queue) \/ i = Len(queue) + 1
    BY <1>a
  <2>4. \A i, j \in 1..Len(queue') : queue'[i] = queue'[j] => i = j
    BY <1>a, <2>1, <2>3 DEF QueuedOnce
  <2>5. \A i \in 1..Len(queue') : queue'[i] \in queuedKeys'
    BY <1>a, <1>u, <2>1, <2>2, <2>3
  <2> QED
    BY <2>4, <2>5, <1>u DEF QueuedOnce
<1>5. Newest'
  BY <1>u DEF Newest
<1>6. Growing'
  BY <1>u DEF Growing
<1>7. DrainedMeansNewestHandled'
  BY <1>u DEF DrainedMeansNewestHandled, Busy
<1> QED
  BY <1>1, <1>2, <1>3, <1>4, <1>5, <1>6, <1>7

(* Every step of the worker and its callers keeps it.                      *)
LEMMA NextPreserves == IInv /\ [Next]_vars => IInv'
<1>1. SUFFICES ASSUME IInv, [Next]_vars PROVE IInv'
  OBVIOUS
<1>2. CASE UNCHANGED vars
  <2>1. TypeOK' /\ PlacesAgree' /\ NoKeyStranded' /\ QueuedOnce'
    BY <1>1, <1>2 DEF IInv, vars, TypeOK, PlacesAgree, NoKeyStranded, Waiting, QueuedOnce
  <2>2. Newest' /\ Growing' /\ DrainedMeansNewestHandled'
    BY <1>1, <1>2 DEF IInv, vars, Newest, Growing, DrainedMeansNewestHandled, Busy
  <2> QED
    BY <2>1, <2>2 DEF IInv
<1>3. CASE \E k \in Keys : Enqueue(k)
  BY <1>1, <1>3, EnqueuePreserves
<1>4. CASE Fiber
  BY <1>1, <1>4, TakePreserves, ClaimPreserves, ProcessedPreserves, ProcessFailsPreserves,
     CleanupFailedKeyPreserves, RequeuePreserves DEF Fiber
<1> QED
  BY <1>1, <1>2, <1>3, <1>4 DEF Next

-----------------------------------------------------------------------------
(* The strengthened invariant holds of every reachable state.              *)
THEOREM Inductive == Spec => []IInv
  BY InitEstablishesIInv, NextPreserves, PTL DEF Spec

(* Type correctness of the worker's maps, queue and fiber.                 *)
THEOREM TypeCorrect == Spec => []TypeOK
<1>1. IInv => TypeOK
  BY DEF IInv
<1> QED
  BY <1>1, Inductive, PTL

(* For any number of keys, enqueue racing with the fiber and with failures *)
(* of process never strands a key: whatever has a pending value is on the  *)
(* queue or in the fiber's hands.                                          *)
THEOREM NothingStranded == Spec => []NoKeyStranded
<1>1. IInv => NoKeyStranded
  BY DEF IInv
<1> QED
  BY <1>1, Inductive, PTL

(* A key is on the queue at most once and never while it is in process.    *)
THEOREM NeverTwice == Spec => []QueuedOnce
<1>1. IInv => QueuedOnce
  BY DEF IInv
<1> QED
  BY <1>1, Inductive, PTL

(* The condition drainKey waits for implies that the newest value enqueued *)
(* has been through process.                                               *)
THEOREM DrainIsEnough == Spec => []DrainedMeansNewestHandled
<1>1. IInv => DrainedMeansNewestHandled
  BY DEF IInv
<1> QED
  BY <1>1, Inductive, PTL

(* Values of a key go through process from older to newer.                 *)
THEOREM InOrder == Spec => HandledInOrder
<1> DEFINE Rises == \A k \in Keys : handled'[k] # handled[k] => handled'[k] > handled[k]
<1>1. ASSUME IInv, [Next]_vars PROVE [Rises]_vars
  <2>1. CASE UNCHANGED vars
    BY <2>1
  <2>2. CASE handled' = handled
    BY <2>2
  <2>3. CASE Processed \/ ProcessFails
    BY <1>1, <2>3 DEF Processed, ProcessFails, IInv, TypeOK, Growing
  <2> QED
    BY <1>1, <2>1, <2>2, <2>3 DEF Next, Fiber, Enqueue, Take, Claim, CleanupFailedKey, Requeue
<1>2. IInv /\ [Next]_vars => [Rises]_vars
  BY <1>1
<1> QED
  BY <1>2, Inductive, PTL DEF Spec, HandledInOrder

=============================================================================
