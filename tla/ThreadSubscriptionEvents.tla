---------------------- MODULE ThreadSubscriptionEvents ----------------------
(***************************************************************************)
(* Proofs about what a client holds of a thread: its events in order, none *)
(* missing, and a marker that is true.                                     *)
(*                                                                         *)
(* AppliedInOrder needs to know why a replay never continues a thread that *)
(* was deleted and created again: StaleWaits says that such a client waits *)
(* for a snapshot. NothingMissing and MarkerTrue need the path of every    *)
(* event: Fed says what the subscription has still to send and behind      *)
(* what, Followed that each chunk received follows on those before it,     *)
(* SnapshotsAhead that a snapshot takes nothing back, PairsComplete what   *)
(* shown and cache hold.                                                   *)
(***************************************************************************)
EXTENDS ThreadSubscriptionProofs

-----------------------------------------------------------------------------
(***************************************************************************)
(* Order: a pair of the thread that exists holds its events in the order   *)
(* of the log.                                                             *)
(***************************************************************************)
Ordered(pair) == Increasing(pair.thread) /\ Elements(pair.thread) \subseteq Since(pair.seq)

(* The client shows a thread that was deleted and created again since.     *)
Stale == client.pc # "away" /\ Exists /\ shown.has /\ ~Current(shown.seq)

(* A client that shows a thread which was deleted and created again waits  *)
(* for a snapshot: the next chunk is one, or none has come and the         *)
(* subscription will not be served by a replay.                            *)
StaleWaits ==
    Stale => IF inbox = << >>
             THEN /\ sub.pc \in {"none", "reading", "snapshot", "failed"}
                  /\ sub.pc = "reading" => sub.after = cursor
             ELSE SnapshotOf(Head(inbox)) # {}

PairsOrdered == \A pair \in {shown, cache} : OfThisThread(pair) => Ordered(pair)

Order == StaleWaits /\ PairsOrdered

LEMMA OfThisThreadFacts ==
    ASSUME NEW pair
    PROVE  OfThisThread(pair) <=> pair.has /\ Exists /\ Current(pair.seq)
BY DEF OfThisThread, Current

(* Steps that change neither the log nor a pair, seen from the server.     *)
LEMMA ServedOrder ==
    ASSUME Order, UNCHANGED <<log, client, cursor, shown, cache>>,
           \/ /\ inbox' = inbox
              /\ Stale /\ inbox = << >> =>
                    /\ sub'.pc \in {"none", "reading", "snapshot", "failed"}
                    /\ sub'.pc = "reading" => sub'.after = cursor
           \/ /\ inbox # << >> => Head(inbox') = Head(inbox)
              /\ inbox' # << >>
              /\ Stale /\ inbox = << >> => SnapshotOf(Head(inbox')) # {}
    PROVE  Order'
<1>1. PairsOrdered'
  BY DEF Order, PairsOrdered, OfThisThread, Exists, Ordered, Since
<1>2. Stale' = Stale
  BY DEF Stale, Exists, Current
<1>3. StaleWaits'
  BY <1>2 DEF Order, StaleWaits, SnapshotOf
<1> QED
  BY <1>1, <1>3 DEF Order

(* The same, seen from the client.                                         *)
LEMMA AskedOrder ==
    ASSUME Order, UNCHANGED <<log, inbox, cursor, shown, cache>>, client.pc # "away",
           Stale /\ inbox = << >> =>
                    /\ sub'.pc \in {"none", "reading", "snapshot", "failed"}
                    /\ sub'.pc = "reading" => sub'.after = cursor
    PROVE  Order'
<1>1. PairsOrdered'
  BY DEF Order, PairsOrdered, OfThisThread, Exists, Ordered, Since
<1>2. Stale' => Stale
  BY DEF Stale, Exists, Current
<1>3. StaleWaits'
  BY <1>2 DEF Order, StaleWaits, SnapshotOf
<1> QED
  BY <1>1, <1>3 DEF Order

LEMMA BufferOrder == ASSUME Shape, Order, Buffering \/ Acknowledge PROVE Order'
<1>1. Sound(sub) /\ TypeOK
  BY SoundNow DEF Shape
<1>2. sub \in Subs /\ Buffered(sub)
  BY <1>1 DEF Sound
<1>3. UNCHANGED <<log, inbox, client, cursor, shown, cache>>
  BY DEF Buffering, Intake, FlushWindow, Acknowledge, view
<1>4. SameReading(sub, sub')
  <2>1. CASE Intake
    <3> DEFINE n == sub.pulled + 1
               p == Pulled(sub)
    <3>1. sub' = IF Detail(n) THEN Offer(p, n) ELSE p
      BY <2>1 DEF Intake, Pulled, PulledTo
    <3>2. Sound(p) /\ NextTaken(p, n) /\ SameReading(sub, p)
      BY <1>1, <2>1, PulledFacts DEF Intake
    <3> HIDE DEF n, p
    <3>3. SameReading(p, Offer(p, n))
      BY <3>2, OfferFacts DEF Sound
    <3> QED
      BY <3>1, <3>2, <3>3 DEF SameReading
  <2>2. CASE FlushWindow
    BY <1>2, <2>2, FlushFacts DEF FlushWindow
  <2>3. CASE Acknowledge
    BY <1>2, <2>3 DEF Acknowledge, SameReading, Subs
  <2> QED
    BY <2>1, <2>2, <2>3 DEF Buffering
<1>5. Stale /\ inbox = << >> => /\ sub'.pc \in {"none", "reading", "snapshot", "failed"}
                                /\ sub'.pc = "reading" => sub'.after = cursor
  BY <1>4 DEF Order, StaleWaits, SameReading
<1> QED
  BY <1>3, <1>5, ServedOrder

(* The range of a stale client holds the creation it has not seen: the     *)
(* read model that shows the thread holds it.                              *)
LEMMA MeasureOrder == ASSUME Shape, Order, Measure PROVE Order'
<1>1. TypeOK
  BY DEF Shape
<1>2. sub.pc = "reading" /\ UNCHANGED <<log, inbox, client, cursor, shown, cache>>
  BY <1>1, MeasureFacts
<1>3. PICK pc \in {"catchUp", "snapshot"}, rest \in Seq(Nat), fallback \in BOOLEAN :
         /\ sub' = Read(sub, pc, NoCursor, rest, fallback, head)
         /\ pc = "catchUp" => \A n \in (sub.after + 1)..head : log[n] # "created"
  BY <1>1, MeasureFacts
<1>4. sub \in Subs /\ head \in Nat /\ Len(log) \in Nat /\ shown \in Pairs /\ shown.seq \in Nat
  BY <1>1, TypeFacts, PairFacts
<1>5. sub'.pc = pc
  BY <1>3, <1>4 DEF Read, Subs
<1>6. ASSUME Stale, inbox = << >>
      PROVE  pc = "snapshot"
  <2>1. sub.after = cursor /\ cursor = shown.seq
    BY <1>2, <1>6 DEF Order, StaleWaits, Shape, Places
  <2>2. Current(head) /\ ~Current(shown.seq)
    BY <1>6 DEF Stale, Shape, Places
  <2>3. PICK m \in (shown.seq + 1)..Len(log) : log[m] = "created"
    BY <2>2 DEF Current
  <2>4. m <= head
    BY <1>4, <2>2, <2>3 DEF Current
  <2>5. m \in (sub.after + 1)..head
    BY <1>4, <2>1, <2>3, <2>4
  <2> QED
    BY <1>3, <2>3, <2>5
<1> QED
  BY <1>2, <1>5, <1>6, ServedOrder

LEMMA ServeOrder == ASSUME Shape, Order, Serving PROVE Order'
<1>1. Sound(sub) /\ TypeOK
  BY SoundNow DEF Shape
<1>2. sub \in Subs /\ inbox \in Seq(Seq(Items)) /\ Len(log) \in Nat
  BY <1>1, TypeFacts
<1>3. CASE ReadSnapshot
  <2> DEFINE chunk == <<Snapshot(Len(log))>>
  <2>1. /\ UNCHANGED <<log, client, cursor, shown, cache>>
        /\ inbox' = Append(inbox, chunk)
    BY <1>3 DEF ReadSnapshot, Send
  <2>2. chunk \in Seq(Items) /\ SnapshotOf(chunk) # {}
    <3>1. Snapshot(Len(log)) \in Items /\ Snapshot(Len(log)).is = "snapshot"
      BY <1>2 DEF Snapshot, Items
    <3>2. Len(chunk) = 1 /\ chunk[1] = Snapshot(Len(log)) /\ chunk \in Seq(Items)
      BY <3>1
    <3>3. 1 \in SnapshotOf(chunk)
      BY <3>1, <3>2 DEF SnapshotOf
    <3> QED
      BY <3>2, <3>3
  <2> HIDE DEF chunk
  <2>3. /\ inbox' # << >>
        /\ inbox # << >> => Head(inbox') = Head(inbox)
        /\ inbox = << >> => Head(inbox') = chunk
    BY <1>2, <2>1, <2>2, AppendFacts, SMTT(30)
  <2> QED
    BY <2>1, <2>2, <2>3, ServedOrder
<1>4. CASE SnapshotMissing
  <2>1. UNCHANGED <<log, inbox, client, cursor, shown, cache>> /\ ~Exists
    BY <1>4 DEF SnapshotMissing, view
  <2> QED
    BY <2>1, ServedOrder DEF Stale
<1>5. ASSUME sub.pc \in {"catchUp", "live"}, NEW chunk \in Seq(Items), inbox' = Append(inbox, chunk),
             UNCHANGED <<log, client, cursor, shown, cache>>
      PROVE  Order'
  <2>1. /\ inbox' # << >>
        /\ inbox # << >> => Head(inbox') = Head(inbox)
    BY <1>2, <1>5, AppendFacts
  <2>2. ~(Stale /\ inbox = << >>)
    BY <1>5 DEF Order, StaleWaits
  <2> QED
    BY <1>5, <2>1, <2>2, ServedOrder
<1>6. CASE CatchUp
  <2>1. PICK k \in 1..Len(sub.rest) :
           LET chunk == Events(SubSeq(sub.rest, 1, k)) IN
           /\ sub.pc = "catchUp"
           /\ chunk \in Seq(Items)
           /\ inbox' = Append(inbox, chunk)
           /\ UNCHANGED <<log, client, cursor, shown, cache>>
    BY <1>6, CatchUpFacts
  <2> QED
    BY <1>5, <2>1
<1>7. CASE Deliver
  <2>1. /\ sub.pc = "live" /\ inbox' = Append(inbox, sub.output)
        /\ UNCHANGED <<log, client, cursor, shown, cache>>
    BY <1>7 DEF Deliver, Send
  <2>2. sub.output \in Seq(Items)
    BY <1>2 DEF Subs
  <2> QED
    BY <1>5, <2>1, <2>2
<1>8. CASE OfferMarker
  <2>1. UNCHANGED <<log, inbox, client, cursor, shown, cache>> /\ sub.pc = "catchUp"
    BY <1>8 DEF OfferMarker, view
  <2>2. ~(Stale /\ inbox = << >>)
    BY <2>1 DEF Order, StaleWaits
  <2> QED
    BY <2>1, <2>2, ServedOrder
<1> QED
  BY <1>3, <1>4, <1>6, <1>7, <1>8, MeasureOrder DEF Serving

LEMMA AskOrder ==
    ASSUME Shape, Order, StreamFails \/ MakeInput \/ LoadHttpNothing \/ Disconnect \/ Resubscribe
    PROVE  Order'
<1>1. TypeOK /\ cursor \in Nat /\ published \in Nat /\ shown.has \in BOOLEAN
  BY TypeFacts, PairFacts DEF Shape
<1>2. client.pc # "away"
  BY DEF Shape, Places, StreamFails, MakeInput, LoadHttpNothing, Disconnect, Resubscribe, NoSub
<1>3. UNCHANGED <<log, inbox, cursor, shown, cache>>
  BY DEF StreamFails, MakeInput, LoadHttpNothing, Disconnect, Resubscribe
<1>4. Stale => \/ sub' = NoSub
               \/ sub' = Attached(cursor)
  BY DEF Stale, StreamFails, MakeInput, LoadHttpNothing, Disconnect, Resubscribe
<1>5. NoSub.pc = "none" /\ Attached(cursor).pc = "reading" /\ Attached(cursor).after = cursor
  BY <1>1, NoSubFacts
<1> QED
  BY <1>2, <1>3, <1>4, <1>5, AskedOrder

LEMMA EngineOrder == ASSUME Order, UpdateReadModel \/ Publish PROVE Order'
<1>1. UNCHANGED <<log, sub, inbox, client, cursor, shown, cache>>
  BY DEF UpdateReadModel, Publish, view
<1> QED
  BY <1>1 DEF Order, StaleWaits, PairsOrdered, Stale, OfThisThread, Exists, Ordered, Since,
     Current,
              SnapshotOf

(* A commit that ends with a thread there did not create it under a        *)
(* client, and a pair does not reach a creation behind it.                 *)
LEMMA ThreadBefore ==
    ASSUME TypeOK, NEW kind \in Kinds, Commit(kind)
    PROVE  /\ kind # "created" /\ Exists' => Exists
           /\ \A n \in 0..Len(log) : Current(n)' => Current(n) /\ kind # "created"
           /\ \A n \in 0..Len(log) : kind # "created" /\ Current(n) => Current(n)'
           /\ \A n \in 0..Len(log) : Since(n)' = Since(n)
<1>1. Len(log) \in Nat
  BY TypeFacts
<1>2. /\ Len(log') = Len(log) + 1
      /\ \A n \in 1..Len(log) : log'[n] = log[n]
      /\ log'[Len(log) + 1] = kind
  BY CommitFacts
<1>3. ASSUME kind # "created", Exists'
      PROVE  Exists
  <2>1. ASSUME NEW d \in 1..Len(log), log[d] = "deleted"
        PROVE  \E c \in d..Len(log) : log[c] = "created"
    <3>1. d \in 1..Len(log') /\ log'[d] = "deleted"
      BY <1>1, <1>2, <2>1
    <3>2. PICK c \in d..Len(log') : log'[c] = "created"
      BY <1>3, <3>1 DEF Exists
    <3>3. c # Len(log) + 1
      BY <1>2, <1>3, <3>2
    <3>4. c \in d..Len(log) /\ c \in 1..Len(log)
      BY <1>1, <1>2, <3>2, <3>3
    <3> QED
      BY <1>2, <3>2, <3>4
  <2> QED
    BY <2>1 DEF Exists
<1>4. ASSUME NEW n \in 0..Len(log), Current(n)'
      PROVE  Current(n) /\ kind # "created"
  <2>0. \A m \in (n + 1)..Len(log') : log'[m] # "created"
    BY <1>4 DEF Current
  <2>1. Len(log) + 1 \in (n + 1)..Len(log')
    BY <1>1, <1>2
  <2>2. \A m \in (n + 1)..Len(log) : m \in (n + 1)..Len(log') /\ m \in 1..Len(log)
    BY <1>1, <1>2
  <2> QED
    BY <1>2, <2>0, <2>1, <2>2 DEF Current
<1>5. ASSUME NEW n \in 0..Len(log), kind # "created", Current(n)
      PROVE  Current(n)'
  <2>1. ASSUME NEW m \in (n + 1)..Len(log')
        PROVE  log'[m] # "created"
    <3>1. m = Len(log) + 1 \/ (m \in (n + 1)..Len(log) /\ m \in 1..Len(log))
      BY <1>1, <1>2
    <3> QED
      BY <1>2, <1>5, <3>1 DEF Current
  <2> QED
    BY <2>1 DEF Current
<1>6. ASSUME NEW n \in 0..Len(log)
      PROVE  Since(n)' = Since(n)
  <2>1. \A k \in 1..n : \A b \in k..n : b \in 1..Len(log)
    BY <1>1
  <2>2. \A k \in 1..n : \A b \in k..n : log'[b] = log[b]
    BY <1>2, <2>1
  <2> QED
    BY <2>2 DEF Since
<1> QED
  BY <1>3, <1>4, <1>5, <1>6

LEMMA CommitOrder == ASSUME Shape, Order, NEW kind \in Kinds, Commit(kind) PROVE Order'
<1>1. /\ TypeOK /\ Len(log) \in Nat /\ shown \in Pairs /\ cache \in Pairs
      /\ shown.seq \in 0..Len(log) /\ cache.seq \in 0..Len(log)
  <2>1. TypeOK /\ Len(log) \in Nat /\ shown \in Pairs /\ cache \in Pairs
    BY TypeFacts DEF Shape
  <2>2. shown.seq \in Nat /\ cache.seq \in Nat
    BY <2>1, PairFacts
  <2> QED
    BY <2>1, <2>2 DEF Shape, Places
<1>2. /\ kind = "created" => client.pc = "away"
      /\ UNCHANGED <<sub, inbox, client, cursor, shown, cache>>
  BY <1>1, CommitFacts
<1>3. /\ kind # "created" /\ Exists' => Exists
      /\ \A n \in 0..Len(log) : Current(n)' => Current(n) /\ kind # "created"
      /\ \A n \in 0..Len(log) : kind # "created" /\ Current(n) => Current(n)'
      /\ \A n \in 0..Len(log) : Since(n)' = Since(n)
  BY <1>1, ThreadBefore
<1>4. StaleWaits'
  <2>1. Stale' => client.pc # "away" /\ Exists' /\ shown.has /\ ~Current(shown.seq)'
    BY <1>2 DEF Stale, Current
  <2>2. Stale' => kind # "created" /\ Exists /\ ~Current(shown.seq)
    BY <1>1, <1>2, <1>3, <2>1
  <2>3. Stale' => Stale
    BY <2>1, <2>2 DEF Stale
  <2> QED
    BY <1>2, <2>3 DEF Order, StaleWaits, SnapshotOf
<1>5. PairsOrdered'
  <2>1. ASSUME NEW pair \in {shown, cache}, OfThisThread(pair)'
        PROVE  Ordered(pair)'
    <3>1. pair.seq \in 0..Len(log) /\ pair' = pair
      BY <1>1, <1>2
    <3>2. pair.has /\ Exists' /\ Current(pair.seq)'
      BY <1>2, <2>1, <3>1 DEF OfThisThread, Current
    <3>3. Current(pair.seq) /\ kind # "created"
      BY <1>3, <3>1, <3>2
    <3>4. OfThisThread(pair)
      BY <1>3, <3>2, <3>3, OfThisThreadFacts
    <3>5. Ordered(pair)
      BY <2>1, <3>4 DEF Order, PairsOrdered
    <3> QED
      BY <1>3, <3>1, <3>5 DEF Ordered, Since, Increasing, Elements
  <2> QED
    BY <1>2, <2>1 DEF PairsOrdered
<1> QED
  BY <1>4, <1>5 DEF Order

(* A list behind another.                                                  *)
LEMMA JoinLists ==
    ASSUME NEW a \in Seq(Nat), NEW b \in Seq(Nat), Increasing(a), Increasing(b),
           \A i \in Elements(a) : \A j \in Elements(b) : i < j
    PROVE  /\ a \o b \in Seq(Nat)
           /\ Increasing(a \o b)
           /\ Elements(a \o b) = Elements(a) \cup Elements(b)
<1> DEFINE c == a \o b
<1>1. c \in Seq(Nat) /\ Len(c) = Len(a) + Len(b) /\ Len(a) \in Nat /\ Len(b) \in Nat
  OBVIOUS
<1>2. \A k \in 1..Len(a) : c[k] = a[k]
  OBVIOUS
<1>3. \A k \in 1..Len(b) : c[Len(a) + k] = b[k]
  OBVIOUS
<1> HIDE DEF c
<1>4. ASSUME NEW k \in 1..Len(c)
      PROVE  k \in 1..Len(a) \/ \E j \in 1..Len(b) : k = Len(a) + j /\ c[k] = b[j]
  <2>1. k \notin 1..Len(a) => (k - Len(a)) \in 1..Len(b) /\ k = Len(a) + (k - Len(a))
    BY <1>1
  <2> QED
    BY <1>3, <2>1
<1>5. \A i \in 1..Len(a) : a[i] \in Elements(a)
  BY DEF Elements
<1>6. \A j \in 1..Len(b) : b[j] \in Elements(b)
  BY DEF Elements
<1>7. Increasing(c)
  <2>1. ASSUME NEW k \in 1..Len(c), NEW j \in 1..(k - 1)
        PROVE  c[j] < c[k]
    <3>0. j \in 1..Len(c) /\ j < k
      BY <1>1
    <3>1. CASE k \in 1..Len(a)
      <4>1. j \in 1..Len(a)
        BY <1>1, <3>1
      <4> QED
        BY <1>2, <3>1, <4>1 DEF Increasing
    <3>2. CASE k \notin 1..Len(a)
      <4>1. PICK m \in 1..Len(b) : k = Len(a) + m /\ c[k] = b[m]
        BY <1>4, <3>2
      <4>2. CASE j \in 1..Len(a)
        BY <1>2, <1>5, <1>6, <4>1, <4>2
      <4>3. CASE j \notin 1..Len(a)
        <5>1. PICK i \in 1..Len(b) : j = Len(a) + i /\ c[j] = b[i]
          BY <1>4, <3>0, <4>3
        <5>2. i \in 1..(m - 1)
          BY <1>1, <3>0, <4>1, <5>1
        <5> QED
          BY <4>1, <5>1, <5>2 DEF Increasing
      <4> QED
        BY <4>2, <4>3
    <3> QED
      BY <3>1, <3>2
  <2> QED
    BY <2>1 DEF Increasing
<1>8. Elements(c) = Elements(a) \cup Elements(b)
  <2>1. ASSUME NEW n \in Elements(c)
        PROVE  n \in Elements(a) \cup Elements(b)
    <3>1. PICK k \in 1..Len(c) : c[k] = n
      BY DEF Elements
    <3> QED
      BY <1>2, <1>4, <1>5, <1>6, <3>1
  <2>2. ASSUME NEW n \in Elements(a)
        PROVE  n \in Elements(c)
    <3>1. PICK k \in 1..Len(a) : a[k] = n
      BY DEF Elements
    <3>2. k \in 1..Len(c)
      BY <1>1
    <3> QED
      BY <1>2, <3>1, <3>2 DEF Elements
  <2>3. ASSUME NEW n \in Elements(b)
        PROVE  n \in Elements(c)
    <3>1. PICK k \in 1..Len(b) : b[k] = n
      BY DEF Elements
    <3>2. Len(a) + k \in 1..Len(c)
      BY <1>1
    <3> QED
      BY <1>3, <3>1, <3>2 DEF Elements
  <2> QED
    BY <2>1, <2>2, <2>3
<1> QED
  BY <1>1, <1>7, <1>8 DEF c

(* Events that come after a pair of the current thread extend it.          *)
LEMMA ExtendedOrdered ==
    ASSUME TypeOK, NEW pair \in Pairs, Ordered(pair), Current(pair.seq),
           NEW m \in Nat, pair.seq <= m, m <= Len(log),
           NEW t \in Seq(Nat), Increasing(t), Elements(t) \subseteq (pair.seq + 1)..m
    PROVE  Ordered(Extended(pair, t, m))
<1>1. pair.seq \in Nat /\ pair.thread \in Seq(Nat) /\ Len(log) \in Nat
  BY TypeFacts, PairFacts
<1>2. \A k \in Since(pair.seq) : k \in 1..pair.seq
  BY DEF Since
<1>3. Elements(pair.thread) \subseteq Since(pair.seq) /\ Increasing(pair.thread)
  BY DEF Ordered
<1>4. \A i \in Elements(pair.thread) : \A j \in Elements(t) : i < j
  <2>1. ASSUME NEW i \in Elements(pair.thread), NEW j \in Elements(t)
        PROVE  i < j
    <3>1. i \in 1..pair.seq /\ j \in (pair.seq + 1)..m
      BY <1>2, <1>3
    <3> QED
      BY <1>1, <3>1
  <2> QED
    BY <2>1
<1>5. /\ Increasing(pair.thread \o t)
      /\ Elements(pair.thread \o t) = Elements(pair.thread) \cup Elements(t)
  BY <1>1, <1>3, <1>4, JoinLists
<1>6. \A b \in (pair.seq + 1)..m : log[b] # "created"
  <2>1. \A b \in (pair.seq + 1)..m : b \in (pair.seq + 1)..Len(log)
    BY <1>1
  <2> QED
    BY <2>1 DEF Current
<1>7. Since(pair.seq) \subseteq Since(m)
  <2>1. ASSUME NEW k \in Since(pair.seq)
        PROVE  k \in Since(m)
    <3>1. k \in 1..pair.seq /\ \A b \in k..pair.seq : log[b] # "created"
      BY DEF Since
    <3>2. \A b \in k..m : b \in k..pair.seq \/ b \in (pair.seq + 1)..m
      BY <1>1, <3>1
    <3>3. k \in 1..m
      BY <1>1, <3>1
    <3> QED
      BY <1>6, <3>1, <3>2, <3>3 DEF Since
  <2> QED
    BY <2>1
<1>8. (pair.seq + 1)..m \subseteq Since(m)
  <2>1. ASSUME NEW k \in (pair.seq + 1)..m
        PROVE  k \in Since(m)
    <3>1. k \in 1..m /\ \A b \in k..m : b \in (pair.seq + 1)..m
      BY <1>1
    <3> QED
      BY <1>6, <3>1 DEF Since
  <2> QED
    BY <2>1
<1>9. Extended(pair, t, m).thread = pair.thread \o t /\ Extended(pair, t, m).seq = m
  BY ExtendedFacts
<1>10. Elements(pair.thread \o t) \subseteq Since(m)
  BY <1>3, <1>5, <1>7, <1>8
<1> QED
  BY <1>5, <1>9, <1>10 DEF Ordered

LEMMA PrefixOrdered ==
    ASSUME NEW n \in Nat
    PROVE  Ordered(Prefix(n))
<1>1. /\ Prefix(n).seq = n
      /\ Increasing(Prefix(n).thread)
      /\ Elements(Prefix(n).thread) = {k \in Since(n) : Detail(k)}
  BY PrefixFacts
<1> QED
  BY <1>1 DEF Ordered

(* The first events of a list are those up to one of its events.           *)
LEMMA FirstPart ==
    ASSUME NEW s \in Seq(Nat), Increasing(s), NEW k \in 1..Len(s)
    PROVE  /\ SubSeq(s, 1, k) \in Seq(Nat)
           /\ Increasing(SubSeq(s, 1, k))
           /\ Elements(SubSeq(s, 1, k)) = {n \in Elements(s) : n <= s[k]}
<1> DEFINE t == SubSeq(s, 1, k)
<1>1. 1 \in 1..(Len(s) + 1) /\ k \in 0..Len(s) /\ 1 <= k + 1 /\ Len(s) \in Nat
  OBVIOUS
<1>2. /\ t \in Seq(Nat) /\ Len(t) = k - 1 + 1
      /\ \A i \in 1..Len(t) : t[i] = s[1 + i - 1] /\ 1 + i - 1 \in 1..Len(s)
      /\ Increasing(t)
  BY <1>1, SubSeqFacts
<1> HIDE DEF t
<1>3. Len(t) = k /\ \A i \in 1..k : t[i] = s[i]
  BY <1>1, <1>2
<1>4. \A i \in 1..Len(s) : s[i] \in Nat
  OBVIOUS
<1>5. \A i \in 1..Len(s) : i <= k => s[i] <= s[k]
  <2>1. ASSUME NEW i \in 1..Len(s), i <= k
        PROVE  s[i] <= s[k]
    <3>1. i = k \/ i \in 1..(k - 1)
      BY <2>1
    <3> QED
      BY <1>4, <3>1 DEF Increasing
  <2> QED
    BY <2>1
<1>6. \A i \in 1..Len(s) : s[i] <= s[k] => i <= k
  <2>1. ASSUME NEW i \in 1..Len(s), ~(i <= k)
        PROVE  ~(s[i] <= s[k])
    <3>1. k \in 1..(i - 1)
      BY <2>1
    <3> QED
      BY <1>4, <3>1 DEF Increasing
  <2> QED
    BY <2>1
<1>7. Elements(t) = {n \in Elements(s) : n <= s[k]}
  <2>1. ASSUME NEW n \in Elements(t)
        PROVE  n \in Elements(s) /\ n <= s[k]
    <3>1. PICK i \in 1..k : t[i] = n
      BY <1>3 DEF Elements
    <3>2. i \in 1..Len(s) /\ i <= k /\ s[i] = n
      BY <1>1, <1>3, <3>1
    <3> QED
      BY <1>5, <3>2 DEF Elements
  <2>2. ASSUME NEW n \in Elements(s), n <= s[k]
        PROVE  n \in Elements(t)
    <3>1. PICK i \in 1..Len(s) : s[i] = n
      BY DEF Elements
    <3>2. i \in 1..k
      BY <1>1, <1>6, <2>2, <3>1
    <3> QED
      BY <1>3, <3>1, <3>2 DEF Elements
  <2> QED
    BY <2>1, <2>2
<1> QED
  BY <1>2, <1>7 DEF t

(* What the second half of an item makes of the thread and of the cache.   *)
LEMMA DataEffect ==
    ASSUME Shape, ApplyData
    PROVE  LET chunk == Head(inbox)
               new == NewEvents(chunk, shown.seq)
           IN  /\ SnapshotOf(chunk) # {} =>
                     /\ Len(chunk) = 1 /\ chunk[1].is = "snapshot" /\ chunk[1].seq = cursor
                     /\ Current(cursor)
                     /\ shown' = Prefix(cursor)
                     /\ cache' = cache \/ cache' = Prefix(cursor)
               /\ SnapshotOf(chunk) = {} =>
                     /\ shown.seq <= cursor
                     /\ new \in Seq(Nat) /\ Increasing(new)
                     /\ Elements(new) \subseteq (shown.seq + 1)..cursor
                     /\ \A i \in 1..Len(chunk) : chunk[i].is = "event" /\ chunk[i].seq > shown.seq
                           => chunk[i].seq \in Elements(new)
                     /\ \A n \in Elements(new) : \E i \in 1..Len(chunk) :
                           chunk[i].is = "event" /\ chunk[i].seq = n
                     /\ shown' = IF shown.has THEN Extended(shown, new, cursor)
                                 ELSE Moved(shown, cursor)
                     /\ \/ cache' = cache
                        \/ /\ shown.has
                           /\ \E k \in 1..Len(new) :
                                 cache' = Extended(shown, SubSeq(new, 1, k), new[k])
<1> DEFINE chunk == Head(inbox)
           new == NewEvents(chunk, shown.seq)
<1>1. /\ inbox # << >>
      /\ cursor = Reached(chunk, shown.seq) /\ cursor \in Nat
      /\ shown' = Applied(chunk, shown.seq)
      /\ cache' = cache \/ (cache' \in Passed(chunk, shown.seq) /\ cache'.has)
  BY DataFacts
<1>2. shown \in Pairs /\ shown.seq \in Nat
  BY TypeFacts, PairFacts DEF Shape
<1>3. chunk \in Seq(Items) /\ ChunkOK(chunk) /\ Sorted(chunk) /\ Whole(chunk)
  BY <1>1, HeadFacts
<1> HIDE DEF chunk
<1>4. CASE SnapshotOf(chunk) # {}
  <2>1. Len(chunk) = 1 /\ chunk[1].is = "snapshot" /\ chunk[1].seq = cursor
    BY <1>1, <1>2, <1>3, <1>4, ReachedFacts
  <2>2. Current(cursor)
    <3>1. 1 \in SnapshotOf(chunk)
      BY <2>1 DEF SnapshotOf
    <3> QED
      BY <1>3, <2>1, <3>1 DEF ChunkOK
  <2>3. Applied(chunk, shown.seq) = Prefix(cursor)
    BY <1>4, <2>1 DEF Applied
  <2>4. Passed(chunk, shown.seq) = {Prefix(cursor)}
    BY <1>4, <2>3 DEF Passed
  <2> QED
    BY <1>1, <1>4, <2>1, <2>2, <2>3, <2>4 DEF chunk
<1>5. CASE SnapshotOf(chunk) = {}
  <2>1. /\ new \in Seq(Nat)
        /\ \A k \in 1..Len(new) :
              \E i \in 1..Len(chunk) :
                 chunk[i].is = "event" /\ chunk[i].seq > shown.seq /\ chunk[i].seq = new[k]
        /\ \A i \in 1..Len(chunk) : chunk[i].is = "event" /\ chunk[i].seq > shown.seq
              => chunk[i].seq \in Elements(new)
        /\ Increasing(new)
    BY <1>2, <1>3, NewEventsFacts
  <2>2. /\ shown.seq <= cursor
        /\ \A i \in 1..Len(chunk) : chunk[i].is = "event" => chunk[i].seq <= cursor
    BY <1>1, <1>2, <1>3, <1>5, ReachedFacts
  <2>3. Applied(chunk, shown.seq) = IF shown.has THEN Extended(shown, new, cursor)
                                    ELSE Moved(shown, cursor)
    BY <1>5 DEF Applied, Extended, Moved
  <2>4. Passed(chunk, shown.seq) = {Extended(shown, SubSeq(new, 1, k), new[k]) : k \in 1..Len(new)}
    BY <1>5 DEF Passed, Extended
  <2> HIDE DEF new
  <2>5. ASSUME NEW n \in Elements(new)
        PROVE  /\ n \in (shown.seq + 1)..cursor
               /\ \E i \in 1..Len(chunk) : chunk[i].is = "event" /\ chunk[i].seq = n
    <3>1. PICK k \in 1..Len(new) : new[k] = n
      BY DEF Elements
    <3>2. PICK i \in 1..Len(chunk) :
             chunk[i].is = "event" /\ chunk[i].seq > shown.seq /\ chunk[i].seq = n
      BY <2>1, <3>1
    <3>3. chunk[i].seq \in Nat
      BY <1>3, ItemFacts
    <3> QED
      BY <1>1, <1>2, <2>2, <3>2, <3>3
  <2>6. \/ cache' = cache
        \/ /\ shown.has
           /\ \E k \in 1..Len(new) : cache' = Extended(shown, SubSeq(new, 1, k), new[k])
    <3>1. CASE cache' \in Passed(chunk, shown.seq) /\ cache'.has
      <4>1. PICK k \in 1..Len(new) : cache' = Extended(shown, SubSeq(new, 1, k), new[k])
        BY <2>4, <3>1
      <4>2. SubSeq(new, 1, k) \in Seq(Nat) /\ new[k] \in Nat
        BY <2>1, FirstPart
      <4>3. cache'.has = shown.has
        BY <1>2, <4>1, <4>2, ExtendedFacts
      <4> QED
        BY <3>1, <4>1, <4>3
    <3> QED
      BY <1>1, <3>1
  <2> QED
    BY <1>1, <1>5, <2>1, <2>2, <2>3, <2>5, <2>6 DEF chunk, new
<1> QED
  BY <1>4, <1>5

LEMMA DataOrder == ASSUME Shape, Order, ApplyData PROVE Order'
<1> DEFINE chunk == Head(inbox)
           new == NewEvents(chunk, shown.seq)
<1>1. /\ TypeOK /\ Len(log) \in Nat /\ shown \in Pairs /\ shown.seq \in Nat
  BY TypeFacts, PairFacts DEF Shape
<1>2. /\ UNCHANGED <<log, sub, cursor>>
      /\ inbox # << >> /\ client.pc # "away"
      /\ cursor \in Nat /\ cursor <= Len(log)
      /\ client'.pc = client.pc
      /\ shown' \in Pairs
  BY DataFacts
<1>3. OfThisThread(cache) => Ordered(cache)
  BY DEF Order, PairsOrdered
<1>4. CASE SnapshotOf(chunk) # {}
  <2>1. /\ Current(cursor) /\ shown' = Prefix(cursor)
        /\ cache' = cache \/ cache' = Prefix(cursor)
    BY <1>4, DataEffect
  <2>2. Ordered(Prefix(cursor)) /\ Prefix(cursor).seq = cursor
    BY <1>2, PrefixOrdered, PrefixFacts
  <2>3. StaleWaits'
    BY <1>2, <2>1, <2>2 DEF StaleWaits, Stale, Current
  <2>4. PairsOrdered'
    BY <1>2, <1>3, <2>1, <2>2 DEF PairsOrdered, OfThisThread, Exists, Ordered, Since
  <2> QED
    BY <2>3, <2>4 DEF Order
<1>5. CASE SnapshotOf(chunk) = {}
  <2>1. /\ shown.seq <= cursor
        /\ new \in Seq(Nat) /\ Increasing(new)
        /\ Elements(new) \subseteq (shown.seq + 1)..cursor
        /\ shown' = IF shown.has THEN Extended(shown, new, cursor) ELSE Moved(shown, cursor)
        /\ \/ cache' = cache
           \/ /\ shown.has
              /\ \E k \in 1..Len(new) : cache' = Extended(shown, SubSeq(new, 1, k), new[k])
    BY <1>5, DataEffect
  <2> HIDE DEF new
  <2>2. ~Stale
    BY <1>2, <1>5 DEF Order, StaleWaits
  <2>3. Exists /\ shown.has => Current(shown.seq) /\ Ordered(shown)
    BY <1>2, <2>2, OfThisThreadFacts DEF Stale, Order, PairsOrdered
  <2>4. /\ shown'.has = shown.has /\ shown'.seq = cursor
    BY <1>1, <1>2, <2>1, ExtendedFacts, MovedFacts, ZenonT(30)
  <2>5. ASSUME NEW m \in Nat, Current(shown.seq), shown.seq <= m
        PROVE  Current(m)
    BY <1>1, <2>5 DEF Current
  <2>6. StaleWaits'
    <3>1. ~Stale'
      BY <1>2, <2>1, <2>3, <2>4, <2>5 DEF Stale, Exists, Current
    <3> QED
      BY <3>1 DEF StaleWaits
  <2>7. ASSUME OfThisThread(shown)'
        PROVE  Ordered(shown)'
    <3>1. shown.has /\ Exists
      BY <1>2, <2>4, <2>7 DEF OfThisThread, Exists
    <3>2. shown' = Extended(shown, new, cursor)
      BY <2>1, <3>1
    <3>3. Ordered(Extended(shown, new, cursor))
      BY <1>1, <1>2, <2>1, <2>3, <3>1, ExtendedOrdered
    <3> QED
      BY <1>2, <3>2, <3>3 DEF Ordered, Since
  <2>8. ASSUME OfThisThread(cache)'
        PROVE  Ordered(cache)'
    <3>1. CASE cache' = cache
      BY <1>2, <1>3, <2>8, <3>1 DEF OfThisThread, Exists, Ordered, Since
    <3>2. CASE cache' # cache
      <4>1. PICK k \in 1..Len(new) : cache' = Extended(shown, SubSeq(new, 1, k), new[k])
        BY <2>1, <3>2
      <4>2. shown.has /\ Exists
        BY <1>2, <2>1, <2>8, <3>2 DEF OfThisThread, Exists
      <4>3. /\ SubSeq(new, 1, k) \in Seq(Nat)
            /\ Increasing(SubSeq(new, 1, k))
            /\ Elements(SubSeq(new, 1, k)) = {n \in Elements(new) : n <= new[k]}
        BY <2>1, FirstPart
      <4>4. new[k] \in (shown.seq + 1)..cursor
        BY <2>1 DEF Elements
      <4>5. new[k] \in Nat /\ shown.seq <= new[k] /\ new[k] <= Len(log)
        BY <1>1, <1>2, <4>4
      <4>6. Elements(SubSeq(new, 1, k)) \subseteq (shown.seq + 1)..new[k]
        BY <1>1, <1>2, <2>1, <4>3, <4>5
      <4>7. Ordered(Extended(shown, SubSeq(new, 1, k), new[k]))
        BY <1>1, <2>3, <4>2, <4>3, <4>5, <4>6, ExtendedOrdered
      <4> QED
        BY <1>2, <4>1, <4>7 DEF Ordered, Since
    <3> QED
      BY <3>1, <3>2
  <2>9. PairsOrdered'
    BY <2>7, <2>8 DEF PairsOrdered
  <2> QED
    BY <2>6, <2>9 DEF Order
<1> QED
  BY <1>4, <1>5

LEMMA LoadOrder == ASSUME Shape, Order, LoadHttp PROVE Order'
<1>1. TypeOK /\ Len(log) \in Nat
  BY TypeFacts DEF Shape
<1>2. /\ UNCHANGED log
      /\ shown' = Prefix(Len(log)) /\ cache' = Saved({Prefix(Len(log))})
  BY DEF LoadHttp
<1>3. /\ Prefix(Len(log)) \in Pairs /\ Prefix(Len(log)).seq = Len(log) /\ Ordered(Prefix(Len(log)))
  BY <1>1, PrefixFacts, PrefixOrdered
<1>4. cache' = cache \/ cache' = Prefix(Len(log))
  BY <1>1, <1>2, <1>3, OneSaved
<1>5. Current(Len(log))
  BY <1>1 DEF Current
<1>6. StaleWaits'
  BY <1>2, <1>3, <1>5 DEF StaleWaits, Stale, Current
<1>7. PairsOrdered'
  BY <1>2, <1>3, <1>4 DEF Order, PairsOrdered, OfThisThread, Exists, Ordered, Since
<1> QED
  BY <1>6, <1>7 DEF Order

LEMMA SequenceOrder == ASSUME Shape, Order, ApplySequence PROVE Order'
<1>1. /\ UNCHANGED <<log, sub, inbox, shown, cache>>
      /\ inbox # << >> /\ client' = [client EXCEPT !.applying = TRUE]
  BY DEF ApplySequence, server
<1>2. client'.pc = client.pc
  BY <1>1, ClientFacts DEF Shape, Clients
<1>3. Stale' = Stale
  BY <1>1, <1>2 DEF Stale, Exists, Current
<1> QED
  BY <1>1, <1>3 DEF Order, StaleWaits, PairsOrdered, OfThisThread, Exists, Ordered, Since,
     SnapshotOf

LEMMA ViewOrder == ASSUME Shape, Order, Leave \/ Return PROVE Order'
<1>1. TypeOK /\ NoSub.pc = "none"
  BY NoSubFacts DEF Shape
<1>2. UNCHANGED log /\ {shown', cache'} \subseteq {shown, cache}
  BY <1>1, LeaveFacts, ReturnFacts
<1>3. PairsOrdered'
  BY <1>2 DEF Order, PairsOrdered, OfThisThread, Exists, Ordered, Since
<1>4. StaleWaits'
  <2>1. CASE Leave
    BY <1>1, <2>1, LeaveFacts DEF StaleWaits, Stale
  <2>2. CASE Return
    <3>1. client.pc = "away" /\ UNCHANGED <<sub, inbox>>
      BY <1>1, <2>2, ReturnFacts
    <3>2. sub = NoSub /\ inbox = << >>
      BY <3>1 DEF Shape, Places
    <3> QED
      BY <1>1, <3>1, <3>2 DEF StaleWaits
  <2> QED
    BY <2>1, <2>2
<1> QED
  BY <1>3, <1>4 DEF Order

LEMMA OrderKept == ASSUME Shape, Order, [Next]_vars PROVE Order'
<1>1. CASE UNCHANGED vars
  BY <1>1 DEF vars, Order, StaleWaits, PairsOrdered, Stale, OfThisThread, Exists, Ordered,
     Since,
              Current, SnapshotOf
<1>2. CASE Next
  <2>1. ASSUME NEW kind \in Kinds, Commit(kind) PROVE Order'
    BY <2>1, CommitOrder
  <2>2. CASE UpdateReadModel \/ Publish
    BY <2>2, EngineOrder
  <2>3. CASE Buffering \/ Acknowledge
    BY <2>3, BufferOrder
  <2>4. CASE Serving
    BY <2>4, ServeOrder
  <2>5. CASE Subscribing \/ Disconnect \/ Resubscribe
    BY <2>5, AskOrder, LoadOrder DEF Subscribing
  <2>6. CASE Applying
    BY <2>6, SequenceOrder, DataOrder DEF Applying
  <2>7. CASE Leave \/ Return
    BY <2>7, ViewOrder
  <2> QED
    BY <1>2, <2>1, <2>2, <2>3, <2>4, <2>5, <2>6, <2>7 DEF Next, Progress
<1> QED
  BY <1>1, <1>2

LEMMA InitOrder == ASSUME Init PROVE Order
BY DEF Init, Order, StaleWaits, PairsOrdered, Stale, OfThisThread, Nothing, Gone

(* An ordered pair, as the property says it.                               *)
LEMMA OrderedPairs == ASSUME Shape, Order PROVE AppliedInOrder
<1>1. ASSUME NEW pair \in {shown, cache}, OfThisThread(pair), NEW k \in 1..Len(pair.thread)
      PROVE  /\ pair.thread[k] \in Since(pair.seq)
             /\ \A j \in 1..(k - 1) : pair.thread[j] < pair.thread[k]
  <2>1. Ordered(pair)
    BY <1>1 DEF Order, PairsOrdered
  <2>2. pair.thread[k] \in Elements(pair.thread)
    BY DEF Elements
  <2> QED
    BY <2>1, <2>2 DEF Ordered, Increasing
<1> QED
  BY <1>1 DEF AppliedInOrder

(* What a client shows or has cached of a thread are events of one         *)
(* incarnation, each once and in the order of the log, although replays,   *)
(* snapshots and live delivery overlap and a re-created thread is resumed  *)
(* from an old cursor (applyItems' sequence filter, the replay's fallback  *)
(* to a snapshot).                                                         *)
THEOREM EventsInOrder == Spec => []AppliedInOrder
<1>1. Init => Shape /\ Order
  BY InitShape, InitOrder
<1>2. Shape /\ Order /\ [Next]_vars => (Shape /\ Order)'
  BY ShapeKept, OrderKept
<1>3. Shape /\ Order => AppliedInOrder
  BY OrderedPairs
<1> QED
  BY <1>1, <1>2, <1>3, PTL DEF Spec

-----------------------------------------------------------------------------
(***************************************************************************)
(* Completeness: nothing between the log and the client is skipped.        *)
(***************************************************************************)
(* A detail event that no later update makes unnecessary.                  *)
Needed(n) == Detail(n) /\ ~Superseded(n)

(* One of the first p items of a chunk takes the client to n.              *)
Reaches(chunk, p, n) == \E k \in 1..p : Data(chunk[k]) /\ chunk[k].seq >= n

Passes(chunk) == {n \in Nat : Reaches(chunk, Len(chunk), n)}

(* Behind the numbers of S, each event of a chunk follows on what came     *)
(* before it, and each marker comes after all it stands for.               *)
Gapless(chunk, S) ==
    \A k \in 1..Len(chunk) :
       /\ chunk[k].is = "event" =>
             \A n \in 1..(chunk[k].seq - 1) : Needed(n) => n \in S \/ Reaches(chunk, k - 1, n)
       /\ chunk[k].is = "synchronized" =>
             \A n \in 1..chunk[k].seq : Detail(n) => n \in S \/ Reaches(chunk, k - 1, n)

(* What the client is taken to by its thread and the chunks before the     *)
(* i-th, or by all chunks.                                                 *)
Before(i) ==
    {n \in Nat : n <= shown.seq \/ \E j \in 1..(i - 1) : Reaches(inbox[j], Len(inbox[j]), n)}
Known == Before(Len(inbox) + 1)

(* The buffer holds what was taken behind S, and no other event lies       *)
(* between its pending updates.                                            *)
Quiet(s) == \A x \in Elements(s.pending) : \A y \in x..s.pulled : log[y] # "text"

Taken(s, S) ==
    \A n \in 1..s.pulled : Detail(n) => n \in S \cup Passes(s.output) \cup Elements(s.pending)

Live(s, S) == Gapless(s.output, S) /\ Taken(s, S) /\ Quiet(s)

LEMMA LaterReaches ==
    ASSUME NEW chunk, NEW p \in Nat, NEW q \in Nat, p <= q, NEW n, Reaches(chunk, p, n)
    PROVE  Reaches(chunk, q, n)
<1>1. 1..p \subseteq 1..q
  OBVIOUS
<1> QED
  BY <1>1 DEF Reaches

LEMMA Wider ==
    ASSUME NEW chunk, NEW S, NEW T, S \subseteq T, Gapless(chunk, S)
    PROVE  Gapless(chunk, T)
BY DEF Gapless

LEMMA JoinReaches ==
    ASSUME NEW a \in Seq(Items), NEW b \in Seq(Items)
    PROVE  /\ Passes(a \o b) = Passes(a) \cup Passes(b)
           /\ \A p \in 0..Len(a) : \A n \in Nat : Reaches(a, p, n) => Reaches(a \o b, p, n)
           /\ \A p \in 0..Len(b) : \A n \in Nat :
                 Reaches(a, Len(a), n) \/ Reaches(b, p, n) => Reaches(a \o b, Len(a) + p, n)
<1> DEFINE c == a \o b
<1>1. /\ Len(c) = Len(a) + Len(b) /\ Len(a) \in Nat /\ Len(b) \in Nat
      /\ \A k \in 1..Len(a) : c[k] = a[k]
      /\ \A k \in 1..Len(b) : c[Len(a) + k] = b[k]
  OBVIOUS
<1> HIDE DEF c
<1>2. ASSUME NEW k \in 1..Len(c)
      PROVE  k \in 1..Len(a) \/ \E j \in 1..Len(b) : k = Len(a) + j /\ c[k] = b[j]
  <2>1. k \notin 1..Len(a) => (k - Len(a)) \in 1..Len(b) /\ k = Len(a) + (k - Len(a))
    BY <1>1
  <2> QED
    BY <1>1, <2>1
<1>3. ASSUME NEW p \in 0..Len(a), NEW n \in Nat, Reaches(a, p, n)
      PROVE  Reaches(c, p, n)
  <2>1. PICK k \in 1..p : Data(a[k]) /\ a[k].seq >= n
    BY <1>3 DEF Reaches
  <2>2. k \in 1..Len(a) /\ c[k] = a[k]
    BY <1>1
  <2> QED
    BY <2>1, <2>2 DEF Reaches
<1>4. ASSUME NEW p \in 0..Len(b), NEW n \in Nat, Reaches(a, Len(a), n) \/ Reaches(b, p, n)
      PROVE  Reaches(c, Len(a) + p, n)
  <2>1. CASE Reaches(a, Len(a), n)
    <3>1. PICK k \in 1..Len(a) : Data(a[k]) /\ a[k].seq >= n
      BY <2>1 DEF Reaches
    <3>2. k \in 1..(Len(a) + p) /\ c[k] = a[k]
      BY <1>1
    <3> QED
      BY <3>1, <3>2 DEF Reaches
  <2>2. CASE Reaches(b, p, n)
    <3>1. PICK k \in 1..p : Data(b[k]) /\ b[k].seq >= n
      BY <2>2 DEF Reaches
    <3>2. Len(a) + k \in 1..(Len(a) + p) /\ k \in 1..Len(b) /\ c[Len(a) + k] = b[k]
      BY <1>1
    <3> QED
      BY <3>1, <3>2 DEF Reaches
  <2> QED
    BY <1>4, <2>1, <2>2
<1>5. ASSUME NEW n \in Nat, Reaches(c, Len(c), n)
      PROVE  Reaches(a, Len(a), n) \/ Reaches(b, Len(b), n)
  <2>1. PICK k \in 1..Len(c) : Data(c[k]) /\ c[k].seq >= n
    BY <1>5 DEF Reaches
  <2>2. CASE k \in 1..Len(a)
    BY <1>1, <2>1, <2>2 DEF Reaches
  <2>3. CASE k \notin 1..Len(a)
    <3>1. PICK j \in 1..Len(b) : c[k] = b[j]
      BY <1>2, <2>3
    <3> QED
      BY <2>1, <3>1 DEF Reaches
  <2> QED
    BY <2>2, <2>3
<1>6. Passes(c) = Passes(a) \cup Passes(b)
  <2>1. ASSUME NEW n \in Nat
        PROVE  Reaches(c, Len(c), n) <=> Reaches(a, Len(a), n) \/ Reaches(b, Len(b), n)
    <3>1. Len(b) \in 0..Len(b)
      BY <1>1
    <3> QED
      BY <1>1, <1>4, <1>5, <3>1
  <2> QED
    BY <2>1 DEF Passes
<1> QED
  BY <1>3, <1>4, <1>6 DEF c

(* A gapless chunk behind another.                                         *)
LEMMA JoinGapless ==
    ASSUME NEW a \in Seq(Items), NEW b \in Seq(Items), NEW S,
           Gapless(a, S), Gapless(b, S \cup Passes(a))
    PROVE  Gapless(a \o b, S)
<1> DEFINE c == a \o b
<1>1. /\ Len(c) = Len(a) + Len(b) /\ Len(a) \in Nat /\ Len(b) \in Nat
      /\ \A k \in 1..Len(a) : c[k] = a[k]
      /\ \A k \in 1..Len(b) : c[Len(a) + k] = b[k]
  OBVIOUS
<1>2. /\ \A p \in 0..Len(a) : \A n \in Nat : Reaches(a, p, n) => Reaches(c, p, n)
      /\ \A p \in 0..Len(b) : \A n \in Nat :
            Reaches(a, Len(a), n) \/ Reaches(b, p, n) => Reaches(c, Len(a) + p, n)
  BY JoinReaches
<1> HIDE DEF c
<1>3. ASSUME NEW k \in 1..Len(c)
      PROVE  k \in 1..Len(a) \/ \E j \in 1..Len(b) : k = Len(a) + j /\ c[k] = b[j]
  <2>1. k \notin 1..Len(a) => (k - Len(a)) \in 1..Len(b) /\ k = Len(a) + (k - Len(a))
    BY <1>1
  <2> QED
    BY <1>1, <2>1
<1>4. \A k \in 1..Len(a) : a[k].seq \in Nat
  BY ItemFacts
<1>5. \A k \in 1..Len(b) : b[k].seq \in Nat
  BY ItemFacts
<1>6. ASSUME NEW k \in 1..Len(c), NEW n \in Nat, n >= 1,
             (c[k].is = "event" /\ n \in 1..(c[k].seq - 1) /\ Needed(n))
             \/ (c[k].is = "synchronized" /\ n \in 1..c[k].seq /\ Detail(n))
      PROVE  n \in S \/ Reaches(c, k - 1, n)
  <2>1. CASE k \in 1..Len(a)
    <3>1. k - 1 \in 0..Len(a) /\ c[k] = a[k]
      BY <1>1, <2>1
    <3>2. n \in S \/ Reaches(a, k - 1, n)
      BY <1>6, <2>1, <3>1 DEF Gapless
    <3> QED
      BY <1>2, <3>1, <3>2
  <2>2. CASE k \notin 1..Len(a)
    <3>1. PICK j \in 1..Len(b) : k = Len(a) + j /\ c[k] = b[j]
      BY <1>3, <2>2
    <3>2. j - 1 \in 0..Len(b) /\ k - 1 = Len(a) + (j - 1)
      BY <1>1, <3>1
    <3>3. n \in S \cup Passes(a) \/ Reaches(b, j - 1, n)
      BY <1>6, <3>1 DEF Gapless
    <3>4. n \in Passes(a) => Reaches(a, Len(a), n)
      BY DEF Passes
    <3> QED
      BY <1>2, <3>2, <3>3, <3>4
  <2> QED
    BY <2>1, <2>2
<1>7. \A k \in 1..Len(c) : c[k].seq \in Nat
  BY <1>1, <1>3, <1>4, <1>5
<1>8. ASSUME NEW k \in 1..Len(c)
      PROVE  /\ c[k].is = "event"
                => \A n \in 1..(c[k].seq - 1) : Needed(n) => n \in S \/ Reaches(c, k - 1, n)
             /\ c[k].is = "synchronized"
                => \A n \in 1..c[k].seq : Detail(n) => n \in S \/ Reaches(c, k - 1, n)
  <2>1. c[k].seq \in Nat
    BY <1>7
  <2>2. ASSUME c[k].is = "event", NEW n \in 1..(c[k].seq - 1), Needed(n)
        PROVE  n \in S \/ Reaches(c, k - 1, n)
    <3>1. n \in Nat /\ n >= 1
      BY <2>1
    <3> QED
      BY <1>6, <2>2, <3>1
  <2>3. ASSUME c[k].is = "synchronized", NEW n \in 1..c[k].seq, Detail(n)
        PROVE  n \in S \/ Reaches(c, k - 1, n)
    <3>1. n \in Nat /\ n >= 1
      BY <2>1
    <3> QED
      BY <1>6, <2>3, <3>1
  <2> QED
    BY <2>2, <2>3
<1> QED
  BY <1>8 DEF Gapless, c

(* The updates that a flush drops are superseded.                          *)
Uniform(p) == \A x, m \in Elements(p) : log[m] \in Calls => \A y \in x..m : log[y] # "text"

LEMMA DroppedSuperseded ==
    ASSUME TypeOK, NEW p \in Seq(Nat), Increasing(p), Uniform(p),
           \A n \in Elements(p) : n \in 1..Len(log),
           NEW n \in Elements(p) \ Elements(Coalesce(p))
    PROVE  Superseded(n)
<1>1. log[n] \in Calls /\ \E m \in Elements(p) : m > n /\ log[m] = log[n]
  BY CoalesceFacts
<1>2. PICK m \in Elements(p) : m > n /\ log[m] = log[n]
  BY <1>1
<1>3. m \in (n + 1)..Len(log) /\ n \in Nat /\ m \in Nat
  BY <1>2
<1>4. \A y \in n..m : log[y] # "text"
  BY <1>1, <1>2 DEF Uniform
<1> QED
  BY <1>1, <1>2, <1>3, <1>4 DEF Superseded

LEMMA EventsPass ==
    ASSUME NEW c \in Seq(Nat), NEW n \in Nat, NEW p \in 0..Len(c)
    PROVE  /\ Reaches(Events(c), p, n) <=> \E k \in 1..p : c[k] >= n
           /\ Passes(Events(c)) = {m \in Nat : \E x \in Elements(c) : x >= m}
<1> DEFINE e == Events(c)
<1>1. /\ Len(e) = Len(c) /\ Len(c) \in Nat
      /\ \A k \in 1..Len(c) : e[k].is = "event" /\ e[k].seq = c[k]
  BY EventsFacts
<1> HIDE DEF e
<1>2. ASSUME NEW q \in 0..Len(c), NEW m \in Nat
      PROVE  Reaches(e, q, m) <=> \E k \in 1..q : c[k] >= m
  <2>1. \A k \in 1..q : k \in 1..Len(c)
    BY <1>1
  <2>2. \A k \in 1..q : Data(e[k]) /\ e[k].seq = c[k]
    BY <1>1, <2>1 DEF Data
  <2> QED
    BY <2>2 DEF Reaches
<1>3. Len(c) \in 0..Len(c)
  BY <1>1
<1>4. \A m \in Nat : (\E k \in 1..Len(c) : c[k] >= m) <=> \E x \in Elements(c) : x >= m
  BY DEF Elements
<1>5. \A m \in Nat : Reaches(e, Len(e), m) <=> \E x \in Elements(c) : x >= m
  BY <1>1, <1>2, <1>3, <1>4
<1> QED
  BY <1>2, <1>5 DEF Passes, e

LEMMA FlushLive ==
    ASSUME TypeOK, NEW s \in Subs, NEW S, Buffered(s), s.pulled <= Len(log), Uniform(s.pending),
           Gapless(s.output, S), Taken(s, S)
    PROVE  Live(Flush(s), S)
<1> DEFINE p == s.pending
           c == Coalesce(p)
           e == Events(c)
           T == S \cup Passes(s.output)
           f == Flush(s)
<1>1. p \in Seq(Nat) /\ Increasing(p) /\ s.output \in Seq(Items) /\ s.pulled \in Nat /\ Len(log) \in Nat
  BY TypeFacts DEF Subs, Buffered
<1>2. \A n \in Elements(p) : n \in 1..s.pulled /\ n \in 1..Len(log)
  <2>1. \A k \in 1..Len(p) : p[k] \in 1..s.pulled
    BY DEF Buffered
  <2>2. \A n \in 1..s.pulled : n \in 1..Len(log)
    BY <1>1
  <2> QED
    BY <2>1, <2>2 DEF Elements
<1>3. /\ c \in Seq(Nat) /\ Increasing(c)
      /\ Elements(c) \subseteq Elements(p)
      /\ \A n \in Elements(p) : \E m \in Elements(c) : m >= n
  BY <1>1, CoalesceFacts
<1>4. \A n \in Elements(p) \ Elements(c) : Superseded(n)
  BY <1>1, <1>2, DroppedSuperseded
<1>5. f.pending = << >> /\ f.output = s.output \o e /\ f.pulled = s.pulled
  BY FlushFacts
<1> HIDE DEF c
<1>6. /\ e \in Seq(Items) /\ Len(e) = Len(c)
      /\ \A k \in 1..Len(c) : e[k].is = "event" /\ e[k].seq = c[k]
  BY <1>3, EventsFacts
<1>7. /\ \A k \in 1..Len(c) : \A n \in Nat : Reaches(e, k - 1, n) <=> \E j \in 1..(k - 1) : c[j] >= n
      /\ Passes(e) = {m \in Nat : \E x \in Elements(c) : x >= m}
  <2>1. ASSUME NEW k \in 1..Len(c), NEW n \in Nat
        PROVE  Reaches(e, k - 1, n) <=> \E j \in 1..(k - 1) : c[j] >= n
    <3>1. k - 1 \in 0..Len(c)
      BY <1>3
    <3> QED
      BY <1>3, <3>1, EventsPass
  <2>2. Passes(e) = {m \in Nat : \E x \in Elements(c) : x >= m}
    <3>1. 0 \in Nat /\ 0 \in 0..Len(c)
      BY <1>3
    <3> QED
      BY <1>3, <3>1, EventsPass
  <2> QED
    BY <2>1, <2>2
<1> HIDE DEF e, f
<1>8. Elements(p) \subseteq Passes(e)
  BY <1>1, <1>2, <1>3, <1>7
<1>9. Gapless(e, T)
  <2>1. ASSUME NEW k \in 1..Len(c), NEW n \in 1..(c[k] - 1), Needed(n)
        PROVE  n \in T \/ Reaches(e, k - 1, n)
    <3>1. c[k] \in Elements(c) /\ c[k] \in Nat
      BY <1>3 DEF Elements
    <3>2. n \in 1..s.pulled /\ n \in Nat /\ n < c[k]
      BY <1>1, <1>2, <1>3, <3>1
    <3>3. n \in T \/ n \in Elements(p)
      BY <2>1, <3>2 DEF Taken, Needed
    <3>4. n \in Elements(p) => n \in Elements(c)
      BY <1>4, <2>1 DEF Needed
    <3>5. ASSUME n \in Elements(c)
          PROVE  Reaches(e, k - 1, n)
      <4>1. PICK j \in 1..Len(c) : c[j] = n
        BY <3>5 DEF Elements
      <4>2. j # k /\ j \notin (k + 1)..Len(c)
        <5>1. ASSUME j \in (k + 1)..Len(c)
              PROVE  FALSE
          <6>1. k \in 1..(j - 1)
            BY <5>1
          <6>2. c[k] < c[j]
            BY <1>3, <6>1 DEF Increasing
          <6> QED
            BY <3>1, <3>2, <4>1, <6>2
        <5> QED
          BY <3>1, <3>2, <4>1, <5>1
      <4>3. j \in 1..(k - 1)
        BY <1>3, <4>2
      <4> QED
        BY <1>7, <3>2, <4>1, <4>3
    <3> QED
      BY <3>3, <3>4, <3>5
  <2> QED
    BY <1>6, <2>1 DEF Gapless
<1>10. Gapless(f.output, S)
  BY <1>1, <1>5, <1>6, <1>9, JoinGapless
<1>11. Taken(f, S)
  <2>1. Passes(f.output) = Passes(s.output) \cup Passes(e)
    BY <1>1, <1>5, <1>6, JoinReaches
  <2>2. ASSUME NEW n \in 1..s.pulled, Detail(n)
        PROVE  n \in S \cup Passes(f.output)
    <3>1. n \in S \cup Passes(s.output) \cup Elements(p)
      BY <2>2 DEF Taken
    <3> QED
      BY <1>8, <2>1, <3>1
  <2> QED
    BY <1>5, <2>2 DEF Taken
<1>12. Quiet(f)
  <2>1. Elements(f.pending) = {}
    BY <1>5, EmptyFacts DEF Elements
  <2> QED
    BY <2>1 DEF Quiet
<1> QED
  BY <1>10, <1>11, <1>12 DEF Live, f

LEMMA OverflowLive ==
    ASSUME NEW s \in Subs, NEW S
    PROVE  Live(Overflow(s), S)
<1> DEFINE o == Overflow(s)
<1>1. o.pending = << >> /\ o.output = << >> /\ o.pulled = 0
  BY OverflowFacts
<1> HIDE DEF o
<1>2. Len(o.output) = 0 /\ Elements(o.pending) = {}
  BY <1>1, EmptyFacts DEF Elements
<1> QED
  BY <1>1, <1>2 DEF Live, Gapless, Taken, Quiet, o

(* An event taken from the PubSub.                                         *)
LEMMA TakenLive ==
    ASSUME TypeOK, NEW s, Sound(s), s.pulled < published, NEW S, Live(s, S)
    PROVE  LET n == s.pulled + 1 IN
           Live(IF Detail(n) THEN Offer(Pulled(s), n) ELSE Pulled(s), S)
<1> DEFINE n == s.pulled + 1
           p == Pulled(s)
           k == Kept(p, n)
<1>1. /\ s \in Subs /\ s.pulled \in Nat /\ published \in Nat /\ published <= Len(log) /\ Len(log) \in Nat
      /\ n \in Nat /\ n \in 1..Len(log) /\ s.pending \in Seq(Nat) /\ log[n] \in Kinds
  <2>1. /\ s \in Subs /\ s.pulled \in Nat /\ published \in Nat /\ published <= Len(log)
        /\ Len(log) \in Nat /\ log \in Seq(Kinds)
    BY TypeFacts, SMTT(30) DEF Sound, Subs
  <2>2. n \in Nat /\ n \in 1..Len(log)
    BY <2>1
  <2> QED
    BY <2>1, <2>2 DEF Subs
<1>2. /\ Sound(p) /\ NextTaken(p, n)
      /\ p.pending = s.pending /\ p.output = s.output /\ p.pulled = n
  BY PulledFacts
<1>3. p \in Subs /\ Buffered(p) /\ Retained(p) <= MaxItems
  BY <1>2 DEF Sound
<1>4. \A x \in Elements(s.pending) : x \in 1..s.pulled
  <2>1. \A i \in 1..Len(s.pending) : s.pending[i] \in 1..s.pulled
    BY DEF Sound, Buffered
  <2> QED
    BY <2>1 DEF Elements
<1>5. \A x \in Elements(s.pending) : \A y \in x..s.pulled : log[y] # "text"
  BY DEF Live, Quiet
<1>6. \A m \in 1..s.pulled : Detail(m) => m \in S \cup Passes(s.output) \cup Elements(s.pending)
  BY DEF Live, Taken
<1>7. \A m \in 1..n : m = n \/ m \in 1..s.pulled
  BY <1>1
<1>8. \A x \in 1..s.pulled : \A y \in x..n : y = n \/ y \in x..s.pulled
  BY <1>1
<1> HIDE DEF p, n
<1>9. CASE ~Detail(n)
  <2>1. log[n] # "text"
    BY <1>9 DEF Detail
  <2>2. Taken(p, S)
    BY <1>2, <1>6, <1>7, <1>9 DEF Taken
  <2>3. Quiet(p)
    BY <1>2, <1>4, <1>5, <1>8, <2>1 DEF Quiet
  <2>4. Gapless(p.output, S)
    BY <1>2 DEF Live
  <2>5. Live(p, S)
    BY <2>2, <2>3, <2>4 DEF Live
  <2> QED
    BY <1>9, <2>5 DEF p, n
<1>10. CASE Detail(n)
  <2>1. /\ k \in Subs /\ Buffered(k)
        /\ k.pending = Append(p.pending, n)
        /\ k.pulled = n /\ k.output = p.output
    BY <1>2, <1>3, KeptFacts
  <2>2. Elements(k.pending) = Elements(s.pending) \cup {n}
    <3>1. Increasing(s.pending) /\ \A i \in 1..Len(s.pending) : s.pending[i] < n
      BY <1>2, <1>3 DEF Buffered, NextTaken
    <3> QED
      BY <1>1, <1>2, <2>1, <3>1, AppendIncreasing, SMTT(30)
  <2> HIDE DEF k
  <2>3. Gapless(k.output, S)
    BY <1>2, <2>1 DEF Live
  <2>4. Taken(k, S)
    BY <1>2, <1>6, <1>7, <2>1, <2>2 DEF Taken
  <2>5. Uniform(k.pending)
    <3>1. ASSUME NEW x \in Elements(k.pending), NEW m \in Elements(k.pending), log[m] \in Calls,
                 NEW y \in x..m
          PROVE  log[y] # "text"
      <4>1. m = n => log[n] # "text"
        BY <3>1, CallsAssumption
      <4>2. CASE y = n
        <5>1. m = n
          <6>1. m # n => m \in 1..s.pulled
            BY <1>4, <2>2
          <6> QED
            BY <1>1, <4>2, <6>1 DEF n
        <5> QED
          BY <4>1, <4>2, <5>1
      <4>3. CASE y # n
        <5>1. m \in Nat /\ m <= n /\ x \in Nat
          BY <1>1, <1>4, <2>2 DEF n
        <5>2. x # n
          BY <1>1, <4>3, <5>1
        <5>3. x \in Elements(s.pending) /\ x \in 1..s.pulled
          BY <1>4, <2>2, <5>2
        <5>4. y \in x..s.pulled
          BY <1>1, <4>3, <5>1, <5>3 DEF n
        <5> QED
          BY <1>5, <5>3, <5>4
      <4> QED
        BY <4>2, <4>3
    <3> QED
      BY <3>1 DEF Uniform
  <2>6. CASE Offer(p, n) = Overflow(p)
    BY <1>3, <1>10, <2>6, OverflowLive DEF p, n
  <2>7. CASE Offer(p, n) = k /\ log[n] \in Calls
    <3>1. log[n] # "text"
      BY <2>7, CallsAssumption
    <3>2. Quiet(k)
      <4>1. ASSUME NEW x \in Elements(k.pending), NEW y \in x..n
            PROVE  log[y] # "text"
        <5>1. CASE x = n
          BY <1>1, <3>1, <5>1
        <5>2. CASE x # n
          BY <1>4, <1>5, <1>8, <2>2, <3>1, <5>2
        <5> QED
          BY <5>1, <5>2
      <4> QED
        BY <2>1, <4>1 DEF Quiet
    <3> QED
      BY <1>10, <2>3, <2>4, <2>7, <3>2 DEF Live, p, n
  <2>8. CASE Offer(p, n) = Flush(k)
    <3>1. k.pulled <= Len(log)
      BY <1>1, <2>1
    <3>2. Live(Flush(k), S)
      BY <2>1, <2>3, <2>4, <2>5, <3>1, FlushLive
    <3> QED
      BY <1>10, <2>8, <3>2 DEF p, n
  <2>9. \/ Offer(p, n) = Overflow(p)
        \/ Offer(p, n) = k /\ log[n] \in Calls
        \/ Offer(p, n) = Flush(k)
    BY <1>2, <1>3, OfferFacts DEF k
  <2> QED
    BY <2>6, <2>7, <2>8, <2>9
<1> QED
  BY <1>9, <1>10

-----------------------------------------------------------------------------
(* What the subscription has still to send lies behind what it reads, its  *)
(* range begins where the chunks end, and a replay holds what they do not. *)
Base(s, h, K) ==
    IF s.pc = "reading" THEN 1..h
    ELSE IF s.pc \in {"snapshot", "catchUp"} THEN 1..s.mark
    ELSE K

Active(s) == s.pc \in {"reading", "snapshot", "catchUp", "live"}

Replaying(s) == s.pc = "catchUp" \/ (s.pc = "snapshot" /\ s.fallback)

Fed(s, h, K) ==
    /\ Active(s) => Live(s, Base(s, h, K))
    /\ s.pc = "reading" => \A n \in 1..s.after : n \in K
    /\ Replaying(s) => \A n \in 1..s.mark : Detail(n) => n \in K \/ n \in Elements(s.rest)

(* A snapshot is no older than the thread and the chunks before it.        *)
SnapshotsAhead ==
    \A i \in 1..Len(inbox) :
       SnapshotOf(inbox[i]) # {} =>
          /\ shown.seq <= inbox[i][1].seq
          /\ \A j \in 1..(i - 1) : \A m \in 1..Len(inbox[j]) : inbox[j][m].seq <= inbox[i][1].seq

(* Each chunk follows on the chunks before it.                             *)
Followed == \A i \in 1..Len(inbox) : Gapless(inbox[i], Before(i))

(* A pair of the thread that exists holds the needed events up to its      *)
(* sequence.                                                               *)
Full(pair) ==
    OfThisThread(pair) => \A n \in Since(pair.seq) : Needed(n) => n \in Elements(pair.thread)

PairsComplete == Full(shown) /\ Full(cache)

Complete == Fed(sub, head, Known) /\ SnapshotsAhead /\ Followed /\ PairsComplete

(* The log alone decides what an event needs.                              *)
LEMMA SameLogFed ==
    ASSUME UNCHANGED log, Fed(sub', head', Known')
    PROVE  Fed(sub, head, Known)'
BY DEF Fed, Live, Gapless, Taken, Quiet, Needed, Detail, Superseded, Base, Active, Replaying,
   Reaches,
       Passes, Elements, Data

LEMMA SameLogGapless ==
    ASSUME UNCHANGED log, NEW chunk, NEW S, Gapless(chunk, S)
    PROVE  Gapless(chunk, S)'
BY DEF Gapless, Needed, Detail, Superseded, Reaches, Data

LEMMA SameLogPairs ==
    ASSUME UNCHANGED <<log, shown, cache>>, PairsComplete
    PROVE  PairsComplete'
BY DEF PairsComplete, Full, OfThisThread, Exists, Since, Needed, Detail, Superseded, Elements

LEMMA SameLogFull ==
    ASSUME UNCHANGED log, NEW pair, Full(pair)
    PROVE  Full(pair)'
BY DEF Full, OfThisThread, Exists, Since, Needed, Detail, Superseded, Elements

LEMMA FullPairs ==
    ASSUME UNCHANGED log, Full(shown'), Full(cache')
    PROVE  PairsComplete'
<1>1. PICK a, b : a = shown' /\ b = cache'
  OBVIOUS
<1>2. Full(a)' /\ Full(b)'
  BY <1>1, SameLogFull
<1> QED
  BY <1>1, <1>2 DEF PairsComplete, Full, OfThisThread, Exists, Since, Needed, Detail,
     Superseded, Elements

LEMMA QuietStep ==
    ASSUME Complete, UNCHANGED <<log, inbox, shown, cache>>, Fed(sub', head', Known)
    PROVE  Complete'
<1>1. Known' = Known /\ \A i : Before(i)' = Before(i)
  BY DEF Known, Before, Reaches, Data
<1>2. Fed(sub, head, Known)'
  BY <1>1, SameLogFed
<1>3. SnapshotsAhead'
  BY DEF Complete, SnapshotsAhead, SnapshotOf
<1>4. Followed'
  <2>1. ASSUME NEW i \in 1..Len(inbox)
        PROVE  Gapless(inbox[i], Before(i))'
    <3>1. PICK chunk, S : chunk = inbox[i] /\ S = Before(i)
      OBVIOUS
    <3>2. Gapless(chunk, S)'
      BY <3>1, SameLogGapless DEF Complete, Followed
    <3>3. inbox'[i] = chunk /\ Before(i)' = S
      BY <1>1, <3>1
    <3> QED
      BY <3>2, <3>3 DEF Gapless, Needed, Detail, Superseded, Reaches, Data
  <2> QED
    BY <2>1 DEF Followed
<1>5. PairsComplete'
  BY SameLogPairs DEF Complete
<1> QED
  BY <1>2, <1>3, <1>4, <1>5 DEF Complete

LEMMA LiveWider ==
    ASSUME NEW s, NEW S, NEW T, S \subseteq T, Live(s, S)
    PROVE  Live(s, T)
<1>1. Gapless(s.output, T)
  BY Wider DEF Live
<1>2. Taken(s, T)
  BY DEF Live, Taken
<1> QED
  BY <1>1, <1>2 DEF Live

LEMMA FedWider ==
    ASSUME NEW s, NEW h \in Nat, NEW g \in Nat, h <= g, NEW K, NEW L, K \subseteq L, Fed(s, h, K)
    PROVE  Fed(s, g, L)
<1>1. Base(s, h, K) \subseteq Base(s, g, L)
  BY DEF Base
<1>2. Active(s) => Live(s, Base(s, g, L))
  BY <1>1, LiveWider DEF Fed
<1> QED
  BY <1>2 DEF Fed

(* A chunk behind the others.                                              *)
LEMMA KnownAfterChunk ==
    ASSUME TypeOK, NEW chunk \in Seq(Items), inbox' = Append(inbox, chunk), UNCHANGED shown
    PROVE  /\ Known' = Known \cup Passes(chunk)
           /\ \A i \in 1..(Len(inbox) + 1) : Before(i)' = Before(i)
<1>1. inbox \in Seq(Seq(Items)) /\ Len(inbox) \in Nat
  BY TypeFacts
<1>2. /\ Len(inbox') = Len(inbox) + 1
      /\ \A i \in 1..Len(inbox) : inbox'[i] = inbox[i]
      /\ inbox'[Len(inbox) + 1] = chunk
  BY <1>1, AppendFacts
<1>3. ASSUME NEW i \in 1..(Len(inbox) + 1)
      PROVE  Before(i)' = Before(i)
  <2>1. \A j \in 1..(i - 1) : j \in 1..Len(inbox) /\ inbox'[j] = inbox[j]
    BY <1>1, <1>2
  <2>2. \A n \in Nat : (\E j \in 1..(i - 1) : Reaches(inbox'[j], Len(inbox'[j]), n))
                          <=> \E j \in 1..(i - 1) : Reaches(inbox[j], Len(inbox[j]), n)
    BY <2>1
  <2> QED
    BY <2>2 DEF Before, Reaches, Data
<1>5. Known' = Known \cup Passes(chunk)
  <2>1. \A j \in 1..Len(inbox') : j = Len(inbox) + 1 \/ j \in 1..Len(inbox)
    BY <1>1, <1>2
  <2>2. \A n \in Nat : (\E j \in 1..Len(inbox') : Reaches(inbox'[j], Len(inbox'[j]), n))
                          <=> \/ \E j \in 1..Len(inbox) : Reaches(inbox[j], Len(inbox[j]), n)
                              \/ Reaches(chunk, Len(chunk), n)
    <3>1. Len(inbox) + 1 \in 1..Len(inbox') /\ \A j \in 1..Len(inbox) : j \in 1..Len(inbox')
      BY <1>1, <1>2
    <3> QED
      BY <1>2, <2>1, <3>1
  <2>3. Known' = {n \in Nat : n <= shown.seq
                    \/ \E j \in 1..Len(inbox') : Reaches(inbox'[j], Len(inbox'[j]), n)}
    <3>1. (Len(inbox') + 1) - 1 = Len(inbox')
      BY <1>1, <1>2
    <3> QED
      BY <3>1 DEF Known, Before, Reaches, Data
  <2>4. Known = {n \in Nat : n <= shown.seq
                    \/ \E j \in 1..Len(inbox) : Reaches(inbox[j], Len(inbox[j]), n)}
    <3>1. (Len(inbox) + 1) - 1 = Len(inbox)
      BY <1>1
    <3> QED
      BY <3>1 DEF Known, Before
  <2> QED
    BY <2>2, <2>3, <2>4 DEF Passes
<1> QED
  BY <1>3, <1>5

LEMMA ChunkStep ==
    ASSUME Shape, Complete, NEW chunk \in Seq(Items), inbox' = Append(inbox, chunk),
           UNCHANGED <<log, shown, cache>>,
           Gapless(chunk, Known),
           SnapshotOf(chunk) # {} => chunk[1].seq = Len(log),
           Fed(sub', head', Known \cup Passes(chunk))
    PROVE  Complete'
<1>1. /\ TypeOK /\ inbox \in Seq(Seq(Items)) /\ Len(inbox) \in Nat /\ Len(log) \in Nat
      /\ shown.seq <= Len(log)
  BY TypeFacts DEF Shape, Places
<1>2. /\ Len(inbox') = Len(inbox) + 1
      /\ \A i \in 1..Len(inbox) : inbox'[i] = inbox[i]
      /\ inbox'[Len(inbox) + 1] = chunk
  BY <1>1, AppendFacts
<1>3. /\ Known' = Known \cup Passes(chunk)
      /\ \A i \in 1..(Len(inbox) + 1) : Before(i)' = Before(i)
  BY <1>1, KnownAfterChunk
<1>4. Fed(sub, head, Known)'
  BY <1>3, SameLogFed
<1>5. \A i \in 1..Len(inbox') : i = Len(inbox) + 1 \/ i \in 1..Len(inbox)
  BY <1>1, <1>2
<1>6. SnapshotsAhead'
  <2>1. ASSUME NEW i \in 1..Len(inbox'), SnapshotOf(inbox'[i]) # {}
        PROVE  /\ shown.seq <= inbox'[i][1].seq
               /\ \A j \in 1..(i - 1) : \A m \in 1..Len(inbox'[j]) : inbox'[j][m].seq <= inbox'[i][1].seq
    <3>0. \A j \in 1..(i - 1) : j \in 1..Len(inbox) /\ inbox'[j] = inbox[j]
      BY <1>1, <1>2
    <3>1. CASE i \in 1..Len(inbox)
      <4>1. inbox'[i] = inbox[i] /\ SnapshotOf(inbox[i]) # {}
        BY <1>2, <2>1, <3>1
      <4> QED
        BY <3>0, <3>1, <4>1 DEF Complete, SnapshotsAhead
    <3>2. CASE i = Len(inbox) + 1
      <4>1. inbox'[i][1].seq = Len(log)
        BY <1>2, <2>1, <3>2
      <4>2. \A j \in 1..Len(inbox) : \A m \in 1..Len(inbox[j]) : inbox[j][m].seq <= Len(log)
        BY DEF Shape, Chunks, ChunkOK, Within
      <4> QED
        BY <1>1, <3>0, <4>1, <4>2
    <3> QED
      BY <1>5, <3>1, <3>2
  <2> QED
    BY <2>1 DEF SnapshotsAhead, SnapshotOf
<1>7. Followed'
  <2>1. ASSUME NEW i \in 1..Len(inbox')
        PROVE  Gapless(inbox[i], Before(i))'
    <3>1. PICK c, S : /\ c = inbox'[i] /\ S = Before(i)'
                      /\ Gapless(c, S)
      <4>1. CASE i \in 1..Len(inbox)
        <5>1. inbox'[i] = inbox[i] /\ Before(i)' = Before(i) /\ Gapless(inbox[i], Before(i))
          BY <1>1, <1>2, <1>3, <4>1 DEF Complete, Followed
        <5> QED
          BY <5>1
      <4>2. CASE i = Len(inbox) + 1
        <5>1. inbox'[i] = chunk /\ Before(i)' = Known
          BY <1>1, <1>2, <1>3, <4>2 DEF Known
        <5> QED
          BY <5>1
      <4> QED
        BY <1>5, <4>1, <4>2
    <3>2. Gapless(c, S)'
      BY <3>1, SameLogGapless
    <3> QED
      BY <3>1, <3>2, SMTT(30) DEF Gapless, Needed, Detail, Superseded, Reaches, Data
  <2> QED
    BY <2>1 DEF Followed
<1>8. PairsComplete'
  BY SameLogPairs DEF Complete
<1> QED
  BY <1>4, <1>6, <1>7, <1>8 DEF Complete

-----------------------------------------------------------------------------
(***************************************************************************)
(* The server's steps keep the client's stream complete.                   *)
(***************************************************************************)
LEMMA Shifted ==
    ASSUME NEW s, NEW S, NEW T, \A n \in S : Detail(n) => n \in T, Live(s, S)
    PROVE  Live(s, T)
<1>1. Gapless(s.output, T)
  BY DEF Live, Gapless, Needed
<1>2. Taken(s, T)
  BY DEF Live, Taken
<1> QED
  BY <1>1, <1>2 DEF Live

LEMMA SameReadingFed ==
    ASSUME NEW s, NEW t, NEW h, NEW K, SameReading(s, t), Fed(s, h, K),
           Active(s) => Live(t, Base(s, h, K))
    PROVE  Fed(t, h, K)
<1>1. Base(t, h, K) = Base(s, h, K) /\ Active(t) = Active(s) /\ Replaying(t) = Replaying(s)
  BY DEF Base, Active, Replaying, SameReading
<1>2. t.pc = s.pc /\ t.after = s.after /\ t.rest = s.rest /\ t.mark = s.mark
  BY DEF SameReading
<1> QED
  BY <1>1, <1>2 DEF Fed

LEMMA SameBufferLive ==
    ASSUME NEW s, NEW t, NEW S, t.output = s.output, t.pending = s.pending, t.pulled = s.pulled, Live(s, S)
    PROVE  Live(t, S)
BY DEF Live, Taken, Quiet

LEMMA QuietUniform ==
    ASSUME NEW s, Sound(s), Quiet(s)
    PROVE  Uniform(s.pending)
<1>1. s.pulled \in Nat
  BY DEF Sound, Subs
<1>2. \A i \in 1..Len(s.pending) : s.pending[i] \in 1..s.pulled
  BY DEF Sound, Buffered
<1>3. \A m \in Elements(s.pending) : m \in 1..s.pulled
  BY <1>2 DEF Elements
<1>4. \A m \in 1..s.pulled : \A x \in 1..s.pulled : \A y \in x..m : y \in x..s.pulled
  BY <1>1
<1> QED
  BY <1>3, <1>4 DEF Quiet, Uniform

LEMMA SoundFlushLive ==
    ASSUME TypeOK, NEW s, Sound(s), NEW S, Live(s, S)
    PROVE  Live(Flush(s), S)
<1>1. s \in Subs /\ Buffered(s) /\ s.pulled \in Nat /\ s.pulled <= published
  BY DEF Sound, Subs
<1>2. s.pulled <= Len(log)
  BY <1>1, TypeFacts
<1>3. Uniform(s.pending) /\ Gapless(s.output, S) /\ Taken(s, S)
  BY QuietUniform DEF Live
<1> QED
  BY <1>1, <1>2, <1>3, FlushLive

LEMMA BufferComplete == ASSUME Shape, Complete, Buffering \/ Acknowledge PROVE Complete'
<1>1. Sound(sub) /\ TypeOK
  BY SoundNow DEF Shape
<1>2. sub \in Subs /\ Buffered(sub)
  BY <1>1 DEF Sound
<1>3. UNCHANGED <<log, head, inbox, shown, cache>>
  BY DEF Buffering, Intake, FlushWindow, Acknowledge, view
<1>4. PICK S : S = Base(sub, head, Known)
  OBVIOUS
<1>5. Fed(sub, head, Known)
  BY DEF Complete
<1>6. SameReading(sub, sub') /\ (Active(sub) => Live(sub', S))
  <2>0. Active(sub) => Live(sub, S)
    BY <1>4, <1>5 DEF Fed
  <2>1. CASE Intake
    <3> DEFINE n == sub.pulled + 1
               p == Pulled(sub)
    <3>1. sub' = IF Detail(n) THEN Offer(p, n) ELSE p
      BY <2>1 DEF Intake, Pulled, PulledTo
    <3>2. sub.pulled < published
      BY <2>1 DEF Intake
    <3>3. Sound(p) /\ NextTaken(p, n) /\ SameReading(sub, p)
      BY <1>1, <3>2, PulledFacts
    <3>4. Active(sub) => Live(IF Detail(n) THEN Offer(p, n) ELSE p, S)
      BY <1>1, <2>0, <3>2, TakenLive
    <3> HIDE DEF n, p
    <3>5. SameReading(p, Offer(p, n))
      BY <3>3, OfferFacts DEF Sound
    <3> QED
      BY <3>1, <3>3, <3>4, <3>5 DEF SameReading
  <2>2. CASE FlushWindow
    <3>1. sub' = Flush(sub)
      BY <2>2 DEF FlushWindow
    <3> QED
      BY <1>1, <1>2, <2>0, <3>1, FlushFacts, SoundFlushLive
  <2>3. CASE Acknowledge
    <3>1. /\ SameReading(sub, sub')
          /\ sub'.output = sub.output /\ sub'.pending = sub.pending /\ sub'.pulled = sub.pulled
      BY <1>2, <2>3 DEF Acknowledge, SameReading, Subs
    <3> QED
      BY <2>0, <3>1, SameBufferLive
  <2> QED
    BY <2>1, <2>2, <2>3 DEF Buffering
<1>7. Fed(sub', head, Known)
  BY <1>4, <1>5, <1>6, SameReadingFed
<1> QED
  BY <1>3, <1>7, QuietStep

LEMMA EngineComplete == ASSUME Shape, Complete, UpdateReadModel \/ Publish PROVE Complete'
<1>1. head \in Nat
  BY TypeFacts DEF Shape
<1>2. /\ UNCHANGED <<log, sub, inbox, shown, cache>>
      /\ head' \in Nat /\ head <= head'
  BY <1>1 DEF UpdateReadModel, Publish, view
<1>3. Fed(sub, head, Known)
  BY DEF Complete
<1>4. Fed(sub', head', Known)
  BY <1>1, <1>2, <1>3, FedWider
<1> QED
  BY <1>2, <1>4, QuietStep

LEMMA MeasureComplete == ASSUME Shape, Complete, Measure PROVE Complete'
<1>1. TypeOK /\ sub \in Subs /\ head \in Nat
  BY TypeFacts DEF Shape
<1>2. sub.pc = "reading" /\ UNCHANGED <<log, head, inbox, shown, cache>>
  BY <1>1, MeasureFacts
<1>3. PICK pc \in {"catchUp", "snapshot"}, rest \in Seq(Nat), fallback \in BOOLEAN :
         /\ sub' = Read(sub, pc, NoCursor, rest, fallback, head)
         /\ pc = "catchUp" \/ fallback =>
               /\ sub.after \in Nat /\ sub.after <= head
               /\ rest = Details(sub.after, head)
  BY <1>1, MeasureFacts
<1>4. /\ sub'.pc = pc /\ sub'.rest = rest /\ sub'.mark = head /\ sub'.fallback = fallback
      /\ sub'.output = sub.output /\ sub'.pending = sub.pending /\ sub'.pulled = sub.pulled
  BY <1>1, <1>3 DEF Read, Subs
<1>5. Fed(sub, head, Known)
  BY DEF Complete
<1>6. Live(sub', Base(sub', head, Known))
  <2>1. Base(sub', head, Known) = 1..head /\ Base(sub, head, Known) = 1..head
    BY <1>2, <1>4 DEF Base
  <2>2. Live(sub, 1..head)
    BY <1>2, <1>5, <2>1 DEF Fed, Active
  <2> QED
    BY <1>4, <2>1, <2>2, SameBufferLive
<1>7. ASSUME Replaying(sub'), NEW n \in 1..head, Detail(n)
      PROVE  n \in Known \/ n \in Elements(rest)
  <2>1. sub.after \in Nat /\ sub.after <= head /\ rest = Details(sub.after, head)
    BY <1>3, <1>4, <1>7 DEF Replaying
  <2>2. CASE n <= sub.after
    BY <1>2, <1>5, <2>1, <2>2 DEF Fed
  <2>3. CASE ~(n <= sub.after)
    <3>1. n \in (sub.after + 1)..head
      BY <1>1, <2>1, <2>3
    <3> QED
      BY <1>1, <1>7, <2>1, <3>1, DetailsFacts
  <2> QED
    BY <2>2, <2>3
<1>8. Fed(sub', head', Known)
  BY <1>2, <1>3, <1>4, <1>6, <1>7 DEF Fed
<1> QED
  BY <1>2, <1>8, QuietStep

LEMMA SnapshotComplete == ASSUME Shape, Complete, ReadSnapshot PROVE Complete'
<1> DEFINE chunk == <<Snapshot(Len(log))>>
<1>1. TypeOK /\ sub \in Subs /\ Len(log) \in Nat
  BY TypeFacts DEF Shape
<1>2. /\ UNCHANGED <<log, head, shown, cache>>
      /\ inbox' = Append(inbox, chunk)
      /\ sub.pc = "snapshot"
      /\ sub' = ReadAll(sub, "catchUp", << >>, FALSE, Len(log))
  BY DEF ReadSnapshot, Send, ReadAll
<1>3. /\ chunk \in Seq(Items) /\ Len(chunk) = 1 /\ chunk[1].is = "snapshot" /\ chunk[1].seq = Len(log)
  <2>1. Snapshot(Len(log)) \in Items /\ Snapshot(Len(log)).is = "snapshot" /\ Snapshot(Len(log)).seq = Len(log)
    BY <1>1 DEF Snapshot, Items
  <2> QED
    BY <2>1
<1> HIDE DEF chunk
<1>4. Gapless(chunk, Known)
  BY <1>3 DEF Gapless
<1>5. \A n \in 1..Len(log) : n \in Passes(chunk)
  BY <1>1, <1>3 DEF Passes, Reaches, Data
<1>6. /\ sub'.pc = "catchUp" /\ sub'.mark = Len(log)
      /\ sub'.output = sub.output /\ sub'.pending = sub.pending /\ sub'.pulled = sub.pulled
  BY <1>1, <1>2 DEF ReadAll, Subs
<1>7. Live(sub', 1..Len(log))
  <2>1. Live(sub, 1..sub.mark)
    BY <1>2 DEF Complete, Fed, Base, Active
  <2>2. 1..sub.mark \subseteq 1..Len(log)
    <3>1. sub.mark <= Len(log) /\ sub.mark \in Nat
      BY <1>1 DEF Shape, Reads, Subs
    <3> QED
      BY <1>1, <3>1
  <2>3. Live(sub', 1..sub.mark)
    BY <1>6, <2>1, SameBufferLive
  <2> QED
    BY <2>2, <2>3, LiveWider
<1>8. Fed(sub', head', Known \cup Passes(chunk))
  BY <1>5, <1>6, <1>7 DEF Fed, Base
<1> QED
  BY <1>2, <1>3, <1>4, <1>8, ChunkStep

LEMMA MissingComplete == ASSUME Shape, Complete, SnapshotMissing PROVE Complete'
<1>1. sub \in Subs
  BY TypeFacts DEF Shape
<1>2. /\ sub.pc = "snapshot"
      /\ UNCHANGED <<log, head, inbox, shown, cache>>
      /\ sub' = ReadNone(sub, IF sub.fallback THEN "catchUp" ELSE "failed", FALSE)
  BY DEF SnapshotMissing, view, ReadNone
<1>3. /\ sub'.pc = IF sub.fallback THEN "catchUp" ELSE "failed"
      /\ sub'.rest = sub.rest /\ sub'.mark = sub.mark /\ sub'.fallback = FALSE
      /\ sub'.output = sub.output /\ sub'.pending = sub.pending /\ sub'.pulled = sub.pulled
  BY <1>1, <1>2 DEF ReadNone, Subs
<1>4. Live(sub, 1..sub.mark)
  BY <1>2 DEF Complete, Fed, Base, Active
<1>5. Live(sub', 1..sub.mark)
  BY <1>3, <1>4, SameBufferLive
<1>6. sub.fallback => \A n \in 1..sub.mark : Detail(n) => n \in Known \/ n \in Elements(sub.rest)
  BY <1>2 DEF Complete, Fed, Replaying
<1>7. Fed(sub', head, Known)
  BY <1>3, <1>5, <1>6 DEF Fed, Base, Active, Replaying
<1> QED
  BY <1>2, <1>7, QuietStep

LEMMA CatchUpComplete == ASSUME Shape, Complete, CatchUp PROVE Complete'
<1>1. TypeOK /\ sub \in Subs /\ sub.rest \in Seq(Nat) /\ Increasing(sub.rest) /\ Len(sub.rest) \in Nat
      /\ sub.mark \in Nat
  <2>1. TypeOK /\ sub \in Subs /\ Increasing(sub.rest)
    BY TypeFacts DEF Shape, Reads
  <2> QED
    BY <2>1 DEF Subs
<1>2. PICK k \in 1..Len(sub.rest) :
         LET chunk == Events(SubSeq(sub.rest, 1, k)) IN
         /\ sub.pc = "catchUp"
         /\ chunk \in Seq(Items) /\ Len(chunk) = k
         /\ \A i \in 1..k : chunk[i].is = "event" /\ chunk[i].seq = sub.rest[i]
         /\ SnapshotOf(chunk) = {}
         /\ inbox' = Append(inbox, chunk)
         /\ UNCHANGED <<log, head, shown, cache>>
         /\ sub' = Rested(sub, SubSeq(sub.rest, k + 1, Len(sub.rest)))
         /\ SubSeq(sub.rest, k + 1, Len(sub.rest)) \in Seq(Nat)
         /\ Len(SubSeq(sub.rest, k + 1, Len(sub.rest))) = Len(sub.rest) - k
         /\ \A i \in 1..(Len(sub.rest) - k) :
               SubSeq(sub.rest, k + 1, Len(sub.rest))[i] = sub.rest[k + i]
  BY CatchUpFacts
<1> DEFINE chunk == Events(SubSeq(sub.rest, 1, k))
           last == SubSeq(sub.rest, k + 1, Len(sub.rest))
<1>3. /\ sub.pc = "catchUp"
      /\ chunk \in Seq(Items) /\ Len(chunk) = k
      /\ \A i \in 1..k : chunk[i].is = "event" /\ chunk[i].seq = sub.rest[i]
      /\ SnapshotOf(chunk) = {}
      /\ inbox' = Append(inbox, chunk)
      /\ UNCHANGED <<log, head, shown, cache>>
      /\ sub' = Rested(sub, last)
      /\ last \in Seq(Nat)
      /\ Len(last) = Len(sub.rest) - k
      /\ \A i \in 1..(Len(sub.rest) - k) : last[i] = sub.rest[k + i]
  BY <1>2
<1> HIDE DEF chunk, last
<1>4. /\ sub'.pc = "catchUp" /\ sub'.rest = last /\ sub'.mark = sub.mark
      /\ sub'.output = sub.output /\ sub'.pending = sub.pending /\ sub'.pulled = sub.pulled
  BY <1>1, <1>3, RestedFacts DEF SameBuffer
<1>5. /\ Live(sub, 1..sub.mark)
      /\ \A n \in 1..sub.mark : Detail(n) => n \in Known \/ n \in Elements(sub.rest)
  BY <1>3 DEF Complete, Fed, Base, Active, Replaying
<1>6. \A i \in 1..Len(sub.rest) : sub.rest[i] \in 1..sub.mark /\ sub.rest[i] \in Nat
  BY <1>1 DEF Shape, Reads
<1>7. Gapless(chunk, Known)
  <2>1. ASSUME NEW i \in 1..k, NEW n \in 1..(chunk[i].seq - 1), Detail(n)
        PROVE  n \in Known \/ Reaches(chunk, i - 1, n)
    <3>0. i \in 1..Len(sub.rest)
      BY <1>1
    <3>1. i \in 1..Len(sub.rest) /\ chunk[i].seq = sub.rest[i] /\ sub.rest[i] \in 1..sub.mark
      BY <1>3, <1>6, <3>0
    <3>2. n \in 1..sub.mark /\ n \in Nat /\ n < sub.rest[i]
      BY <1>1, <3>1
    <3>3. CASE n \in Known
      BY <3>3
    <3>4. CASE n \in Elements(sub.rest)
      <4>1. PICK j \in 1..Len(sub.rest) : sub.rest[j] = n
        BY <3>4 DEF Elements
      <4>2. j \in 1..(i - 1)
        <5>1. ASSUME i \in 1..(j - 1)
              PROVE  FALSE
          <6>1. sub.rest[i] < sub.rest[j]
            BY <1>1, <5>1 DEF Increasing
          <6> QED
            BY <3>1, <3>2, <4>1, <6>1
        <5> QED
          BY <1>1, <3>1, <3>2, <4>1, <5>1
      <4>3. j \in 1..k /\ chunk[j].is = "event" /\ chunk[j].seq = n
        BY <1>3, <4>1, <4>2
      <4> QED
        BY <3>2, <4>2, <4>3 DEF Reaches, Data
    <3> QED
      BY <1>5, <2>1, <3>2, <3>3, <3>4
  <2> QED
    BY <1>3, <2>1 DEF Gapless, Needed
<1>8. ASSUME NEW n \in Elements(sub.rest)
      PROVE  n \in Passes(chunk) \/ n \in Elements(last)
  <2>1. PICK i \in 1..Len(sub.rest) : sub.rest[i] = n
    BY DEF Elements
  <2>2. CASE i <= k
    <3>1. i \in 1..k /\ chunk[i].is = "event" /\ chunk[i].seq = n /\ n \in Nat
      BY <1>1, <1>3, <1>6, <2>1, <2>2
    <3>2. Reaches(chunk, k, n)
      BY <1>6, <2>1, <3>1 DEF Reaches, Data
    <3> QED
      BY <1>3, <3>1, <3>2 DEF Passes
  <2>3. CASE ~(i <= k)
    <3>1. i - k \in 1..(Len(sub.rest) - k) /\ k + (i - k) = i
      BY <1>1, <2>3
    <3>2. i - k \in 1..Len(last) /\ last[i - k] = n
      BY <1>3, <2>1, <3>1
    <3> QED
      BY <3>2 DEF Elements
  <2> QED
    BY <2>2, <2>3
<1>9. Live(sub', 1..sub.mark)
  BY <1>4, <1>5, SameBufferLive
<1>10. \A n \in 1..sub.mark : Detail(n) => n \in Known \cup Passes(chunk) \/ n \in Elements(last)
  BY <1>5, <1>8
<1>11. Fed(sub', head', Known \cup Passes(chunk))
  BY <1>4, <1>9, <1>10 DEF Fed, Base
<1> QED
  BY <1>3, <1>7, <1>11, ChunkStep

LEMMA MarkerComplete == ASSUME Shape, Complete, OfferMarker PROVE Complete'
<1> DEFINE f == Flush(sub)
           out == Append(f.output, Marker(Covered))
           m == Marked(f, out)
<1>1. Sound(sub) /\ TypeOK /\ sub \in Subs /\ Buffered(sub)
  BY SoundNow DEF Shape, Sound
<1>2. /\ sub.pc = "catchUp" /\ sub.rest = << >>
      /\ UNCHANGED <<log, head, inbox, shown, cache>>
      /\ Covered \in Nat /\ Covered <= Len(log)
      /\ Covered = sub.mark \/ Covered = sub.pulled
      /\ Marker(Covered) \in Items
      /\ Marker(Covered).is = "synchronized" /\ Marker(Covered).seq = Covered
      /\ sub' = Ended(sub) \/ sub' = Ended(Overflow(f)) \/ sub' = m
  BY <1>1, MarkerFacts
<1>3. /\ f \in Subs /\ f.output \in Seq(Items) /\ f.pending = << >> /\ f.pulled = sub.pulled
      /\ Len(log) \in Nat
  <2>1. f \in Subs /\ f.pending = << >> /\ f.pulled = sub.pulled
    BY <1>1, FlushFacts
  <2> QED
    BY <1>1, <2>1, TypeFacts DEF Subs
<1>4. Ended(sub).pc = "failed" /\ Ended(Overflow(f)).pc = "failed"
  BY <1>1, <1>3, EndedFacts, OverflowFacts
<1>5. \A n \in 1..sub.mark : Detail(n) => n \in Known
  <2>1. Elements(sub.rest) = {}
    BY <1>2, EmptyFacts DEF Elements
  <2> QED
    BY <1>2, <2>1 DEF Complete, Fed, Replaying
<1>6. Live(f, Known)
  <2>1. Live(sub, 1..sub.mark)
    BY <1>2 DEF Complete, Fed, Base, Active
  <2>2. Live(sub, Known)
    BY <1>5, <2>1, Shifted
  <2> QED
    BY <1>1, <2>2, SoundFlushLive
<1> HIDE DEF f
<1>7. /\ out \in Seq(Items)
      /\ Len(out) = Len(f.output) + 1 /\ Len(f.output) \in Nat
      /\ \A k \in 1..Len(f.output) : out[k] = f.output[k]
      /\ out[Len(f.output) + 1] = Marker(Covered)
  BY <1>2, <1>3, AppendFacts
<1> HIDE DEF out
<1>8. /\ m.pc = "live" /\ m.output = out /\ m.pending = << >> /\ m.pulled = sub.pulled
  BY <1>3, <1>7, MarkedFacts
<1> HIDE DEF m
<1>9. Elements(m.pending) = {}
  BY <1>8, EmptyFacts DEF Elements
<1>10. Elements(f.pending) = {}
  BY <1>3, EmptyFacts DEF Elements
<1>11. ASSUME NEW p \in 0..Len(f.output), NEW n, Reaches(f.output, p, n)
       PROVE  Reaches(out, p, n)
  <2>1. PICK k \in 1..p : Data(f.output[k]) /\ f.output[k].seq >= n
    BY <1>11 DEF Reaches
  <2>2. k \in 1..Len(f.output)
    BY <1>7
  <2> QED
    BY <1>7, <2>1, <2>2 DEF Reaches
<1>12. ASSUME NEW n \in 1..sub.pulled, Detail(n)
       PROVE  n \in Known \/ Reaches(f.output, Len(f.output), n)
  <2>1. n \in Known \cup Passes(f.output) \cup Elements(f.pending)
    BY <1>3, <1>6, <1>12 DEF Live, Taken
  <2> QED
    BY <1>10, <2>1 DEF Passes
<1>13. Gapless(out, Known)
  <2>1. ASSUME NEW k \in 1..Len(out)
        PROVE  /\ out[k].is = "event" =>
                    \A n \in 1..(out[k].seq - 1) : Needed(n) => n \in Known \/ Reaches(out, k - 1, n)
               /\ out[k].is = "synchronized" =>
                    \A n \in 1..out[k].seq : Detail(n) => n \in Known \/ Reaches(out, k - 1, n)
    <3>1. CASE k \in 1..Len(f.output)
      <4>1. out[k] = f.output[k] /\ k - 1 \in 0..Len(f.output)
        BY <1>7, <3>1
      <4>2. Gapless(f.output, Known)
        BY <1>6 DEF Live
      <4>3. \A n : Reaches(f.output, k - 1, n) => Reaches(out, k - 1, n)
        BY <1>11, <4>1
      <4> QED
        BY <3>1, <4>1, <4>2, <4>3 DEF Gapless
    <3>2. CASE k = Len(f.output) + 1
      <4>1. out[k].is = "synchronized" /\ out[k].seq = Covered /\ k - 1 = Len(f.output)
        BY <1>2, <1>7, <3>2
      <4>2. Len(f.output) \in 0..Len(f.output)
        BY <1>7
      <4>3. ASSUME NEW n \in 1..Covered, Detail(n)
            PROVE  n \in Known \/ Reaches(out, k - 1, n)
        BY <1>2, <1>5, <1>11, <1>12, <4>1, <4>2, <4>3
      <4> QED
        BY <4>1, <4>3
    <3> QED
      BY <1>7, <3>1, <3>2
  <2> QED
    BY <2>1 DEF Gapless
<1>14. Taken(m, Known)
  <2>1. ASSUME NEW n \in 1..sub.pulled, Detail(n)
        PROVE  n \in Known \/ n \in Passes(out)
    <3>1. CASE Reaches(f.output, Len(f.output), n)
      <4>1. Len(f.output) \in 0..Len(f.output) /\ Len(out) \in Nat /\ Len(f.output) <= Len(out)
        BY <1>7
      <4>2. Reaches(out, Len(f.output), n)
        BY <1>11, <3>1, <4>1
      <4>3. Reaches(out, Len(out), n)
        BY <1>7, <4>1, <4>2, LaterReaches
      <4> QED
        BY <4>3 DEF Passes
    <3> QED
      BY <1>12, <2>1, <3>1
  <2> QED
    BY <1>8, <2>1 DEF Taken
<1>15. Live(m, Known)
  BY <1>8, <1>9, <1>13, <1>14 DEF Live, Quiet
<1>16. Fed(sub', head, Known)
  <2>1. Fed(m, head, Known)
    BY <1>8, <1>15 DEF Fed, Base, Active, Replaying
  <2>2. Fed(Ended(sub), head, Known) /\ Fed(Ended(Overflow(f)), head, Known)
    BY <1>4 DEF Fed, Active, Replaying
  <2> QED
    BY <1>2, <2>1, <2>2
<1> QED
  BY <1>2, <1>16, QuietStep

LEMMA DeliverComplete == ASSUME Shape, Complete, Deliver PROVE Complete'
<1>1. Sound(sub) /\ TypeOK /\ Buffered(sub)
  BY SoundNow DEF Shape, Sound
<1>2. /\ sub.pc = "live"
      /\ inbox' = Append(inbox, sub.output)
      /\ UNCHANGED <<log, head, shown, cache>>
      /\ sub.output \in Seq(Items)
      /\ sub'.output = << >>
      /\ sub'.pending = sub.pending /\ sub'.pulled = sub.pulled
      /\ SameReading(sub, sub')
  BY <1>1, DeliverFacts
<1>3. PICK chunk \in Seq(Items) : chunk = sub.output
  BY <1>2
<1>4. Live(sub, Known)
  BY <1>2 DEF Complete, Fed, Base, Active
<1>5. Gapless(chunk, Known) /\ SnapshotOf(chunk) = {}
  BY <1>1, <1>3, <1>4 DEF Live, Buffered
<1>6. Live(sub', Known \cup Passes(chunk))
  <2>1. Gapless(sub'.output, Known \cup Passes(chunk))
    <3>1. Len(sub'.output) = 0
      BY <1>2, EmptyFacts
    <3> QED
      BY <3>1 DEF Gapless
  <2>2. Taken(sub', Known \cup Passes(chunk))
    BY <1>2, <1>3, <1>4 DEF Live, Taken
  <2>3. Quiet(sub')
    BY <1>2, <1>4 DEF Live, Quiet
  <2> QED
    BY <2>1, <2>2, <2>3 DEF Live
<1>7. Fed(sub', head', Known \cup Passes(chunk))
  <2>1. sub'.pc = "live"
    BY <1>2 DEF SameReading
  <2> QED
    BY <1>6, <2>1 DEF Fed, Base, Active, Replaying
<1> QED
  BY <1>2, <1>3, <1>5, <1>7, ChunkStep

LEMMA ServeComplete == ASSUME Shape, Complete, Serving PROVE Complete'
BY MeasureComplete, SnapshotComplete, MissingComplete, CatchUpComplete, MarkerComplete,
   DeliverComplete
DEF Serving

-----------------------------------------------------------------------------
(***************************************************************************)
(* So do the client's.                                                     *)
(***************************************************************************)
LEMMA NoSubFed == ASSUME NEW h, NEW K PROVE Fed(NoSub, h, K)
<1>1. NoSub.pc = "none"
  BY NoSubFacts
<1> QED
  BY <1>1 DEF Fed, Active, Replaying

LEMMA AttachedFed ==
    ASSUME TypeOK, NEW after \in Nat \cup {NoCursor}, NEW K, \A n \in 1..after : n \in K
    PROVE  Fed(Attached(after), head, K)
<1> DEFINE s == Attached(after)
<1>1. /\ s.pc = "reading" /\ s.after = after /\ s.pulled = published
      /\ s.pending = << >> /\ s.output = << >>
      /\ published \in Nat /\ head \in Nat /\ published <= head
  BY TypeFacts, NoSubFacts
<1> HIDE DEF s
<1>2. Len(s.output) = 0 /\ Elements(s.pending) = {}
  BY <1>1, EmptyFacts DEF Elements
<1>3. 1..published \subseteq 1..head
  BY <1>1
<1>4. Live(s, 1..head)
  BY <1>1, <1>2, <1>3 DEF Live, Gapless, Taken, Quiet
<1> QED
  BY <1>1, <1>4 DEF Fed, Base, Replaying, s

LEMMA CursorKnown == ASSUME Shape PROVE \A n \in 1..cursor : n \in Known
<1>1. /\ TypeOK /\ inbox \in Seq(Seq(Items)) /\ Len(inbox) \in Nat /\ cursor \in Nat
      /\ shown.seq \in Nat
  BY TypeFacts, PairFacts DEF Shape
<1>2. CASE cursor = shown.seq
  BY <1>1, <1>2 DEF Known, Before
<1>3. CASE cursor # shown.seq
  <2>1. cursor = Reached(Head(inbox), shown.seq) /\ inbox # << >>
    BY <1>3 DEF Shape, Places
  <2>2. PICK k \in 1..Len(Head(inbox)) : Data(Head(inbox)[k]) /\ Head(inbox)[k].seq = cursor
    BY <1>1, <1>3, <2>1, HeadFacts, ReachedFacts
  <2>3. 1 \in 1..Len(inbox) /\ Head(inbox) = inbox[1]
    BY <2>1, HeadFacts
  <2>4. \A n \in 1..cursor : Reaches(inbox[1], Len(inbox[1]), n)
    BY <1>1, <2>2, <2>3 DEF Reaches
  <2>5. 1 \in 1..((Len(inbox) + 1) - 1)
    BY <1>1, <2>3
  <2> QED
    BY <1>1, <2>4, <2>5 DEF Known, Before
<1> QED
  BY <1>2, <1>3

LEMMA AskComplete ==
    ASSUME Shape, Complete, StreamFails \/ MakeInput \/ LoadHttpNothing \/ Disconnect \/ Resubscribe
    PROVE  Complete'
<1>1. TypeOK /\ cursor \in Nat
  BY TypeFacts DEF Shape
<1>2. UNCHANGED <<log, head, inbox, shown, cache>>
  BY DEF StreamFails, MakeInput, LoadHttpNothing, Disconnect, Resubscribe
<1>3. \/ sub' = NoSub \/ sub' = sub
      \/ sub' = Attached(cursor) \/ sub' = Attached(NoCursor)
  BY DEF StreamFails, MakeInput, LoadHttpNothing, Disconnect, Resubscribe
<1>4. Fed(sub, head, Known) /\ Fed(NoSub, head, Known)
  BY NoSubFed DEF Complete
<1>5. Fed(Attached(cursor), head, Known)
  BY <1>1, CursorKnown, AttachedFed
<1>6. Fed(Attached(NoCursor), head, Known)
  <2>1. NoCursor \in Nat \cup {NoCursor} /\ \A n \in 1..NoCursor : n \in Known
    BY DEF NoCursor
  <2> QED
    BY <1>1, <2>1, AttachedFed
<1>7. Fed(sub', head, Known)
  BY <1>3, <1>4, <1>5, <1>6
<1> QED
  BY <1>2, <1>7, QuietStep

LEMMA SequenceComplete == ASSUME Complete, ApplySequence PROVE Complete'
<1>1. UNCHANGED <<log, head, sub, inbox, shown, cache>>
  BY DEF ApplySequence, server
<1>2. Fed(sub', head, Known)
  BY <1>1 DEF Complete
<1> QED
  BY <1>1, <1>2, QuietStep

(* A thread whose events are those of the log.                             *)
LEMMA PrefixComplete ==
    ASSUME NEW n \in Nat, NEW k \in Since(n), Needed(k)
    PROVE  k \in Elements(Prefix(n).thread)
BY PrefixFacts DEF Needed

LEMMA LoadComplete == ASSUME Shape, Complete, LoadHttp, ~Overtakes PROVE Complete'
<1>1. /\ TypeOK /\ Len(log) \in Nat /\ shown.seq \in Nat /\ shown.seq <= Len(log) /\ Len(inbox) \in Nat
  BY TypeFacts, PairFacts DEF Shape, Places
<1>2. /\ UNCHANGED <<log, head, published, inbox>>
      /\ shown' = Prefix(Len(log)) /\ cache' = Saved({Prefix(Len(log))})
      /\ sub' = Attached(Len(log))
  BY DEF LoadHttp
<1>3. Prefix(Len(log)) \in Pairs /\ Prefix(Len(log)).seq = Len(log)
  BY <1>1, PrefixFacts
<1>4. cache' = cache \/ cache' = Prefix(Len(log))
  BY <1>1, <1>2, <1>3, OneSaved
<1>5. \A i : Before(i) \subseteq Before(i)'
  <2>1. \A n \in Nat : n <= shown.seq => n <= shown'.seq
    BY <1>1, <1>2, <1>3
  <2> QED
    BY <1>2, <2>1 DEF Before, Reaches, Data
<1>6. \A n \in 1..Len(log) : n \in Known'
  BY <1>2, <1>3 DEF Known, Before
<1>7. Fed(sub, head, Known)'
  <2>1. PICK K : K = Known'
    OBVIOUS
  <2>2. Fed(Attached(Len(log)), head, K)
    BY <1>1, <1>6, <2>1, AttachedFed
  <2>3. Fed(sub', head', Known')
    BY <1>2, <2>1, <2>2
  <2> QED
    BY <1>2, <2>3, SameLogFed
<1>8. SnapshotsAhead'
  <2>1. ASSUME NEW i \in 1..Len(inbox), SnapshotOf(inbox[i]) # {}
        PROVE  shown'.seq <= inbox[i][1].seq
    <3>1. PICK k \in SnapshotOf(inbox[i]) : TRUE
      BY <2>1
    <3>2. k = 1 /\ inbox[i][1].seq \in Nat
      <4>1. inbox[i] \in Seq(Items) /\ Len(inbox[i]) = 1 /\ k \in 1..Len(inbox[i])
        BY <1>1, <2>1, <3>1, TypeFacts DEF Shape, Chunks, ChunkOK, Whole, SnapshotOf
      <4> QED
        BY <4>1, ItemFacts
    <3>3. ~(inbox[i][1].seq < Len(log))
      BY <3>1, <3>2 DEF Overtakes
    <3> QED
      BY <1>1, <1>2, <1>3, <3>2, <3>3
  <2> QED
    BY <1>2, <2>1 DEF Complete, SnapshotsAhead, SnapshotOf
<1>9. Followed'
  <2>1. ASSUME NEW i \in 1..Len(inbox')
        PROVE  Gapless(inbox[i], Before(i))'
    <3>1. PICK c, S : c = inbox'[i] /\ S = Before(i)'
      OBVIOUS
    <3>2. Gapless(c, S)
      <4>1. Gapless(inbox[i], Before(i))
        BY <1>2 DEF Complete, Followed
      <4>2. Gapless(inbox[i], S)
        BY <1>5, <3>1, <4>1, Wider
      <4> QED
        BY <1>2, <3>1, <4>2
    <3>3. Gapless(c, S)'
      BY <1>2, <3>2, SameLogGapless
    <3> QED
      BY <3>1, <3>3 DEF Gapless, Needed, Detail, Superseded, Reaches, Data
  <2> QED
    BY <2>1 DEF Followed
<1>10. PairsComplete'
  <2>1. Full(Prefix(Len(log)))
    BY <1>1, <1>3, PrefixComplete DEF Full
  <2>2. Full(cache)
    BY DEF Complete, PairsComplete
  <2> QED
    BY <1>2, <1>4, <2>1, <2>2, FullPairs
<1> QED
  BY <1>7, <1>8, <1>9, <1>10 DEF Complete

(* The client applies the chunk at the head: it is not taken back, and it  *)
(* passes every item of the chunk.                                         *)
LEMMA HeadPassed ==
    ASSUME Shape, SnapshotsAhead, ApplyData
    PROVE  /\ shown.seq \in Nat /\ shown'.seq = cursor /\ cursor \in Nat /\ shown.seq <= cursor
           /\ \A k \in 1..Len(inbox[1]) : Data(inbox[1][k]) => inbox[1][k].seq <= cursor
           /\ \/ cursor = shown.seq
              \/ \E k \in 1..Len(inbox[1]) : Data(inbox[1][k]) /\ inbox[1][k].seq = cursor
<1>1. /\ inbox # << >> /\ cursor = Reached(Head(inbox), shown.seq)
      /\ cursor \in Nat /\ shown'.seq = cursor
  BY DataFacts
<1>2. /\ 1 \in 1..Len(inbox) /\ Head(inbox) = inbox[1] /\ inbox[1] \in Seq(Items)
      /\ Sorted(inbox[1]) /\ Whole(inbox[1])
  BY <1>1, HeadFacts
<1>3. shown.seq \in Nat
  BY TypeFacts, PairFacts DEF Shape
<1>4. \A k \in 1..Len(inbox[1]) : inbox[1][k] \in Items /\ inbox[1][k].seq \in Nat
  BY <1>2, ItemFacts
<1>5. CASE SnapshotOf(inbox[1]) # {}
  <2>1. Len(inbox[1]) = 1 /\ inbox[1][1].seq = cursor
    BY <1>1, <1>2, <1>3, <1>5, ReachedFacts
  <2>2. shown.seq <= cursor
    BY <1>2, <1>5, <2>1 DEF SnapshotsAhead
  <2>3. \A k \in 1..Len(inbox[1]) : inbox[1][k].seq <= cursor
    BY <1>1, <2>1
  <2> QED
    BY <1>1, <1>2, <1>3, <2>2, <2>3, ReachedFacts
<1>6. CASE SnapshotOf(inbox[1]) = {}
  <2>1. /\ shown.seq <= cursor
        /\ \A i \in 1..Len(inbox[1]) : inbox[1][i].is = "event" => inbox[1][i].seq <= cursor
    BY <1>1, <1>2, <1>3, <1>6, ReachedFacts
  <2>2. \A i \in 1..Len(inbox[1]) : Data(inbox[1][i]) => inbox[1][i].is = "event"
    BY <1>4, <1>6 DEF SnapshotOf, Items, Data
  <2> QED
    BY <1>1, <1>2, <1>3, <2>1, <2>2, ReachedFacts
<1> QED
  BY <1>5, <1>6

(* What was before the client is before it still.                          *)
LEMMA BeforeShifts ==
    ASSUME Shape, SnapshotsAhead, ApplyData, NEW i \in 1..Len(inbox)
    PROVE  Before(i + 1) \subseteq Before(i)'
<1>1. /\ inbox # << >> /\ inbox' = Tail(inbox) /\ Len(inbox) \in Nat
  BY DataFacts, TypeFacts DEF Shape
<1>2. /\ Len(inbox') = Len(inbox) - 1
      /\ \A j \in 1..Len(inbox') : inbox'[j] = inbox[j + 1]
  BY <1>1, HeadFacts
<1>3. /\ shown.seq \in Nat /\ shown'.seq = cursor /\ cursor \in Nat /\ shown.seq <= cursor
      /\ \A k \in 1..Len(inbox[1]) : Data(inbox[1][k]) => inbox[1][k].seq <= cursor
  BY HeadPassed
<1>4. 1 \in 1..Len(inbox) /\ Head(inbox) = inbox[1] /\ inbox[1] \in Seq(Items)
  BY <1>1, HeadFacts
<1>5. \A k \in 1..Len(inbox[1]) : inbox[1][k].seq \in Nat
  BY <1>4, ItemFacts
<1>6. ASSUME NEW n \in Nat, NEW j \in 1..i, Reaches(inbox[j], Len(inbox[j]), n)
      PROVE  n <= shown'.seq \/ \E h \in 1..(i - 1) : Reaches(inbox'[h], Len(inbox'[h]), n)
  <2>1. CASE j = 1
    <3>1. PICK k \in 1..Len(inbox[1]) : Data(inbox[1][k]) /\ inbox[1][k].seq >= n
      BY <1>6, <2>1 DEF Reaches
    <3> QED
      BY <1>3, <1>5, <3>1
  <2>2. CASE j # 1
    <3>1. j - 1 \in 1..(i - 1) /\ j - 1 \in 1..Len(inbox')
      BY <1>1, <1>2, <2>2
    <3>2. inbox'[j - 1] = inbox[j]
      BY <1>2, <3>1
    <3> QED
      BY <1>6, <3>1, <3>2
  <2> QED
    BY <2>1, <2>2
<1>7. ASSUME NEW n \in Before(i + 1)
      PROVE  n \in Nat /\ (n <= shown'.seq \/ \E h \in 1..(i - 1) : Reaches(inbox'[h], Len(inbox'[h]), n))
  <2>1. (i + 1) - 1 = i
    BY <1>1
  <2>2. n \in Nat /\ (n <= shown.seq \/ \E j \in 1..i : Reaches(inbox[j], Len(inbox[j]), n))
    BY <1>7, <2>1 DEF Before
  <2> QED
    BY <1>3, <1>6, <2>2
<1> QED
  BY <1>7 DEF Before, Reaches, Data

(* A needed event that the chunk takes the client past is in the chunk.    *)
LEMMA FoundInHead ==
    ASSUME Shape, Followed, inbox # << >>, SnapshotOf(inbox[1]) = {},
           NEW n \in Nat, n > shown.seq, Needed(n), Reaches(inbox[1], Len(inbox[1]), n)
    PROVE  \E k \in 1..Len(inbox[1]) : inbox[1][k].is = "event" /\ inbox[1][k].seq = n
<1> DEFINE c == inbox[1]
           P == {k \in 1..Len(c) : Data(c[k]) /\ c[k].seq >= n}
<1>1. 1 \in 1..Len(inbox) /\ c \in Seq(Items)
  BY HeadFacts
<1>2. Len(c) \in Nat /\ \A k \in 1..Len(c) : c[k] \in Items /\ c[k].seq \in Nat
  BY <1>1, ItemFacts
<1>3. shown.seq \in Nat
  BY TypeFacts, PairFacts DEF Shape
<1>4. Gapless(c, Before(1))
  BY <1>1 DEF Followed
<1>5. n \notin Before(1)
  BY <1>3 DEF Before
<1>6. SnapshotOf(c) = {} /\ Reaches(c, Len(c), n)
  OBVIOUS
<1> HIDE DEF c
<1>7. P # {} /\ P \in SUBSET (1..Len(c))
  BY <1>6 DEF Reaches
<1>8. PICK m \in P : \A j \in 1..(m - 1) : j \notin P
  BY <1>2, <1>7, FirstPosition
<1>9. m \in 1..Len(c) /\ Data(c[m]) /\ c[m].seq >= n /\ c[m].seq \in Nat
  BY <1>2, <1>8
<1>10. c[m].is = "event"
  BY <1>2, <1>6, <1>9 DEF SnapshotOf, Items, Data
<1>11. ~Reaches(c, m - 1, n)
  <2>1. \A j \in 1..(m - 1) : j \in 1..Len(c)
    BY <1>2, <1>9
  <2> QED
    BY <1>8, <2>1 DEF Reaches
<1>12. ~(n \in 1..(c[m].seq - 1))
  BY <1>4, <1>5, <1>9, <1>10, <1>11 DEF Gapless
<1>13. c[m].seq = n
  BY <1>3, <1>9, <1>12
<1> QED
  BY <1>9, <1>10, <1>13 DEF c

LEMMA JoinElements ==
    ASSUME NEW a \in Seq(Nat), NEW b \in Seq(Nat)
    PROVE  Elements(a) \cup Elements(b) \subseteq Elements(a \o b)
<1>1. /\ Len(a \o b) = Len(a) + Len(b) /\ Len(a) \in Nat /\ Len(b) \in Nat
      /\ \A k \in 1..Len(a) : (a \o b)[k] = a[k]
      /\ \A k \in 1..Len(b) : (a \o b)[Len(a) + k] = b[k]
  OBVIOUS
<1>2. \A k \in 1..Len(a) : k \in 1..Len(a \o b)
  BY <1>1
<1>3. \A k \in 1..Len(b) : Len(a) + k \in 1..Len(a \o b)
  BY <1>1
<1> QED
  BY <1>1, <1>2, <1>3 DEF Elements

(* A complete pair that is extended by all needed events up to m.          *)
LEMMA ExtendedFull ==
    ASSUME TypeOK, NEW pair \in Pairs, Full(pair), pair.has /\ Exists => Current(pair.seq),
           NEW m \in Nat, pair.seq <= m, m <= Len(log), NEW t \in Seq(Nat),
           \A n \in (pair.seq + 1)..m : Needed(n) => n \in Elements(t)
    PROVE  Full(Extended(pair, t, m))
<1> DEFINE e == Extended(pair, t, m)
<1>1. e.has = pair.has /\ e.seq = m /\ e.thread = pair.thread \o t
  BY ExtendedFacts
<1>2. pair.thread \in Seq(Nat) /\ pair.seq \in Nat
  BY PairFacts
<1>3. Elements(pair.thread) \cup Elements(t) \subseteq Elements(e.thread)
  BY <1>1, <1>2, JoinElements
<1> HIDE DEF e
<1>4. ASSUME OfThisThread(e), NEW n \in Since(m), Needed(n)
      PROVE  n \in Elements(e.thread)
  <2>1. pair.has /\ Exists
    BY <1>1, <1>4 DEF OfThisThread
  <2>2. OfThisThread(pair)
    BY <2>1, OfThisThreadFacts
  <2>3. n \in 1..m /\ \A b \in n..m : log[b] # "created"
    BY DEF Since
  <2>4. CASE n <= pair.seq
    <3>1. n \in Since(pair.seq)
      BY <1>2, <2>3, <2>4 DEF Since
    <3> QED
      BY <1>3, <1>4, <2>2, <3>1 DEF Full
  <2>5. CASE n > pair.seq
    BY <1>2, <1>3, <1>4, <2>3, <2>5
  <2> QED
    BY <1>2, <2>3, <2>4, <2>5
<1> QED
  BY <1>1, <1>4 DEF Full, e

LEMMA DataPairs == ASSUME Shape, Order, Complete, ApplyData PROVE PairsComplete'
<1> DEFINE chunk == Head(inbox)
           new == NewEvents(chunk, shown.seq)
<1>1. /\ TypeOK /\ Len(log) \in Nat /\ shown \in Pairs /\ shown.seq \in Nat
  BY TypeFacts, PairFacts DEF Shape
<1>2. /\ UNCHANGED log
      /\ inbox # << >> /\ client.pc # "away"
      /\ cursor \in Nat /\ cursor <= Len(log)
  BY DataFacts
<1>3. Full(cache) /\ Full(shown)
  BY DEF Complete, PairsComplete
<1>4. chunk = inbox[1]
  BY <1>2, HeadFacts
<1>5. CASE SnapshotOf(chunk) # {}
  <2>1. /\ shown' = Prefix(cursor)
        /\ cache' = cache \/ cache' = Prefix(cursor)
    BY <1>5, DataEffect
  <2>2. Full(Prefix(cursor))
    <3>1. Prefix(cursor).seq = cursor
      BY <1>2, PrefixFacts
    <3> QED
      BY <1>2, <3>1, PrefixComplete DEF Full
  <2> QED
    BY <1>2, <1>3, <2>1, <2>2, FullPairs
<1>6. CASE SnapshotOf(chunk) = {}
  <2>1. /\ shown.seq <= cursor
        /\ new \in Seq(Nat) /\ Increasing(new)
        /\ Elements(new) \subseteq (shown.seq + 1)..cursor
        /\ \A i \in 1..Len(chunk) : chunk[i].is = "event" /\ chunk[i].seq > shown.seq
              => chunk[i].seq \in Elements(new)
        /\ \A n \in Elements(new) : \E i \in 1..Len(chunk) :
              chunk[i].is = "event" /\ chunk[i].seq = n
        /\ shown' = IF shown.has THEN Extended(shown, new, cursor) ELSE Moved(shown, cursor)
        /\ \/ cache' = cache
           \/ /\ shown.has
              /\ \E k \in 1..Len(new) : cache' = Extended(shown, SubSeq(new, 1, k), new[k])
    BY <1>6, DataEffect
  <2>2. ~Stale
    BY <1>2, <1>6 DEF Order, StaleWaits
  <2>3. Exists /\ shown.has => Current(shown.seq)
    BY <1>2, <2>2 DEF Stale
  <2>4. \/ cursor = shown.seq
        \/ \E k \in 1..Len(chunk) : Data(chunk[k]) /\ chunk[k].seq = cursor
    BY <1>4, HeadPassed DEF Complete
  <2>5. chunk \in Seq(Items)
    BY <1>2, HeadFacts
  <2> HIDE DEF new, chunk
  <2>6. ASSUME NEW n \in Nat, n > shown.seq, Needed(n), Reaches(chunk, Len(chunk), n)
        PROVE  n \in Elements(new)
    <3>1. \E k \in 1..Len(chunk) : chunk[k].is = "event" /\ chunk[k].seq = n
      BY <1>2, <1>4, <1>6, <2>6, FoundInHead DEF Complete
    <3> QED
      BY <2>1, <2>6, <3>1
  <2>7. Full(shown')
    <3>1. CASE shown.has
      <4>1. ASSUME NEW n \in (shown.seq + 1)..cursor, Needed(n)
            PROVE  n \in Elements(new)
        <5>1. n \in Nat /\ n > shown.seq /\ n <= cursor
          BY <1>1, <1>2
        <5>2. Reaches(chunk, Len(chunk), n)
          BY <1>1, <1>2, <2>4, <5>1 DEF Reaches
        <5> QED
          BY <2>6, <4>1, <5>1, <5>2
      <4>2. Full(Extended(shown, new, cursor))
        BY <1>1, <1>2, <1>3, <2>1, <2>3, <4>1, ExtendedFull
      <4> QED
        BY <2>1, <3>1, <4>2
    <3>2. CASE ~shown.has
      <4>1. ~shown'.has
        BY <1>1, <1>2, <2>1, <3>2, MovedFacts
      <4> QED
        BY <4>1 DEF Full, OfThisThread
    <3> QED
      BY <3>1, <3>2
  <2>8. Full(cache')
    <3>1. CASE cache' = cache
      BY <1>3, <3>1
    <3>2. CASE cache' # cache
      <4>1. PICK k \in 1..Len(new) : cache' = Extended(shown, SubSeq(new, 1, k), new[k])
        BY <2>1, <3>2
      <4>2. /\ SubSeq(new, 1, k) \in Seq(Nat)
            /\ Elements(SubSeq(new, 1, k)) = {n \in Elements(new) : n <= new[k]}
        BY <2>1, FirstPart
      <4>3. new[k] \in Elements(new) /\ new[k] \in (shown.seq + 1)..cursor
        BY <2>1 DEF Elements
      <4>4. new[k] \in Nat /\ shown.seq <= new[k] /\ new[k] <= Len(log)
        BY <1>1, <1>2, <4>3
      <4>5. PICK i \in 1..Len(chunk) : chunk[i].is = "event" /\ chunk[i].seq = new[k]
        BY <2>1, <4>3
      <4>6. ASSUME NEW n \in (shown.seq + 1)..new[k], Needed(n)
            PROVE  n \in Elements(SubSeq(new, 1, k))
        <5>1. n \in Nat /\ n > shown.seq /\ n <= new[k]
          BY <1>1, <4>4
        <5>2. Data(chunk[i]) /\ chunk[i].seq >= n
          BY <4>4, <4>5, <5>1 DEF Data
        <5>3. Reaches(chunk, Len(chunk), n)
          BY <5>2 DEF Reaches
        <5> QED
          BY <2>6, <4>2, <4>6, <5>1, <5>3
      <4>7. Full(Extended(shown, SubSeq(new, 1, k), new[k]))
        BY <1>1, <1>3, <2>3, <4>2, <4>4, <4>6, ExtendedFull
      <4> QED
        BY <4>1, <4>7
    <3> QED
      BY <3>1, <3>2
  <2> QED
    BY <1>2, <2>7, <2>8, FullPairs
<1> QED
  BY <1>5, <1>6

LEMMA DataComplete == ASSUME Shape, Order, Complete, ApplyData PROVE Complete'
<1>1. /\ UNCHANGED <<log, head, sub>> /\ inbox # << >> /\ inbox' = Tail(inbox)
      /\ head \in Nat /\ Len(inbox) \in Nat /\ inbox \in Seq(Seq(Items))
  BY DataFacts, TypeFacts DEF Shape
<1>2. /\ Len(inbox') = Len(inbox) - 1
      /\ \A j \in 1..Len(inbox') : inbox'[j] = inbox[j + 1]
  BY <1>1, HeadFacts
<1>3. SnapshotsAhead /\ Followed
  BY DEF Complete
<1>4. /\ shown.seq \in Nat /\ shown'.seq = cursor /\ cursor \in Nat /\ shown.seq <= cursor
      /\ \/ cursor = shown.seq
         \/ \E k \in 1..Len(inbox[1]) : Data(inbox[1][k]) /\ inbox[1][k].seq = cursor
  BY <1>3, HeadPassed
<1>5. Fed(sub, head, Known)'
  <2>1. Known \subseteq Known'
    <3>1. PICK N : N = Len(inbox)
      OBVIOUS
    <3>2. N \in 1..Len(inbox) /\ N - 1 = Len(inbox')
      BY <1>1, <1>2, <3>1, HeadFacts
    <3>3. Before(N + 1) \subseteq Before(N)'
      BY <1>3, <3>2, BeforeShifts
    <3>4. Known = Before(N + 1)
      BY <3>1 DEF Known
    <3>5. ASSUME NEW n \in Before(N + 1)
          PROVE  n \in Nat /\ (n <= shown'.seq
                    \/ \E j \in 1..Len(inbox') : Reaches(inbox'[j], Len(inbox'[j]), n))
      BY <3>2, <3>3, <3>5 DEF Before, Reaches, Data
    <3>6. (Len(inbox') + 1) - 1 = Len(inbox')
      BY <1>1, <1>2
    <3> QED
      BY <3>4, <3>5, <3>6 DEF Known, Before, Reaches, Data
  <2>2. PICK K : K = Known'
    OBVIOUS
  <2>3. Fed(sub, head, K)
    BY <1>1, <2>1, <2>2, FedWider DEF Complete
  <2>4. Fed(sub', head', Known')
    BY <1>1, <2>2, <2>3
  <2> QED
    BY <1>1, <2>4, SameLogFed
<1>6. SnapshotsAhead'
  <2>1. ASSUME NEW i \in 1..Len(inbox'), SnapshotOf(inbox'[i]) # {}
        PROVE  /\ shown'.seq <= inbox'[i][1].seq
               /\ \A j \in 1..(i - 1) : \A m \in 1..Len(inbox'[j]) :
                     inbox'[j][m].seq <= inbox'[i][1].seq
    <3>1. i + 1 \in 1..Len(inbox) /\ inbox'[i] = inbox[i + 1] /\ 1 \in 1..((i + 1) - 1)
      BY <1>1, <1>2
    <3>2. /\ shown.seq <= inbox[i + 1][1].seq
          /\ \A j \in 1..((i + 1) - 1) : \A m \in 1..Len(inbox[j]) :
                inbox[j][m].seq <= inbox[i + 1][1].seq
      BY <1>3, <2>1, <3>1 DEF SnapshotsAhead
    <3>3. cursor <= inbox[i + 1][1].seq
      BY <1>4, <3>1, <3>2
    <3>4. ASSUME NEW j \in 1..(i - 1)
          PROVE  j + 1 \in 1..((i + 1) - 1) /\ inbox'[j] = inbox[j + 1]
      BY <1>1, <1>2
    <3>5. ASSUME NEW j \in 1..(i - 1), NEW m \in 1..Len(inbox'[j])
          PROVE  inbox'[j][m].seq <= inbox'[i][1].seq
      BY <3>1, <3>2, <3>4
    <3> QED
      BY <1>4, <3>1, <3>3, <3>5
  <2> QED
    BY <2>1 DEF SnapshotsAhead, SnapshotOf
<1>7. Followed'
  <2>1. ASSUME NEW i \in 1..Len(inbox')
        PROVE  Gapless(inbox[i], Before(i))'
    <3>1. PICK c, S : c = inbox'[i] /\ S = Before(i)'
      OBVIOUS
    <3>2. i + 1 \in 1..Len(inbox) /\ i \in 1..Len(inbox) /\ c = inbox[i + 1]
      BY <1>1, <1>2, <3>1
    <3>3. Gapless(c, Before(i + 1))
      BY <1>3, <3>2 DEF Followed
    <3>4. Before(i + 1) \subseteq S
      BY <1>3, <3>1, <3>2, BeforeShifts
    <3>5. Gapless(c, S)
      BY <3>3, <3>4, Wider
    <3>6. Gapless(c, S)'
      BY <1>1, <3>5, SameLogGapless
    <3> QED
      BY <3>1, <3>6 DEF Gapless, Needed, Detail, Superseded, Reaches, Data
  <2> QED
    BY <2>1 DEF Followed
<1> QED
  BY <1>5, <1>6, <1>7, DataPairs DEF Complete

LEMMA ViewComplete == ASSUME Shape, Complete, Leave \/ Return PROVE Complete'
<1>1. TypeOK
  BY DEF Shape
<1>2. /\ UNCHANGED log /\ inbox' = << >> /\ sub' = NoSub
      /\ shown' \in {shown, cache} /\ cache' \in {shown, cache}
  <2>1. CASE Leave
    BY <1>1, <2>1, LeaveFacts
  <2>2. CASE Return
    BY <1>1, <2>2, ReturnFacts DEF Shape, Places
  <2> QED
    BY <2>1, <2>2
<1>3. PairsComplete'
  <2>1. Full(shown) /\ Full(cache)
    BY DEF Complete, PairsComplete
  <2> QED
    BY <1>2, <2>1, FullPairs
<1>4. Fed(sub, head, Known)'
  <2>1. PICK h, K : h = head' /\ K = Known'
    OBVIOUS
  <2>2. Fed(sub', head', Known')
    BY <1>2, <2>1, NoSubFed
  <2> QED
    BY <1>2, <2>2, SameLogFed
<1>5. Len(inbox') = 0 /\ 1..Len(inbox') = {}
  BY <1>2, EmptyFacts
<1>6. SnapshotsAhead' /\ Followed'
  BY <1>5 DEF SnapshotsAhead, Followed
<1> QED
  BY <1>3, <1>4, <1>6 DEF Complete

(* A commit makes nothing that was needed less complete: an event may only *)
(* come to be superseded.                                                  *)
LEMMA LongerLog ==
    ASSUME TypeOK, NEW kind \in Kinds, Commit(kind)
    PROVE  \A n \in 1..Len(log) :
              log'[n] = log[n] /\ (Detail(n)' <=> Detail(n)) /\ (Needed(n)' => Needed(n))
<1>1. /\ Len(log) \in Nat /\ Len(log') = Len(log) + 1
      /\ \A n \in 1..Len(log) : log'[n] = log[n]
  BY TypeFacts, CommitFacts
<1>2. ASSUME NEW n \in 1..Len(log)
      PROVE  Detail(n)' <=> Detail(n)
  BY <1>1 DEF Detail
<1>3. ASSUME NEW n \in 1..Len(log), Superseded(n)
      PROVE  Superseded(n)'
  <2>1. PICK m \in (n + 1)..Len(log) : log[m] = log[n] /\ \A k \in n..m : log[k] # "text"
    BY <1>3 DEF Superseded
  <2>2. m \in 1..Len(log) /\ m \in (n + 1)..Len(log')
    BY <1>1
  <2>3. \A k \in n..m : k \in 1..Len(log)
    BY <1>1
  <2>4. log'[n] \in Calls /\ log'[m] = log'[n] /\ \A k \in n..m : log'[k] # "text"
    BY <1>1, <1>3, <2>1, <2>2, <2>3 DEF Superseded
  <2> QED
    BY <2>2, <2>4 DEF Superseded
<1> QED
  BY <1>1, <1>2, <1>3 DEF Needed

LEMMA LongerGapless ==
    ASSUME TypeOK, NEW kind \in Kinds, Commit(kind),
           NEW chunk \in Seq(Items), Within(chunk, Len(log)), NEW S, Gapless(chunk, S)
    PROVE  Gapless(chunk, S)'
<1>1. Len(log) \in Nat
  BY TypeFacts
<1>2. \A k \in 1..Len(chunk) : chunk[k].seq \in Nat /\ chunk[k].seq <= Len(log)
  BY ItemFacts DEF Within
<1>3. ASSUME NEW k \in 1..Len(chunk), chunk[k].is = "event", NEW n \in 1..(chunk[k].seq - 1), Needed(n)'
      PROVE  n \in S \/ Reaches(chunk, k - 1, n)
  <2>1. n \in 1..Len(log)
    BY <1>1, <1>2
  <2>2. Needed(n)
    BY <1>3, <2>1, LongerLog
  <2> QED
    BY <1>3, <2>2 DEF Gapless
<1>4. ASSUME NEW k \in 1..Len(chunk), chunk[k].is = "synchronized", NEW n \in 1..chunk[k].seq, Detail(n)'
      PROVE  n \in S \/ Reaches(chunk, k - 1, n)
  <2>1. n \in 1..Len(log)
    BY <1>1, <1>2
  <2>2. Detail(n)
    BY <1>4, <2>1, LongerLog
  <2> QED
    BY <1>4, <2>2 DEF Gapless
<1> QED
  BY <1>3, <1>4 DEF Gapless, Reaches, Data

LEMMA LongerLive ==
    ASSUME TypeOK, NEW kind \in Kinds, Commit(kind), NEW s \in Subs, Buffered(s),
           Within(s.output, Len(log)), s.pulled <= Len(log), NEW S, Live(s, S)
    PROVE  Live(s, S)'
<1>1. Len(log) \in Nat /\ s.pulled \in Nat /\ s.output \in Seq(Items)
  BY TypeFacts DEF Subs
<1>2. Gapless(s.output, S)'
  BY <1>1, LongerGapless DEF Live
<1>3. Taken(s, S)'
  <2>1. ASSUME NEW n \in 1..s.pulled, Detail(n)'
        PROVE  n \in S \cup Passes(s.output) \cup Elements(s.pending)
    <3>1. n \in 1..Len(log)
      BY <1>1
    <3>2. Detail(n)
      BY <2>1, <3>1, LongerLog
    <3> QED
      BY <3>2 DEF Live, Taken
  <2> QED
    BY <2>1 DEF Taken, Passes, Reaches, Data, Elements
<1>4. Quiet(s)'
  <2>1. ASSUME NEW x \in Elements(s.pending), NEW y \in x..s.pulled
        PROVE  log'[y] # "text"
    <3>1. x \in 1..s.pulled
      BY DEF Buffered, Elements
    <3>2. y \in 1..Len(log)
      BY <1>1, <3>1
    <3> QED
      BY <3>2, LongerLog DEF Live, Quiet
  <2> QED
    BY <2>1 DEF Quiet, Elements
<1> QED
  BY <1>2, <1>3, <1>4 DEF Live

LEMMA LongerFed ==
    ASSUME TypeOK, NEW kind \in Kinds, Commit(kind), NEW s \in Subs, Buffered(s),
           Within(s.output, Len(log)), s.pulled <= Len(log), s.mark <= Len(log),
           NEW h, NEW K, Fed(s, h, K)
    PROVE  Fed(s, h, K)'
<1>1. Active(s) => Live(s, Base(s, h, K))'
  BY LongerLive DEF Fed, Active, Base
<1>2. Len(log) \in Nat /\ s.mark \in Nat
  BY TypeFacts DEF Subs
<1>3. ASSUME Replaying(s), NEW n \in 1..s.mark, Detail(n)'
      PROVE  n \in K \/ n \in Elements(s.rest)
  <2>1. n \in 1..Len(log)
    BY <1>2
  <2>2. Detail(n)
    BY <1>3, <2>1, LongerLog
  <2> QED
    BY <1>3, <2>2 DEF Fed
<1> QED
  BY <1>1, <1>3 DEF Fed, Active, Replaying, Elements

LEMMA LongerFull ==
    ASSUME TypeOK, NEW kind \in Kinds, Commit(kind),
           NEW pair, pair.seq \in 0..Len(log), Full(pair)
    PROVE  Full(pair)'
<1>1. /\ kind # "created" /\ Exists' => Exists
      /\ Current(pair.seq)' => Current(pair.seq) /\ kind # "created"
      /\ Since(pair.seq)' = Since(pair.seq)
  BY ThreadBefore
<1>2. OfThisThread(pair)' => OfThisThread(pair)
  BY <1>1 DEF OfThisThread, Current
<1>3. ASSUME OfThisThread(pair)', NEW n \in Since(pair.seq), Needed(n)'
      PROVE  n \in Elements(pair.thread)
  <2>1. Len(log) \in Nat /\ n \in 1..pair.seq
    BY TypeFacts DEF Since
  <2>2. n \in 1..Len(log)
    BY <2>1
  <2>3. Needed(n)
    BY <1>3, <2>2, LongerLog
  <2> QED
    BY <1>2, <1>3, <2>3 DEF Full
<1> QED
  BY <1>1, <1>3 DEF Full, Elements

LEMMA CommitComplete == ASSUME Shape, Complete, NEW kind \in Kinds, Commit(kind) PROVE Complete'
<1>1. /\ TypeOK /\ Len(log) \in Nat /\ inbox \in Seq(Seq(Items)) /\ sub \in Subs
      /\ shown \in Pairs /\ cache \in Pairs /\ published <= Len(log)
      /\ published \in Nat
      /\ shown.seq \in 0..Len(log) /\ cache.seq \in 0..Len(log)
  <2>1. /\ TypeOK /\ Len(log) \in Nat /\ inbox \in Seq(Seq(Items)) /\ sub \in Subs
        /\ shown \in Pairs /\ cache \in Pairs
        /\ published \in Nat /\ head \in Nat /\ published <= head /\ head <= Len(log)
    BY TypeFacts DEF Shape
  <2>2. shown.seq \in Nat /\ cache.seq \in Nat
    BY <2>1, PairFacts
  <2> QED
    BY <2>1, <2>2 DEF Shape, Places
<1>2. UNCHANGED <<head, published, sub, inbox, client, cursor, shown, cache>>
  BY <1>1, CommitFacts
<1>3. Known' = Known /\ \A i : Before(i)' = Before(i)
  BY <1>2 DEF Known, Before, Reaches, Data
<1>4. Fed(sub, head, Known)'
  <2>1. sub.pulled \in Nat /\ sub.mark \in Nat
    BY <1>1 DEF Subs
  <2>2. Buffered(sub) /\ Within(sub.output, Len(log)) /\ sub.pulled <= Len(log) /\ sub.mark <= Len(log)
    BY <1>1, <2>1 DEF Shape, Buffers, Reads
  <2>3. PICK s, h, K : s = sub /\ h = head /\ K = Known
    OBVIOUS
  <2>4. s \in Subs /\ Fed(s, h, K)
    BY <1>1, <2>3 DEF Complete
  <2>5. Fed(s, h, K)'
    BY <1>1, <2>2, <2>3, <2>4, LongerFed
  <2>6. s = sub' /\ h = head' /\ K = Known'
    BY <1>2, <1>3, <2>3
  <2> QED
    BY <2>5, <2>6 DEF Fed, Live, Gapless, Taken, Quiet, Base, Active, Replaying, Reaches,
       Passes,
                      Elements, Data
<1>5. SnapshotsAhead'
  BY <1>2 DEF Complete, SnapshotsAhead, SnapshotOf
<1>6. Followed'
  <2>1. ASSUME NEW i \in 1..Len(inbox)
        PROVE  Gapless(inbox[i], Before(i))'
    <3>1. PICK c, S : c = inbox[i] /\ S = Before(i)
      OBVIOUS
    <3>2. c \in Seq(Items) /\ Within(c, Len(log)) /\ Gapless(c, S)
      BY <1>1, <3>1 DEF Shape, Chunks, ChunkOK, Complete, Followed
    <3>3. Gapless(c, S)'
      BY <1>1, <3>2, LongerGapless
    <3>4. c = inbox'[i] /\ S = Before(i)'
      BY <1>2, <1>3, <3>1
    <3> QED
      BY <3>3, <3>4 DEF Gapless, Reaches, Data
  <2> QED
    BY <1>2, <2>1 DEF Followed
<1>7. PairsComplete'
  <2>1. PICK a, b : a = shown /\ b = cache
    OBVIOUS
  <2>2. Full(a)' /\ Full(b)'
    BY <1>1, <2>1, LongerFull DEF Complete, PairsComplete
  <2>3. a = shown' /\ b = cache'
    BY <1>2, <2>1
  <2> QED
    BY <2>2, <2>3 DEF PairsComplete, Full, OfThisThread, Exists, Since, Elements
<1> QED
  BY <1>4, <1>5, <1>6, <1>7 DEF Complete

LEMMA InitComplete == ASSUME Init PROVE Complete
<1>1. /\ sub = NoSub /\ inbox = << >> /\ shown = Nothing /\ cache = Nothing
  BY DEF Init
<1>2. Fed(sub, head, Known)
  BY <1>1, NoSubFed
<1>3. Len(inbox) = 0 /\ 1..Len(inbox) = {}
  BY <1>1, EmptyFacts
<1>4. SnapshotsAhead /\ Followed
  BY <1>3 DEF SnapshotsAhead, Followed
<1>5. PairsComplete
  BY <1>1 DEF PairsComplete, Full, OfThisThread, Nothing
<1> QED
  BY <1>2, <1>4, <1>5 DEF Complete

LEMMA CompleteKept == ASSUME Shape, Order, Complete, [Next]_vars, LoadHttp => ~Overtakes PROVE Complete'
<1>1. CASE UNCHANGED vars
  <2>1. UNCHANGED <<log, inbox, shown, cache>> /\ Fed(sub', head', Known)
    BY <1>1 DEF vars, Complete
  <2> QED
    BY <2>1, QuietStep
<1>2. ASSUME NEW kind \in Kinds, Commit(kind)
      PROVE  Complete'
  BY <1>2, CommitComplete
<1>3. CASE UpdateReadModel \/ Publish
  BY <1>3, EngineComplete
<1>4. CASE Buffering \/ Acknowledge
  BY <1>4, BufferComplete
<1>5. CASE Serving
  BY <1>5, ServeComplete
<1>6. CASE StreamFails \/ MakeInput \/ LoadHttpNothing \/ Disconnect \/ Resubscribe
  BY <1>6, AskComplete
<1>7. CASE LoadHttp
  BY <1>7, LoadComplete
<1>8. CASE ApplySequence
  BY <1>8, SequenceComplete
<1>9. CASE ApplyData
  BY <1>9, DataComplete
<1>10. CASE Leave \/ Return
  BY <1>10, ViewComplete
<1> QED
  BY <1>1, <1>2, <1>3, <1>4, <1>5, <1>6, <1>7, <1>8, <1>9, <1>10 DEF Next, Progress,
     Subscribing, Applying

LEMMA CompletePairs == ASSUME ~client.overtaken => Complete PROVE NothingMissing
BY DEF Complete, PairsComplete, Full, NothingMissing, Needed, Elements

(* The history of a load that overtook an old snapshot stays.              *)
LEMMA StaysOvertaken ==
    ASSUME Shape, [Next]_vars, ~client'.overtaken
    PROVE  ~client.overtaken /\ (LoadHttp => ~Overtakes)
<1>1. client \in Clients
  BY ClientFacts DEF Shape
<1>2. CASE LoadHttp
  <2>1. PICK b : b = (client.overtaken \/ Overtakes)
    OBVIOUS
  <2>2. client' = [client EXCEPT !.pc = "subscribed", !.status = Showing(client), !.overtaken = b]
    BY <1>2, <2>1 DEF LoadHttp
  <2>3. client'.overtaken = b
    BY <1>1, <2>2 DEF Clients
  <2> QED
    BY <2>1, <2>3, Zenon
<1>3. ASSUME UNCHANGED client
      PROVE  ~client.overtaken
  BY <1>3
<1>4. ASSUME UNCHANGED client.overtaken
      PROVE  ~client.overtaken
  BY <1>4
<1>5. ASSUME UNCHANGED vars PROVE ~client.overtaken
  BY <1>3, <1>5 DEF vars
<1>6. ASSUME \E kind \in Kinds : Commit(kind) PROVE ~client.overtaken
  BY <1>3, <1>6 DEF Commit, view
<1>7. ASSUME UpdateReadModel \/ Publish \/ Buffering \/ Acknowledge PROVE ~client.overtaken
  BY <1>3, <1>7 DEF UpdateReadModel, Publish, Buffering, Intake, FlushWindow, Acknowledge, view
<1>8. ASSUME Serving PROVE ~client.overtaken
  BY <1>3, <1>8 DEF Serving, Measure, ReadSnapshot, SnapshotMissing, CatchUp, OfferMarker, Deliver,
     Send, view
<1>9. ASSUME StreamFails \/ MakeInput \/ LoadHttpNothing \/ Disconnect \/ Resubscribe PROVE ~client.overtaken
  <2>1. client'.overtaken = client.overtaken
    BY <1>1, <1>9 DEF StreamFails, MakeInput, LoadHttpNothing, Disconnect, Resubscribe, Clients
  <2> QED
    BY <2>1
<1>10. ASSUME ApplySequence PROVE ~client.overtaken
  <2>1. client'.overtaken = client.overtaken
    BY <1>1, <1>10 DEF ApplySequence, Clients
  <2> QED
    BY <2>1
<1>11. ASSUME ApplyData PROVE ~client.overtaken
  <2>1. client'.overtaken = client.overtaken
    BY <1>1, <1>11, DataFacts
  <2> QED
    BY <2>1
<1>12. ASSUME Leave PROVE ~client.overtaken
  <2>1. client'.overtaken = client.overtaken
    BY <1>1, <1>12 DEF Leave, Gone
  <2> QED
    BY <2>1
<1>13. ASSUME Return PROVE ~client.overtaken
  <2>1. client'.overtaken = client.overtaken
    BY <1>1, <1>13 DEF Return, Clients
  <2> QED
    BY <2>1
<1>14. ~LoadHttp => ~client.overtaken
  BY <1>5, <1>6, <1>7, <1>8, <1>9, <1>10, <1>11, <1>12, <1>13 DEF Next, Progress, Subscribing, Applying
<1> QED
  BY <1>2, <1>14

(* Between the log, the subscription, the chunks and the client no event   *)
(* is skipped, as long as no HTTP load has overtaken an older snapshot     *)
(* that the client had received and not applied (threads.ts loads without  *)
(* waiting for the buffered chunks).                                       *)
LEMMA CompleteAlways == Spec => [](Shape /\ (~client.overtaken => Complete))
<1> DEFINE IInv == Shape /\ Order /\ (~client.overtaken => Complete)
<1>1. Init => IInv
  BY InitShape, InitOrder, InitComplete
<1>2. IInv /\ [Next]_vars => IInv'
  <2> SUFFICES ASSUME IInv, [Next]_vars PROVE IInv'
    OBVIOUS
  <2>1. Shape' /\ Order'
    BY ShapeKept, OrderKept
  <2>2. ASSUME ~client'.overtaken PROVE Complete'
    <3>1. ~client.overtaken /\ (LoadHttp => ~Overtakes)
      BY <2>2, StaysOvertaken
    <3> QED
      BY <3>1, CompleteKept
  <2> QED
    BY <2>1, <2>2
<1>3. IInv => Shape /\ (~client.overtaken => Complete)
  OBVIOUS
<1> QED
  BY <1>1, <1>2, <1>3, PTL DEF Spec

(* The thread shown or cached holds every event up to its sequence that is *)
(* not a superseded tool update: none is lost between replay, snapshot,    *)
(* live buffer and client, nor by an overflow, a lost session or a view    *)
(* left half way, unless an old snapshot was overtaken by a load.          *)
THEOREM NothingIsMissing == Spec => []NothingMissing
<1>1. (~client.overtaken => Complete) => NothingMissing
  BY CompletePairs
<1> QED
  BY <1>1, CompleteAlways, PTL

(* Only applying a chunk ends the application of a chunk in an open view.  *)
LEMMA AppliedByData ==
    ASSUME Shape, [Next]_vars, client.applying, ~client'.applying, client'.pc # "away"
    PROVE  ApplyData
<1>1. /\ client \in [pc : {"away", "off", "loading", "subscribed"},
                     awaiting : BOOLEAN, status : {"empty", "cached", "synchronizing", "live"},
                     error : BOOLEAN, warm : BOOLEAN, applying : BOOLEAN, overtaken : BOOLEAN]
      /\ client.pc = "away" => ~client.applying
  BY DEF Shape, TypeOK, Places
<1>2. client' # client
  OBVIOUS
<1>3. ~UNCHANGED vars
  BY <1>2 DEF vars
<1>4. ~\E kind \in Kinds : Commit(kind)
  BY <1>2 DEF Commit, view
<1>5. ~(UpdateReadModel \/ Publish \/ Buffering \/ Acknowledge)
  BY <1>2 DEF UpdateReadModel, Publish, Buffering, Intake, FlushWindow, Acknowledge, view
<1>6. ~Serving
  BY <1>2 DEF Serving, Measure, ReadSnapshot, SnapshotMissing, CatchUp, OfferMarker, Deliver,
     Send, view
<1>7. ~(StreamFails \/ MakeInput \/ LoadHttpNothing \/ Disconnect \/ Resubscribe)
  <2>1. ASSUME StreamFails \/ MakeInput \/ LoadHttpNothing \/ Disconnect \/ Resubscribe
        PROVE  client'.applying = client.applying
    BY <1>1, <2>1 DEF StreamFails, MakeInput, LoadHttpNothing, Disconnect, Resubscribe
  <2> QED
    BY <2>1
<1>8. ~LoadHttp /\ ~ApplySequence
  BY DEF LoadHttp, ApplySequence
<1>9. ~Leave
  BY DEF Leave, Gone
<1>10. ~Return
  BY <1>1 DEF Return
<1> QED
  BY <1>3, <1>4, <1>5, <1>6, <1>7, <1>8, <1>9, <1>10 DEF Next, Progress, Subscribing, Applying

LEMMA MarkerStep ==
    ASSUME Shape, Complete, ApplyData
    PROVE  \A i \in MarkersOf(Head(inbox)) :
              \A n \in 1..Head(inbox)[i].seq : Detail(n) => n <= shown'.seq
<1> DEFINE c == inbox[1]
<1>1. inbox # << >> /\ SnapshotsAhead /\ Followed
  BY DataFacts DEF Complete
<1>2. 1 \in 1..Len(inbox) /\ Head(inbox) = c /\ c \in Seq(Items)
  BY <1>1, HeadFacts
<1>3. /\ shown.seq \in Nat /\ shown'.seq = cursor /\ cursor \in Nat /\ shown.seq <= cursor
      /\ \A k \in 1..Len(c) : Data(c[k]) => c[k].seq <= cursor
  BY <1>1, HeadPassed
<1>4. Gapless(c, Before(1))
  BY <1>1, <1>2 DEF Followed
<1>5. Len(c) \in Nat /\ \A k \in 1..Len(c) : c[k].seq \in Nat
  BY <1>2, ItemFacts
<1> HIDE DEF c
<1>6. ASSUME NEW i \in MarkersOf(c), NEW n \in 1..c[i].seq, Detail(n)
      PROVE  n <= cursor
  <2>1. i \in 1..Len(c) /\ c[i].is = "synchronized"
    BY DEF MarkersOf
  <2>2. n \in Before(1) \/ Reaches(c, i - 1, n)
    BY <1>4, <1>6, <2>1 DEF Gapless
  <2>3. n \in Nat
    BY <1>5, <2>1
  <2>4. CASE n \in Before(1)
    BY <1>3, <2>3, <2>4 DEF Before
  <2>5. CASE Reaches(c, i - 1, n)
    <3>1. PICK k \in 1..(i - 1) : Data(c[k]) /\ c[k].seq >= n
      BY <2>5 DEF Reaches
    <3>2. k \in 1..Len(c)
      BY <1>5, <2>1
    <3> QED
      BY <1>3, <1>5, <2>3, <3>1, <3>2
  <2> QED
    BY <2>2, <2>4, <2>5
<1> QED
  BY <1>2, <1>3, <1>6

(* The synchronized marker, when it ends the client's wait, comes after    *)
(* all that the server had read and taken for the subscription before it,  *)
(* unless an old snapshot was overtaken by a load.                         *)
THEOREM MarkerIsTrue == Spec => MarkerTrue
<1>1. Shape /\ (~client.overtaken => Complete) /\ [Next]_vars
         => [(/\ inbox # << >> /\ client.applying /\ ~client'.applying /\ client'.pc # "away"
              /\ ~client.overtaken)
                => \A i \in MarkersOf(Head(inbox)) :
                      \A n \in 1..Head(inbox)[i].seq : Detail(n) => n <= shown'.seq]_vars
  BY AppliedByData, MarkerStep
<1> QED
  BY <1>1, CompleteAlways, PTL DEF Spec, MarkerTrue
=============================================================================
