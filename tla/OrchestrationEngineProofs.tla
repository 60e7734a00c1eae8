--------------------- MODULE OrchestrationEngineProofs ---------------------
(***************************************************************************)
(* Proofs about OrchestrationEngine for any sets of command ids and        *)
(* aggregates, any number of dispatches and crashes, any batch size: that  *)
(* a command is applied at most once (IInv), that the engine implements    *)
(* the exactly-once command log it promises (RInv), and how the read model *)
(* and the PubSub follow the event log (MInv).                             *)
(***************************************************************************)
EXTENDS OrchestrationEngine, SequenceTheorems, TLAPS

-----------------------------------------------------------------------------
(***************************************************************************)
(* At most once.                                                           *)
(*                                                                         *)
(* AppliedOnce is not inductive: that Commit appends for a fresh id is     *)
(* known only because the lookup of several steps ago found no receipt and *)
(* nothing but the worker writes one.  StillFresh says that, and that what *)
(* the guards found is still so when the transaction runs.                 *)
(***************************************************************************)
(* While the worker is to write a receipt, its command's id has none; and  *)
(* what was decided or checked before the transaction still holds in it.   *)
MayWriteReceipt ==
    \/ worker.at \in {"guard", "decide", "commit", "receipt"}
    \/ worker.at \in {"reconcile", "publish"} /\ worker.result.is = "rejected"

StillFresh ==
    /\ MayWriteReceipt => receipts[Holding.id] = NoReceipt
    /\ worker.at = "commit" /\ worker.plan # NoPlan =>
          worker.plan[Len(worker.plan)].agg = Holding.agg
    /\ worker.at \in {"decide", "commit"} => ~GuardRefuses(Holding)
    /\ worker.at = "advance" => Len(worker.plan) <= Len(log)

IInv == TypeOK /\ StillFresh /\ AppliedOnce

-----------------------------------------------------------------------------
(* The sets of records the types are made of.                              *)
LEMMA DataFacts ==
    /\ Down \in Worker /\ Idle \in Worker
    /\ NoPlan \in Seq(Planned)
    /\ \A a \in Failures \cup {"waiting", "lost"} : Is(a) \in Answer
    /\ \A n \in Nat : Accepted(n) \in Answer
<1>1. NoPlan \in Seq(Planned)
  BY DEF NoPlan
<1>2. \A a \in Failures \cup {"waiting", "lost"} : Is(a) \in Answer
  BY DEF Is, Answer
<1>3. \A n \in Nat : Accepted(n) \in Answer
  BY DEF Accepted, Answer
<1>4. Down \in Worker /\ Idle \in Worker
  BY <1>1, <1>2 DEF Down, Idle, Worker, Phases
<1> QED
  BY <1>1, <1>2, <1>3, <1>4

(* A decided list of events is a sequence that ends on the aggregate.      *)
LEMMA PlansFacts ==
    ASSUME NEW c \in Command, NEW plan \in Plans(c)
    PROVE  /\ plan \in Seq(Planned)
           /\ plan # NoPlan => plan[Len(plan)].agg = c.agg
<1>1. CASE plan = NoPlan
  BY <1>1, DataFacts
<1>2. CASE plan # NoPlan
  <2>1. PICK n \in 1..MaxPlan : plan \in [1..n -> Planned]
    BY <1>2 DEF Plans
  <2>2. plan \in Seq(Planned)
    BY <2>1, BoundsAssumption
  <2> QED
    BY <1>2, <2>2 DEF Plans
<1> QED
  BY <1>1, <1>2

(* The batch a transaction appends.                                        *)
LEMMA StampedFacts ==
    ASSUME NEW c \in Command, NEW plan \in Seq(Planned)
    PROVE  /\ Stamped(c, plan) \in Seq(Event)
           /\ Len(Stamped(c, plan)) = Len(plan)
           /\ \A i \in 1..Len(plan) : /\ Stamped(c, plan)[i].cmd = c.id
                                      /\ Stamped(c, plan)[i].agg = plan[i].agg
<1>1. \A i \in 1..Len(plan) : plan[i] \in Planned
  OBVIOUS
<1>2. \A i \in 1..Len(plan) : [cmd |-> c.id, agg |-> plan[i].agg, type |-> plan[i].type] \in Event
  BY <1>1 DEF Command, Planned, Event
<1>3. Len(plan) \in Nat
  OBVIOUS
<1>4. Stamped(c, plan) \in [1..Len(plan) -> Event]
  BY <1>2 DEF Stamped
<1>5. Stamped(c, plan) \in Seq(Event) /\ Len(Stamped(c, plan)) = Len(plan)
  BY <1>3, <1>4
<1> QED
  BY <1>5 DEF Stamped

(* Appending a batch to the log.                                           *)
LEMMA BatchFacts ==
    ASSUME NEW S, NEW s \in Seq(S), NEW b \in Seq(S)
    PROVE  /\ s \o b \in Seq(S)
           /\ Len(s) \in Nat /\ Len(b) \in Nat
           /\ Len(s \o b) = Len(s) + Len(b)
           /\ \A i \in 1..Len(s) : (s \o b)[i] = s[i]
           /\ \A i \in Len(s) + 1 .. Len(s) + Len(b) : (s \o b)[i] = b[i - Len(s)]
  OBVIOUS

(* What the transaction does to the log and the receipts.                  *)
LEMMA TransactionFacts ==
    ASSUME TypeOK, worker.at = "commit", worker.plan # NoPlan, TransactionWrites
    PROVE  /\ Holding \in Command
           /\ worker.plan \in Seq(Planned)
           /\ Len(worker.plan) \in Nat \ {0}
           /\ log' \in Seq(Event)
           /\ Len(log) \in Nat
           /\ Len(log') = Len(log) + Len(worker.plan)
           /\ \A s \in 1..Len(log) : log'[s] = log[s]
           /\ \A s \in Len(log) + 1 .. Len(log') :
                 /\ log'[s].cmd = Holding.id
                 /\ log'[s].agg = worker.plan[s - Len(log)].agg
           /\ projected' = Len(log')
           /\ worker.plan[Len(worker.plan)].agg \in Aggregates
           /\ receipts' = [receipts EXCEPT ![Holding.id] =
                [status |-> "accepted", agg |-> worker.plan[Len(worker.plan)].agg, seq |-> Len(log')]]
<1> DEFINE plan == worker.plan
           c == Holding
<1>1. c \in Command
  BY DEF TypeOK, Holding
<1>2. plan \in Seq(Planned) /\ plan # << >>
  BY DEF TypeOK, Worker, NoPlan
<1>3. /\ log' = log \o Stamped(c, plan)
      /\ projected' = Len(log) + Len(plan)
      /\ receipts' = [receipts EXCEPT ![c.id] =
            [status |-> "accepted", agg |-> plan[Len(plan)].agg, seq |-> Len(log) + Len(plan)]]
  BY DEF TransactionWrites
<1>4. log \in Seq(Event)
  BY DEF TypeOK
<1> HIDE DEF plan, c
<1>5. Len(plan) \in Nat \ {0} /\ plan[Len(plan)] \in Planned
  BY <1>2
<1>6. /\ Stamped(c, plan) \in Seq(Event)
      /\ Len(Stamped(c, plan)) = Len(plan)
      /\ \A i \in 1..Len(plan) : /\ Stamped(c, plan)[i].cmd = c.id
                                 /\ Stamped(c, plan)[i].agg = plan[i].agg
  BY <1>1, <1>2, StampedFacts
<1> DEFINE batch == Stamped(c, plan)
<1>7. batch \in Seq(Event) /\ Len(batch) = Len(plan) /\ log' = log \o batch
  BY <1>3, <1>6
<1> HIDE DEF batch
<1>8. /\ log' \in Seq(Event)
      /\ Len(log) \in Nat
      /\ Len(log') = Len(log) + Len(plan)
      /\ \A s \in 1..Len(log) : log'[s] = log[s]
      /\ \A s \in Len(log) + 1 .. Len(log') : log'[s] = batch[s - Len(log)]
  <2>1. Len(log) \in Nat /\ log' \in Seq(Event)
    BY <1>4, <1>7
  <2>2. /\ Len(log \o batch) = Len(log) + Len(batch)
        /\ \A i \in 1..Len(log) : (log \o batch)[i] = log[i]
        /\ \A i \in Len(log) + 1 .. Len(log) + Len(batch) : (log \o batch)[i] = batch[i - Len(log)]
    <3>1. batch \in Seq(Event)
      BY <1>7
    <3> QED
      BY <3>1, <1>4, BatchFacts, Zenon
  <2>3. /\ Len(log') = Len(log) + Len(plan)
        /\ \A i \in 1..Len(log) : log'[i] = log[i]
        /\ \A i \in Len(log) + 1 .. Len(log) + Len(plan) : log'[i] = batch[i - Len(log)]
    BY <2>2, <1>7, Zenon
  <2> QED
    BY <2>1, <2>3, <1>5
<1>9. ASSUME NEW s \in Len(log) + 1 .. Len(log')
      PROVE  log'[s].cmd = c.id /\ log'[s].agg = plan[s - Len(log)].agg
  <2>1. s - Len(log) \in 1..Len(plan)
    BY <1>5, <1>8
  <2> QED
    BY <2>1, <1>6, <1>8 DEF batch
<1>10. plan[Len(plan)].agg \in Aggregates
  BY <1>5 DEF Planned
<1> QED
  BY <1>1, <1>2, <1>3, <1>5, <1>8, <1>9, <1>10 DEF c, plan

(* The transaction applies a fresh id once and as a whole.                 *)
LEMMA TransactionAppliesOnce ==
    ASSUME IInv, worker.at = "commit", worker.plan # NoPlan, TransactionWrites
    PROVE  AppliedOnce'
<1>1. receipts[Holding.id] = NoReceipt
  BY DEF IInv, StillFresh, MayWriteReceipt
<1>2. TypeOK
  BY DEF IInv
<1>3. /\ Holding \in Command
      /\ Len(worker.plan) \in Nat \ {0}
      /\ Len(log) \in Nat
      /\ Len(log') = Len(log) + Len(worker.plan)
      /\ \A s \in 1..Len(log) : log'[s] = log[s]
      /\ \A s \in Len(log) + 1 .. Len(log') :
            /\ log'[s].cmd = Holding.id
            /\ log'[s].agg = worker.plan[s - Len(log)].agg
      /\ receipts' = [receipts EXCEPT ![Holding.id] =
            [status |-> "accepted", agg |-> worker.plan[Len(worker.plan)].agg, seq |-> Len(log')]]
  BY <1>2, TransactionFacts
<1>4. PICK me \in CommandIds : me = Holding.id
  BY <1>3 DEF Command
<1>t. DOMAIN receipts = CommandIds
  BY <1>2 DEF TypeOK
<1>5. EventsOf(me) = {}
  BY <1>1, <1>4 DEF IInv, AppliedOnce, NoReceipt
<1>6. EventsOf(me)' = Len(log) + 1 .. Len(log')
  <2>1. \A s \in 1..Len(log) : log'[s].cmd # me
    BY <1>3, <1>5 DEF EventsOf
  <2>2. \A s \in Len(log) + 1 .. Len(log') : log'[s].cmd = me
    BY <1>3, <1>4
  <2> QED
    BY <2>1, <2>2, <1>3 DEF EventsOf
<1>7. ASSUME NEW id \in CommandIds, id # me
      PROVE  EventsOf(id)' = EventsOf(id)
  BY <1>3, <1>4, <1>7 DEF EventsOf
<1>8. receipts'[me] = [status |-> "accepted", agg |-> worker.plan[Len(worker.plan)].agg, seq |-> Len(log')]
  BY <1>3, <1>4, <1>t
<1>9. log'[Len(log')].agg = worker.plan[Len(worker.plan)].agg
  <2>1. Len(log') \in Len(log) + 1 .. Len(log') /\ Len(log') - Len(log) = Len(worker.plan)
    BY <1>3
  <2> QED
    BY <2>1, <1>3
<1> DEFINE Once(id) ==
      IF receipts[id].status = "accepted"
      THEN /\ receipts[id].seq \in EventsOf(id)
           /\ log[receipts[id].seq].agg = receipts[id].agg
           /\ \A s \in EventsOf(id) : /\ s <= receipts[id].seq
                                     /\ s .. receipts[id].seq \subseteq EventsOf(id)
      ELSE EventsOf(id) = {}
<1>10. Once(me)'
  <2>1. receipts'[me].status = "accepted" /\ receipts'[me].seq = Len(log')
    BY <1>8
  <2>2. receipts'[me].seq \in EventsOf(me)'
    BY <2>1, <1>3, <1>6
  <2>3. log'[receipts'[me].seq].agg = receipts'[me].agg
    BY <1>8, <1>9
  <2>4. \A s \in EventsOf(me)' : s <= receipts'[me].seq /\ s .. receipts'[me].seq \subseteq EventsOf(me)'
    BY <2>1, <1>3, <1>6
  <2> QED
    BY <2>1, <2>2, <2>3, <2>4
<1>11. ASSUME NEW id \in CommandIds, id # me
       PROVE  Once(id)'
  <2>1. receipts'[id] = receipts[id]
    BY <1>3, <1>4, <1>11, <1>t
  <2>2. Once(id)
    BY DEF IInv, AppliedOnce
  <2>3. receipts[id].status = "accepted" => log'[receipts[id].seq] = log[receipts[id].seq]
    BY <2>2, <1>3 DEF EventsOf
  <2> QED
    BY <2>1, <2>2, <2>3, <1>7, <1>11
<1> QED
  BY <1>10, <1>11 DEF AppliedOnce

-----------------------------------------------------------------------------
(* Every step keeps the types.                                             *)
LEMMA TypePreserved ==
    ASSUME IInv, Next
    PROVE  TypeOK'
<1> USE DEF IInv, durable, clients, memory
<1>l. Len(log) \in Nat /\ Len(sent) \in Nat
  BY DEF TypeOK
<1>h. worker.at \notin {"down", "idle"} => Holding \in Command
  BY DEF TypeOK, Holding
<1>w. /\ worker.at \in Phases /\ worker.ticket \in Nat /\ worker.start \in Nat
      /\ worker.plan \in Seq(Planned) /\ worker.from \in Nat /\ worker.to \in Nat
      /\ worker.result \in Answer
  BY DEF TypeOK, Worker
<1>p. /\ worker \in Worker
      /\ Is("rejected") \in Answer /\ Is("failed") \in Answer
  BY DataFacts DEF TypeOK, Failures
<1>1. CASE Start
  <2>1. worker' = Idle /\ Idle.at = "idle"
    BY <1>1 DEF Start, Idle, Down
  <2> QED
    BY <1>1, <1>l, <2>1, DataFacts DEF Start, TypeOK
<1>2. ASSUME NEW id \in CommandIds, NEW agg \in Aggregates, NEW kind \in Kinds, Dispatch(id, agg, kind)
      PROVE  TypeOK'
  <2> DEFINE c == [id |-> id, agg |-> agg, kind |-> kind, snap |-> IF kind = "plain" THEN 0 ELSE projected]
  <2>1. c \in Command
    BY DEF Command, TypeOK
  <2>2. sent' = Append(sent, c) /\ sent \in Seq(Command)
    BY <1>2 DEF Dispatch, TypeOK
  <2> HIDE DEF c
  <2>3. sent' \in Seq(Command) /\ Len(sent') = Len(sent) + 1
    BY <2>1, <2>2
  <2>4. answers' \in Seq(Answer) /\ Len(answers') = Len(answers) + 1
    BY <1>2, DataFacts DEF Dispatch, TypeOK
  <2>5. queue' \in Seq(1..Len(sent'))
    <3>1. queue \in Seq(1..Len(sent'))
      BY <2>3, <1>l DEF TypeOK
    <3>2. Len(sent) + 1 \in 1..Len(sent')
      BY <2>3, <1>l
    <3> QED
      BY <1>2, <3>1, <3>2 DEF Dispatch
  <2> QED
    BY <1>2, <1>l, <2>3, <2>4, <2>5 DEF Dispatch, TypeOK
<1>3. CASE Take
  <2>1. Head(queue) \in 1..Len(sent) /\ Tail(queue) \in Seq(1..Len(sent))
    BY <1>3 DEF Take, TypeOK
  <2>2. modelSeq \in Nat
    BY DEF TypeOK
  <2>3. worker' \in Worker /\ worker'.ticket = Head(queue)
    <3>1. worker' = [Idle EXCEPT !.at = "lookup", !.ticket = Head(queue), !.start = modelSeq]
      BY <1>3 DEF Take
    <3>2. Idle \in Worker /\ "lookup" \in Phases /\ Head(queue) \in Nat
      BY <2>1, <1>l, DataFacts DEF Phases
    <3> QED
      BY <3>1, <3>2, <2>2 DEF Worker
  <2> QED
    BY <1>3, <2>1, <2>3 DEF Take, TypeOK
<1>4. CASE LookupReceipt
  <2>1. receipts[Holding.id] \in Receipt \cup {NoReceipt}
    BY <1>4, <1>h DEF LookupReceipt, TypeOK, Command
  <2>2. receipts[Holding.id] # NoReceipt => Accepted(receipts[Holding.id].seq) \in Answer
    BY <2>1, DataFacts DEF Receipt
  <2>3. worker' \in Worker /\ worker'.ticket = worker.ticket
    BY <1>4, <1>w, <2>2, DataFacts DEF LookupReceipt, Worker, Phases, Failures, TypeOK
  <2> QED
    BY <1>4, <2>3 DEF LookupReceipt, TypeOK
<1>5. CASE QueryFails \/ Guard \/ DecideReject \/ CommitNothing \/ TransactionFails
  <2>1. \/ \E r \in {Is("rejected"), Is("failed")} :
              worker' = [worker EXCEPT !.at = "reconcile", !.result = r]
        \/ worker' = [worker EXCEPT !.at = "decide"]
    BY <1>5 DEF QueryFails, Guard, DecideReject, CommitNothing, TransactionFails
  <2>2. worker' \in Worker /\ worker'.ticket = worker.ticket
    <3>1. "decide" \in Phases /\ "reconcile" \in Phases
      BY DEF Phases
    <3> QED
      BY <2>1, <3>1, <1>p DEF Worker
  <2> QED
    BY <1>5, <2>2 DEF QueryFails, Guard, DecideReject, CommitNothing, TransactionFails, TypeOK
<1>6. CASE Decide
  <2>1. PICK plan \in Plans(Holding) : worker' = [worker EXCEPT !.at = "commit", !.plan = plan]
    BY <1>6 DEF Decide
  <2>2. plan \in Seq(Planned)
    BY <1>6, <1>h, PlansFacts DEF Decide
  <2>3. worker' \in Worker /\ worker'.ticket = worker.ticket
    BY <2>1, <2>2, <1>w DEF Worker, Phases, TypeOK
  <2> QED
    BY <1>6, <2>3 DEF Decide, TypeOK
<1>7. CASE Commit \/ CommitReportsFailure
  <2>1. worker.at = "commit" /\ worker.plan # NoPlan /\ TransactionWrites
    BY <1>7 DEF Commit, CommitReportsFailure
  <2>2. log' \in Seq(Event) /\ projected' \in Nat
    BY <2>1, TransactionFacts
  <2>3. receipts' \in [CommandIds -> Receipt \cup {NoReceipt}]
    <3>1. Len(log') \in Nat
      BY <2>2
    <3>2. [status |-> "accepted", agg |-> worker.plan[Len(worker.plan)].agg, seq |-> Len(log')] \in Receipt
      BY <2>1, <3>1, TransactionFacts DEF Receipt
    <3>3. receipts \in [CommandIds -> Receipt \cup {NoReceipt}]
      BY DEF TypeOK
    <3> QED
      BY <2>1, <3>2, <3>3, TransactionFacts
  <2>4. worker' \in Worker /\ worker'.ticket = worker.ticket
    <3>1. \/ worker' = [worker EXCEPT !.at = "advance"]
          \/ worker' = [worker EXCEPT !.at = "reconcile", !.result = Is("failed")]
      BY <1>7 DEF Commit, CommitReportsFailure
    <3>2. "advance" \in Phases /\ "reconcile" \in Phases
      BY DEF Phases
    <3> QED
      BY <3>1, <3>2, <1>p DEF Worker
  <2> QED
    BY <1>7, <2>2, <2>3, <2>4 DEF Commit, CommitReportsFailure, TypeOK
<1>8. CASE AdvanceReadModel
  <2>1. Len(worker.plan) \in Nat /\ Len(worker.plan) <= Len(log)
    BY <1>8, <1>w DEF AdvanceReadModel, StillFresh
  <2>2. Len(log) - Len(worker.plan) + 1 \in Nat
    BY <2>1, <1>l
  <2>3. worker' \in Worker /\ worker'.ticket = worker.ticket
    BY <1>8, <1>w, <1>l, <2>2, DataFacts DEF AdvanceReadModel, Worker, Phases, TypeOK
  <2>4. applied' \subseteq Nat /\ modelSeq' \in Nat
    <3>1. \A s \in (Len(log) - Len(worker.plan) + 1) .. Len(log) : s \in Nat
      BY <2>2, <1>l
    <3> QED
      BY <1>8, <1>l, <3>1 DEF AdvanceReadModel, TypeOK
  <2> QED
    BY <1>8, <2>3, <2>4 DEF AdvanceReadModel, TypeOK
<1>9. CASE Reconcile
  <2> DEFINE last == IF Len(log) < worker.start + ReadLimit THEN Len(log) ELSE worker.start + ReadLimit
  <2>1. last \in Nat
    BY <1>l, <1>w, BoundsAssumption
  <2>2. /\ worker' = [worker EXCEPT !.at = "publish", !.from = worker.start + 1, !.to = last]
        /\ applied' = applied \cup (worker.start + 1 .. last)
        /\ modelSeq' = IF last > worker.start THEN last ELSE modelSeq
    BY <1>9 DEF Reconcile, ReadFromSequence
  <2> HIDE DEF last
  <2>3. worker' \in Worker /\ worker'.ticket = worker.ticket
    <3>1. worker.start + 1 \in Nat
      BY <1>w
    <3>2. "publish" \in Phases
      BY DEF Phases
    <3> QED
      BY <2>1, <2>2, <3>1, <3>2, <1>p DEF Worker
  <2>4. applied' \subseteq Nat /\ modelSeq' \in Nat
    BY <2>1, <2>2, <1>w DEF TypeOK
  <2> QED
    BY <1>9, <2>3, <2>4 DEF Reconcile, ReadFromSequence, TypeOK
<1>10. CASE ReconcileFails \/ PublishDone \/ RecordRejectionFails
  <2>1. \/ worker' = [worker EXCEPT !.at = "publish", !.from = 1, !.to = 0]
        \/ \E p \in {"receipt", "reply"} : worker' = [worker EXCEPT !.at = p]
    BY <1>10 DEF ReconcileFails, PublishDone, RecordRejectionFails
  <2>2. worker' \in Worker /\ worker'.ticket = worker.ticket
    <3>1. "publish" \in Phases /\ "receipt" \in Phases /\ "reply" \in Phases /\ 0 \in Nat /\ 1 \in Nat
      BY DEF Phases
    <3> QED
      BY <2>1, <3>1, <1>p DEF Worker
  <2> QED
    BY <1>10, <2>2 DEF ReconcileFails, PublishDone, RecordRejectionFails, TypeOK
<1>11. CASE Publish
  <2>1. worker' \in Worker /\ worker'.ticket = worker.ticket
    <3>1. worker' = [worker EXCEPT !.from = worker.from + 1] /\ worker.from + 1 \in Nat
      BY <1>11, <1>w DEF Publish
    <3> QED
      BY <3>1, <1>p DEF Worker
  <2>2. published' \in Seq(Nat)
    BY <1>11, <1>w DEF Publish, TypeOK
  <2> QED
    BY <1>11, <2>1, <2>2 DEF Publish, TypeOK
<1>12. CASE RecordRejection
  <2>1. worker' \in Worker /\ worker'.ticket = worker.ticket
    BY <1>12, <1>w DEF RecordRejection, Worker, Phases, TypeOK
  <2>2. [status |-> "rejected", agg |-> Holding.agg, seq |-> modelSeq] \in Receipt
    BY <1>12, <1>h DEF RecordRejection, Receipt, Command, TypeOK
  <2> QED
    BY <1>12, <2>1, <2>2 DEF RecordRejection, TypeOK
<1>13. CASE Reply
  <2>1. answers' \in Seq(Answer) /\ Len(answers') = Len(answers)
    BY <1>13, <1>w DEF Reply, TypeOK
  <2>2. worker' = Idle /\ Idle.at = "idle"
    BY <1>13 DEF Reply, Idle, Down
  <2> QED
    BY <1>13, <2>1, <2>2, DataFacts DEF Reply, TypeOK
<1>14. CASE Crash
  <2>1. answers' \in Seq(Answer) /\ Len(answers') = Len(answers)
    <3>1. \A t \in DOMAIN answers :
             (IF answers[t] = Is("waiting") THEN Is("lost") ELSE answers[t]) \in Answer
      BY DataFacts DEF TypeOK
    <3>2. answers' \in [1..Len(answers) -> Answer]
      BY <1>14, <3>1 DEF Crash, TypeOK
    <3>3. Len(answers) \in Nat
      BY DEF TypeOK
    <3> QED
      BY <3>2, <3>3
  <2>2. worker' = Down /\ Down.at = "down"
    BY <1>14 DEF Crash, Down
  <2> QED
    <3>1. << >> \in Seq(1..Len(sent)) /\ << >> \in Seq(Nat)
      OBVIOUS
    <3>2. crashes' \in Nat
      BY <1>14 DEF Crash, TypeOK
    <3> QED
      BY <1>14, <2>1, <2>2, <3>1, <3>2, DataFacts DEF Crash, TypeOK
<1> QED
  BY <1>1, <1>2, <1>3, <1>4, <1>5, <1>6, <1>7, <1>8, <1>9, <1>10, <1>11, <1>12, <1>13, <1>14
     DEF Next, ProcessEnvelope

(* Every step keeps AppliedOnce.                                           *)
LEMMA AppliedOncePreserved ==
    ASSUME IInv, Next
    PROVE  AppliedOnce'
<1> USE DEF durable, clients, memory
<1>1. CASE UNCHANGED <<log, receipts>>
  BY <1>1 DEF IInv, AppliedOnce, EventsOf
<1>2. CASE Commit \/ CommitReportsFailure
  BY <1>2, TransactionAppliesOnce DEF Commit, CommitReportsFailure
<1>3. CASE RecordRejection
  <2>1. PICK me \in CommandIds : me = Holding.id
    <3>1. Holding \in Command
      BY <1>3 DEF RecordRejection, IInv, TypeOK, Holding
    <3> QED
      BY <3>1 DEF Command
  <2>2. receipts[me] = NoReceipt /\ EventsOf(me) = {}
    BY <1>3, <2>1 DEF RecordRejection, IInv, StillFresh, MayWriteReceipt, AppliedOnce, NoReceipt
  <2>3. /\ receipts' = [receipts EXCEPT ![me] = [status |-> "rejected", agg |-> Holding.agg, seq |-> modelSeq]]
        /\ log' = log
        /\ DOMAIN receipts = CommandIds
    BY <1>3, <2>1 DEF RecordRejection, IInv, TypeOK
  <2>4. \A id \in CommandIds : EventsOf(id)' = EventsOf(id)
    BY <2>3 DEF EventsOf
  <2>5. receipts'[me].status = "rejected"
    BY <2>3
  <2>6. \A id \in CommandIds \ {me} : receipts'[id] = receipts[id]
    BY <2>3
  <2> QED
    BY <2>2, <2>3, <2>4, <2>5, <2>6 DEF IInv, AppliedOnce
<1> QED
  BY <1>1, <1>2, <1>3
     DEF Next, ProcessEnvelope, Start, Dispatch, Take, LookupReceipt, QueryFails, Guard, DecideReject,
         Decide, CommitNothing, TransactionFails, AdvanceReadModel, Reconcile, ReconcileFails,
         Publish, PublishDone, RecordRejectionFails, Reply, Crash

(* Every step keeps StillFresh.                                            *)
LEMMA StillFreshPreserved ==
    ASSUME IInv, Next
    PROVE  StillFresh'
<1> USE DEF durable, clients, memory
<1>t. TypeOK /\ StillFresh
  BY DEF IInv
<1>w. worker \in Worker
  BY <1>t DEF TypeOK
<1>1. ASSUME worker'.at \in {"down", "idle", "lookup", "reply"}
      PROVE  StillFresh'
  BY <1>1 DEF StillFresh, MayWriteReceipt
<1>2. ASSUME NEW id \in CommandIds, NEW agg \in Aggregates, NEW kind \in Kinds, Dispatch(id, agg, kind)
      PROVE  StillFresh'
  <2>1. worker' = worker /\ log' = log /\ receipts' = receipts
    BY <1>2 DEF Dispatch
  <2>2. CASE worker.at \in {"down", "idle"}
    BY <1>1, <2>1, <2>2
  <2>3. CASE worker.at \notin {"down", "idle"}
    <3>1. sent'[worker.ticket] = sent[worker.ticket]
      BY <1>2, <1>t, <2>3 DEF Dispatch, TypeOK
    <3>2. Holding' = Holding
      BY <2>1, <3>1 DEF Holding
    <3> QED
      BY <1>t, <2>1, <3>2 DEF StillFresh, MayWriteReceipt, GuardRefuses, HasEventAfter
  <2> QED
    BY <2>2, <2>3
<1>3. ASSUME sent' = sent, worker'.ticket = worker.ticket
      PROVE  Holding' = Holding
  BY <1>3 DEF Holding
<1>4. CASE LookupReceipt
  <2>1. worker'.ticket = worker.ticket /\ sent' = sent /\ receipts' = receipts
    BY <1>4, <1>w DEF LookupReceipt, Worker
  <2>2. Holding' = Holding
    BY <1>3, <2>1
  <2>3. CASE receipts[Holding.id] = NoReceipt
    <3>1. worker'.at = "guard"
      BY <1>4, <1>w, <2>3 DEF LookupReceipt, Worker
    <3> QED
      BY <2>1, <2>2, <2>3, <3>1 DEF StillFresh
  <2>4. CASE receipts[Holding.id] # NoReceipt
    <3>1. worker'.at = "reply"
      BY <1>4, <1>w, <2>4 DEF LookupReceipt, Worker
    <3> QED
      BY <1>1, <3>1
  <2> QED
    BY <2>3, <2>4
<1>5. CASE Guard
  <2>1. worker'.ticket = worker.ticket /\ sent' = sent /\ receipts' = receipts /\ log' = log
    BY <1>5, <1>w DEF Guard, Worker
  <2>2. Holding' = Holding /\ receipts[Holding.id] = NoReceipt
    BY <1>3, <1>5, <1>t, <2>1 DEF Guard, StillFresh, MayWriteReceipt
  <2>3. worker'.at = "reconcile" \/ (worker'.at = "decide" /\ ~GuardRefuses(Holding))
    BY <1>5, <1>w DEF Guard, Worker
  <2> QED
    BY <2>1, <2>2, <2>3 DEF StillFresh, GuardRefuses, HasEventAfter
<1>6. CASE QueryFails \/ TransactionFails
  <2>1. worker' = [worker EXCEPT !.at = "reconcile", !.result = Is("failed")]
    BY <1>6 DEF QueryFails, TransactionFails
  <2>2. worker'.at = "reconcile" /\ worker'.result = Is("failed")
    BY <2>1, <1>w DEF Worker
  <2>3. worker'.result.is = "failed"
    BY <2>2 DEF Is
  <2> QED
    BY <2>2, <2>3 DEF StillFresh, MayWriteReceipt
<1>7. CASE DecideReject \/ CommitNothing
  <2>1. worker'.ticket = worker.ticket /\ sent' = sent /\ receipts' = receipts /\ worker'.at = "reconcile"
    BY <1>7, <1>w DEF DecideReject, CommitNothing, Worker
  <2>2. Holding' = Holding /\ receipts[Holding.id] = NoReceipt
    BY <1>3, <1>7, <1>t, <2>1 DEF DecideReject, CommitNothing, StillFresh, MayWriteReceipt
  <2> QED
    BY <2>1, <2>2 DEF StillFresh
<1>8. CASE Decide
  <2>1. PICK plan \in Plans(Holding) : worker' = [worker EXCEPT !.at = "commit", !.plan = plan]
    BY <1>8 DEF Decide
  <2>2. /\ worker'.ticket = worker.ticket /\ worker'.at = "commit" /\ worker'.plan = plan
        /\ sent' = sent /\ receipts' = receipts /\ log' = log
    BY <1>8, <1>w, <2>1 DEF Decide, Worker
  <2>3. /\ Holding' = Holding
        /\ receipts[Holding.id] = NoReceipt
        /\ ~GuardRefuses(Holding)
        /\ Holding \in Command
    BY <1>3, <1>8, <1>t, <2>2 DEF Decide, StillFresh, MayWriteReceipt, TypeOK, Holding
  <2>4. plan # NoPlan => plan[Len(plan)].agg = Holding.agg
    BY <2>3, PlansFacts
  <2> QED
    BY <2>2, <2>3, <2>4 DEF StillFresh, GuardRefuses, HasEventAfter
<1>9. CASE Commit
  <2>1. worker'.at = "advance" /\ worker'.plan = worker.plan
    BY <1>9, <1>w DEF Commit, Worker
  <2>2. Len(worker.plan) \in Nat /\ Len(log) \in Nat /\ Len(log') = Len(log) + Len(worker.plan)
    BY <1>9, <1>t, TransactionFacts DEF Commit
  <2> QED
    BY <2>1, <2>2 DEF StillFresh, MayWriteReceipt
<1>10. CASE CommitReportsFailure
  <2>1. worker'.at = "reconcile" /\ worker'.result.is = "failed"
    BY <1>10, <1>w DEF CommitReportsFailure, Worker, Is
  <2> QED
    BY <2>1 DEF StillFresh, MayWriteReceipt
<1>11. CASE AdvanceReadModel
  <2>1. worker'.at = "publish" /\ worker'.result.is = "accepted"
    BY <1>11, <1>w DEF AdvanceReadModel, Worker, Accepted
  <2> QED
    BY <2>1 DEF StillFresh, MayWriteReceipt
<1>12. CASE Reconcile \/ ReconcileFails \/ Publish
  <2>1. /\ worker'.ticket = worker.ticket /\ worker'.at = "publish" /\ worker'.result = worker.result
        /\ sent' = sent /\ receipts' = receipts
        /\ worker.at \in {"reconcile", "publish"}
    BY <1>12, <1>w DEF Reconcile, ReconcileFails, Publish, Worker
  <2>2. Holding' = Holding
    BY <1>3, <2>1
  <2> QED
    BY <1>t, <2>1, <2>2 DEF StillFresh, MayWriteReceipt
<1>13. CASE PublishDone
  <2>1. worker'.ticket = worker.ticket /\ sent' = sent /\ receipts' = receipts
    BY <1>13, <1>w DEF PublishDone, Worker
  <2>2. worker'.at = "reply" \/ (worker'.at = "receipt" /\ worker.result = Is("rejected"))
    BY <1>13, <1>w DEF PublishDone, Worker
  <2>3. CASE worker'.at = "reply"
    BY <1>1, <2>3
  <2>4. CASE worker'.at = "receipt" /\ worker.result = Is("rejected")
    <3>1. worker.result.is = "rejected" /\ worker.at = "publish"
      BY <1>13, <2>4 DEF Is, PublishDone
    <3>2. Holding' = Holding /\ receipts[Holding.id] = NoReceipt
      BY <1>3, <1>t, <2>1, <3>1 DEF StillFresh, MayWriteReceipt
    <3> QED
      BY <2>1, <2>4, <3>2 DEF StillFresh
  <2> QED
    BY <2>2, <2>3, <2>4
<1>14. CASE RecordRejection \/ RecordRejectionFails
  <2>1. worker'.at = "reply"
    BY <1>14, <1>w DEF RecordRejection, RecordRejectionFails, Worker
  <2> QED
    BY <1>1, <2>1
<1>15. CASE Start \/ Take \/ Reply \/ Crash
  <2>1. worker'.at \in {"down", "idle", "lookup"}
    <3>1. Idle.at = "idle" /\ Down.at = "down" /\ Idle \in Worker
      BY DataFacts DEF Idle, Down
    <3>2. CASE Start \/ Reply \/ Crash
      BY <3>1, <3>2 DEF Start, Reply, Crash
    <3>3. CASE Take
      BY <3>1, <3>3 DEF Take, Worker
    <3> QED
      BY <1>15, <3>2, <3>3
  <2> QED
    BY <1>1, <2>1
<1> QED
  BY <1>2, <1>4, <1>5, <1>6, <1>7, <1>8, <1>9, <1>10, <1>11, <1>12, <1>13, <1>14, <1>15
     DEF Next, ProcessEnvelope

-----------------------------------------------------------------------------
(* The empty database and a daemon not yet started satisfy IInv.           *)
LEMMA InitEstablishesIInv == Init => IInv
<1>1. SUFFICES ASSUME Init PROVE IInv
  OBVIOUS
<1>2. TypeOK
  <2>1. worker \in Worker /\ worker.at = "down"
    BY <1>1, DataFacts DEF Init, Down
  <2> QED
    <3>1. << >> \in Seq(Event) /\ << >> \in Seq(Command) /\ << >> \in Seq(Answer)
      OBVIOUS
    <3>2. << >> \in Seq(1..Len(sent)) /\ << >> \in Seq(Nat)
      OBVIOUS
    <3> QED
      BY <1>1, <2>1, <3>1, <3>2 DEF Init, TypeOK
<1>3. StillFresh
  BY <1>1 DEF Init, StillFresh, MayWriteReceipt, Down
<1>4. AppliedOnce
  BY <1>1 DEF Init, AppliedOnce, EventsOf, NoReceipt
<1> QED
  BY <1>2, <1>3, <1>4 DEF IInv

(* Every step of the engine, its callers and a crash keeps IInv.           *)
LEMMA NextPreserves == IInv /\ [Next]_vars => IInv'
<1>1. SUFFICES ASSUME IInv, [Next]_vars PROVE IInv'
  OBVIOUS
<1>2. CASE Next
  BY <1>1, <1>2, TypePreserved, AppliedOncePreserved, StillFreshPreserved DEF IInv
<1>3. CASE UNCHANGED vars
  <2>1. TypeOK'
    BY <1>1, <1>3 DEF IInv, TypeOK, vars
  <2>2. StillFresh' /\ AppliedOnce'
    BY <1>1, <1>3 DEF IInv, StillFresh, MayWriteReceipt, Holding, GuardRefuses, HasEventAfter,
       AppliedOnce, EventsOf, vars
  <2> QED
    BY <2>1, <2>2 DEF IInv
<1> QED
  BY <1>1, <1>2, <1>3

-----------------------------------------------------------------------------
(* The strengthened invariant holds of every reachable state.              *)
THEOREM Inductive == Spec => []IInv
  BY InitEstablishesIInv, NextPreserves, PTL DEF Spec

(* Type correctness of the engine's tables, read model and worker.         *)
THEOREM TypeCorrect == Spec => []TypeOK
<1>1. IInv => TypeOK
  BY DEF IInv
<1> QED
  BY <1>1, Inductive, PTL

(* Exactly once: whatever is retried, fails or crashes, a command id's     *)
(* events are one contiguous batch that ends at its accepted receipt, and  *)
(* there are none without one.                                             *)
THEOREM ExactlyOnce == Spec => []AppliedOnce
<1>1. IInv => AppliedOnce
  BY DEF IInv
<1> QED
  BY <1>1, Inductive, PTL

(* A step writes the receipt of an id only where there is none.            *)
LEMMA ReceiptsKept ==
    ASSUME IInv, [Next]_vars
    PROVE  \A id \in CommandIds : receipts[id] # NoReceipt => receipts'[id] = receipts[id]
<1>1. CASE receipts' = receipts
  BY <1>1
<1>2. CASE Commit \/ CommitReportsFailure \/ RecordRejection
  <2>1. receipts[Holding.id] = NoReceipt
    BY <1>2 DEF Commit, CommitReportsFailure, RecordRejection, IInv, StillFresh, MayWriteReceipt
  <2>2. PICK r : receipts' = [receipts EXCEPT ![Holding.id] = r]
    BY <1>2 DEF Commit, CommitReportsFailure, RecordRejection, TransactionWrites
  <2>3. DOMAIN receipts = CommandIds
    BY DEF IInv, TypeOK
  <2> QED
    BY <2>1, <2>2, <2>3
<1>3. CASE UNCHANGED vars
  BY <1>3 DEF vars
<1> QED
  BY <1>1, <1>2, <1>3
     DEF Next, ProcessEnvelope, Start, Dispatch, Take, LookupReceipt, QueryFails, Guard, DecideReject,
         Decide, CommitNothing, TransactionFails, AdvanceReadModel, Reconcile, ReconcileFails,
         Publish, PublishDone, RecordRejectionFails, Reply, Crash, durable

(* The upserts of the receipts table never revise a receipt.               *)
THEOREM ReceiptsNeverChange == Spec => ReceiptsArePermanent
<1> DEFINE Keeps == \A id \in CommandIds : receipts[id] # NoReceipt => receipts'[id] = receipts[id]
<1>1. IInv /\ [Next]_vars => [Keeps]_vars
  BY ReceiptsKept
<1> QED
  BY <1>1, Inductive, PTL DEF Spec, ReceiptsArePermanent

(* Reactor commands are compare-and-set: an automatic settlement is        *)
(* committed only on a thread without an event after its snapshot, a       *)
(* pull-request sync only on one that was not recreated.                   *)
THEOREM SnapshotsAreCurrent == Spec => SnapshotStillCurrent
<1> DEFINE Current ==
      log' # log =>
         /\ Holding.kind = "auto-settle" => ~HasEventAfter(Holding.agg, Holding.snap, EventTypes)
         /\ Holding.kind = "pull-request.sync" => ~HasEventAfter(Holding.agg, Holding.snap, {"created"})
<1>1. ASSUME IInv, [Next]_vars PROVE [Current]_vars
  <2>1. CASE log' = log
    BY <2>1
  <2>2. CASE Commit \/ CommitReportsFailure
    <3>1. ~GuardRefuses(Holding)
      BY <1>1, <2>2 DEF Commit, CommitReportsFailure, IInv, StillFresh
    <3> QED
      BY <3>1 DEF GuardRefuses
  <2>3. CASE UNCHANGED vars
    BY <2>3
  <2> QED
    BY <1>1, <2>1, <2>2, <2>3
       DEF Next, ProcessEnvelope, Start, Dispatch, Take, LookupReceipt, QueryFails, Guard, DecideReject,
           Decide, CommitNothing, TransactionFails, AdvanceReadModel, Reconcile, ReconcileFails,
           Publish, PublishDone, RecordRejection, RecordRejectionFails, Reply, Crash, durable
<1>2. IInv /\ [Next]_vars => [Current]_vars
  BY <1>1
<1> QED
  BY <1>2, Inductive, PTL DEF Spec, SnapshotStillCurrent

-----------------------------------------------------------------------------
(***************************************************************************)
(* The engine implements the exactly-once command log it promises, for any *)
(* command ids, aggregates and bounds.                                     *)
(*                                                                         *)
(* The promise lets a step apply, refuse or answer only a command that     *)
(* still waits, and answer it only with what is true of its receipt.  The  *)
(* engine checks neither where it does so.  Tickets says that the queue    *)
(* and the worker hold waiting callers only, each once; Outcome carries    *)
(* the result of a command, with the receipt it rests on, from the place   *)
(* where it is decided to the reply.                                       *)
(***************************************************************************)
Busy == worker.at \notin {"down", "idle"}

(* Who is queued or being served waits for an answer, and is so once.      *)
Tickets ==
    /\ \A k \in 1..Len(queue) : answers[queue[k]].is = "waiting"
    /\ \A j, k \in 1..Len(queue) : j # k => queue[j] # queue[k]
    /\ Busy => answers[worker.ticket].is = "waiting"
    /\ Busy => \A k \in 1..Len(queue) : queue[k] # worker.ticket

(* The projections are at the head of the log, the read model behind it.   *)
Heads == projected = Len(log) /\ modelSeq <= Len(log)

Effect(c, n) == receipts[c.id] = [status |-> "accepted", agg |-> c.agg, seq |-> n]

(* The result the worker carries is one that may be told at the end.       *)
Outcome ==
    /\ worker.at = "advance" => Effect(Holding, Len(log))
    /\ worker.at = "reconcile" => worker.result.is \in {"rejected", "failed"}
    /\ worker.at = "publish" =>
          \/ worker.result.is \in {"rejected", "failed"}
          \/ worker.result.is = "accepted" /\ Effect(Holding, worker.result.seq)
    /\ worker.at = "receipt" => worker.result.is = "rejected"
    /\ worker.at = "reply" => worker.result \in Promise!TrueAnswers(Holding)

(* What a caller was told stays true of the receipt of its id.             *)
Stands(t) ==
    LET a == answers[t]
        r == receipts[sent[t].id]
    IN  /\ a.is = "accepted" => Effect(sent[t], a.seq)
        /\ a.is = "previously-rejected" => r.status = "rejected"
        /\ a.is = "id-conflict" => r # NoReceipt /\ r.agg # sent[t].agg

AnswersStand == \A t \in 1..Len(sent) : Stands(t)

RInv == Tickets /\ Heads /\ Outcome /\ AnswersStand

-----------------------------------------------------------------------------
(* An answer that says no more than its kind is that kind.                 *)
LEMMA AnswerShapes ==
    ASSUME NEW a \in Answer
    PROVE  /\ a.is \in {"rejected", "failed", "waiting", "lost"} => a = Is(a.is)
           /\ a = Is("waiting") => a.is = "waiting"
           /\ a.is = "accepted" => a.seq \in Nat /\ a = Accepted(a.seq)
  BY DEF Answer, Is, Accepted, Failures

(* The first process of an empty database.                                 *)
LEMMA InitRefines == Init => RInv /\ Promise!Init
<1> SUFFICES ASSUME Init PROVE RInv /\ Promise!Init
  OBVIOUS
<1>1. Tickets /\ Heads /\ Outcome /\ AnswersStand
  BY DEF Init, Tickets, Heads, Outcome, AnswersStand, Busy, Down
<1>2. Promise!Init
  BY DEF Init, Promise!Init, NoReceipt, Promise!NoReceipt
<1> QED
  BY <1>1, <1>2 DEF RInv

(* From lookup to reply the worker serves one caller.                      *)
LEMMA ServesOne ==
    ASSUME IInv, ProcessEnvelope, ~Reply
    PROVE  /\ Busy /\ Busy'
           /\ worker'.ticket = worker.ticket
           /\ UNCHANGED <<sent, answers, queue>>
           /\ Holding' = Holding
<1>1. worker \in Worker
  BY DEF IInv, TypeOK
<1>2. Busy
  BY DEF Busy, ProcessEnvelope, LookupReceipt, QueryFails, Guard, DecideReject, Decide, Commit,
     CommitNothing, TransactionFails, CommitReportsFailure, AdvanceReadModel, Reconcile,
     ReconcileFails, Publish, PublishDone, RecordRejection, RecordRejectionFails
<1>3. UNCHANGED <<sent, answers, queue>>
  BY DEF clients, ProcessEnvelope, LookupReceipt, QueryFails, Guard, DecideReject, Decide, Commit,
     CommitNothing, TransactionFails, CommitReportsFailure, AdvanceReadModel, Reconcile,
     ReconcileFails, Publish, PublishDone, RecordRejection, RecordRejectionFails
<1>4. worker'.ticket = worker.ticket /\ worker'.at \notin {"down", "idle"}
  <2>1. CASE LookupReceipt
    BY <1>1, <2>1 DEF LookupReceipt, Worker
  <2>2. CASE QueryFails \/ Guard \/ DecideReject \/ Decide \/ Commit \/ CommitNothing
    BY <1>1, <2>2 DEF QueryFails, Guard, DecideReject, Decide, Commit, CommitNothing, Worker
  <2>3. CASE TransactionFails \/ CommitReportsFailure \/ AdvanceReadModel \/ Reconcile \/ ReconcileFails
    BY <1>1, <2>3 DEF TransactionFails, CommitReportsFailure, AdvanceReadModel, Reconcile,
       ReconcileFails, Worker
  <2>4. CASE Publish \/ PublishDone \/ RecordRejection \/ RecordRejectionFails
    BY <1>1, <1>2, <2>4 DEF Publish, PublishDone, RecordRejection, RecordRejectionFails, Worker, Busy
  <2> QED
    BY <2>1, <2>2, <2>3, <2>4 DEF ProcessEnvelope
<1> QED
  BY <1>2, <1>3, <1>4 DEF Busy, Holding

(* Offering, taking, answering and losing callers keeps each waiting once. *)
LEMMA TicketsPreserved ==
    ASSUME IInv, Tickets, Next
    PROVE  Tickets'
<1>t. /\ answers \in Seq(Answer) /\ queue \in Seq(1..Len(sent)) /\ Len(answers) = Len(sent)
      /\ Len(sent) \in Nat /\ (Busy => worker.ticket \in 1..Len(sent))
  BY DEF IInv, TypeOK, Busy
<1>1. CASE ProcessEnvelope /\ ~Reply
  BY <1>1, ServesOne DEF Tickets
<1>2. CASE Start
  BY <1>2 DEF Start, Idle, Tickets, Busy, clients
<1>3. ASSUME NEW id \in CommandIds, NEW agg \in Aggregates, NEW kind \in Kinds, Dispatch(id, agg, kind)
      PROVE  Tickets'
  <2>1. /\ answers' = Append(answers, Is("waiting")) /\ queue' = Append(queue, Len(sent) + 1)
        /\ worker' = worker
    BY <1>3 DEF Dispatch
  <2>2. /\ Len(queue) \in Nat /\ Len(queue') = Len(queue) + 1
        /\ \A k \in 1..Len(queue) : queue[k] \in 1..Len(sent) /\ queue'[k] = queue[k]
        /\ queue'[Len(queue) + 1] = Len(sent) + 1
    BY <1>t, <2>1
  <2>3. /\ \A t \in 1..Len(sent) : answers'[t] = answers[t]
        /\ answers'[Len(sent) + 1].is = "waiting"
    BY <1>t, <2>1 DEF Is
  <2>i. \A k \in 1..Len(queue') : k \in 1..Len(queue) \/ k = Len(queue) + 1
    BY <2>2
  <2>4. ASSUME NEW k \in 1..Len(queue')
        PROVE  answers'[queue'[k]].is = "waiting"
    <3>1. CASE k \in 1..Len(queue)
      <4>1. queue'[k] = queue[k] /\ queue[k] \in 1..Len(sent) /\ answers[queue[k]].is = "waiting"
        BY <2>2, <3>1 DEF Tickets
      <4> QED
        BY <2>3, <4>1
    <3>2. CASE k = Len(queue) + 1
      BY <2>2, <2>3, <3>2
    <3> QED
      BY <2>i, <3>1, <3>2
  <2>5. ASSUME NEW j \in 1..Len(queue'), NEW k \in 1..Len(queue'), j # k
        PROVE  queue'[j] # queue'[k]
    <3>n. \A n \in 1..Len(sent) : n # Len(sent) + 1
      BY <1>t
    <3>1. CASE j \in 1..Len(queue) /\ k \in 1..Len(queue)
      <4>1. queue[j] # queue[k]
        BY <2>5, <3>1 DEF Tickets
      <4> QED
        BY <2>2, <3>1, <4>1
    <3>2. CASE j \in 1..Len(queue) /\ k = Len(queue) + 1
      BY <2>2, <3>n, <3>2
    <3>3. CASE j = Len(queue) + 1 /\ k \in 1..Len(queue)
      BY <2>2, <3>n, <3>3
    <3> QED
      BY <2>i, <2>5, <3>1, <3>2, <3>3
  <2>6. Busy' => Busy /\ worker'.ticket = worker.ticket
    BY <2>1 DEF Busy
  <2>7. Busy' => answers'[worker'.ticket].is = "waiting"
    BY <1>t, <2>3, <2>6 DEF Tickets
  <2>8. ASSUME Busy', NEW k \in 1..Len(queue')
        PROVE  queue'[k] # worker'.ticket
    <3>1. /\ Busy /\ worker'.ticket = worker.ticket /\ worker.ticket \in 1..Len(sent)
          /\ \A i \in 1..Len(queue) : queue[i] # worker.ticket
      BY <1>t, <2>6, <2>8 DEF Tickets
    <3>2. k \in 1..Len(queue) \/ k = Len(queue) + 1
      BY <2>2
    <3> QED
      BY <1>t, <2>2, <3>1, <3>2
  <2> QED
    BY <2>4, <2>5, <2>7, <2>8 DEF Tickets
<1>4. CASE Take
  <2>1. /\ queue # << >> /\ queue' = Tail(queue) /\ answers' = answers
        /\ worker'.ticket = Head(queue)
    BY <1>4, DataFacts DEF Take, clients, Worker
  <2>2. /\ Len(queue) \in Nat \ {0} /\ Len(queue') = Len(queue) - 1
        /\ \A k \in 1..Len(queue') : queue'[k] = queue[k + 1] /\ k + 1 \in 1..Len(queue)
        /\ worker'.ticket = queue[1] /\ 1 \in 1..Len(queue)
    BY <1>t, <2>1
  <2> QED
    BY <2>1, <2>2 DEF Tickets
<1>5. CASE Reply
  <2>1. /\ Busy /\ queue' = queue /\ answers' = [answers EXCEPT ![worker.ticket] = worker.result]
        /\ ~Busy'
    BY <1>5 DEF Reply, Busy, Idle
  <2>2. \A k \in 1..Len(queue) : queue[k] \in DOMAIN answers /\ queue[k] # worker.ticket
    BY <1>t, <2>1 DEF Tickets
  <2> QED
    BY <2>1, <2>2 DEF Tickets
<1>6. CASE Crash
  BY <1>6 DEF Crash, Tickets, Busy, Down
<1> QED
  BY <1>1, <1>2, <1>3, <1>4, <1>5, <1>6 DEF Next

(* The transaction moves log and projections together; start, advance and  *)
(* reconciliation bring the read model up to the log at most.              *)
LEMMA HeadsPreserved ==
    ASSUME IInv, Heads, Next
    PROVE  Heads'
<1> USE DEF durable, memory
<1>t. Len(log) \in Nat /\ modelSeq \in Nat /\ TypeOK
  BY DEF IInv, TypeOK
<1>1. CASE UNCHANGED <<log, projected, modelSeq>>
  BY <1>1 DEF Heads
<1>2. CASE Start \/ AdvanceReadModel \/ Crash
  <2>1. log' = log /\ projected' \in {projected, Len(log)} /\ modelSeq' \in {0, Len(log)}
    BY <1>2 DEF Start, AdvanceReadModel, Crash
  <2> QED
    BY <1>t, <2>1 DEF Heads
<1>3. CASE Commit \/ CommitReportsFailure
  <2>1. /\ modelSeq' = modelSeq /\ projected' = Len(log')
        /\ Len(log') = Len(log) + Len(worker.plan) /\ Len(worker.plan) \in Nat
    BY <1>t, <1>3, TransactionFacts DEF Commit, CommitReportsFailure
  <2> QED
    BY <1>t, <2>1 DEF Heads
<1>4. CASE Reconcile
  <2>1. /\ log' = log /\ projected' = projected
        /\ modelSeq' \in {modelSeq, ReadFromSequence(worker.start)}
    BY <1>4 DEF Reconcile
  <2>2. ReadFromSequence(worker.start) <= Len(log)
    BY <1>t, BoundsAssumption DEF ReadFromSequence, TypeOK, Worker
  <2> QED
    BY <2>1, <2>2 DEF Heads
<1> QED
  BY <1>1, <1>2, <1>3, <1>4
     DEF Next, ProcessEnvelope, Dispatch, Take, LookupReceipt, QueryFails, Guard, DecideReject, Decide,
         CommitNothing, TransactionFails, ReconcileFails, Publish, PublishDone, RecordRejection,
         RecordRejectionFails, Reply

(* What the receipt of a command lets it be told.                          *)
LEMMA TrueAnswersFacts ==
    ASSUME NEW c \in Command
    PROVE  /\ Is("failed") \in Promise!TrueAnswers(c)
           /\ receipts[c.id].status # "accepted" => Is("rejected") \in Promise!TrueAnswers(c)
           /\ \A n : Effect(c, n) => Accepted(n) \in Promise!TrueAnswers(c)
           /\ receipts[c.id].status = "rejected" /\ receipts[c.id].agg = c.agg =>
                 Is("previously-rejected") \in Promise!TrueAnswers(c)
           /\ receipts[c.id] # NoReceipt /\ receipts[c.id].agg # c.agg =>
                 Is("id-conflict") \in Promise!TrueAnswers(c)
<1> USE DEF Promise!TrueAnswers, Is
<1>1. Is("failed") \in Promise!TrueAnswers(c)
  OBVIOUS
<1>2. receipts[c.id].status # "accepted" => Is("rejected") \in Promise!TrueAnswers(c)
  OBVIOUS
<1>3. ASSUME NEW n, Effect(c, n)
      PROVE  Accepted(n) \in Promise!TrueAnswers(c)
  BY <1>3 DEF Effect, Accepted
<1>4. receipts[c.id].status = "rejected" /\ receipts[c.id].agg = c.agg =>
         Is("previously-rejected") \in Promise!TrueAnswers(c)
  OBVIOUS
<1>5. receipts[c.id] # NoReceipt /\ receipts[c.id].agg # c.agg => Is("id-conflict") \in Promise!TrueAnswers(c)
  BY DEF NoReceipt, Promise!NoReceipt
<1> QED
  BY <1>1, <1>2, <1>3, <1>4, <1>5

(* Nothing else may be told than what stands.                              *)
LEMMA TrueAnswersStand ==
    ASSUME IInv, NEW c \in Command, NEW a \in Promise!TrueAnswers(c)
    PROVE  /\ a.is = "accepted" => Effect(c, a.seq)
           /\ a.is = "previously-rejected" => receipts[c.id].status = "rejected"
           /\ a.is = "id-conflict" => receipts[c.id] # NoReceipt /\ receipts[c.id].agg # c.agg
           /\ a.is # "waiting"
<1> DEFINE r == receipts[c.id]
<1>1. r \in Receipt \cup {NoReceipt}
  BY DEF IInv, TypeOK, Command
<1>2. \/ a.is \in {"failed", "rejected"}
      \/ a = [is |-> "accepted", seq |-> r.seq] /\ r.status = "accepted" /\ r.agg = c.agg
      \/ a.is = "previously-rejected" /\ r.status = "rejected"
      \/ a.is = "id-conflict" /\ r # NoReceipt /\ r.agg # c.agg
  BY DEF Promise!TrueAnswers, NoReceipt, Promise!NoReceipt
<1>3. r.status = "accepted" => r = [status |-> "accepted", agg |-> r.agg, seq |-> r.seq]
  BY <1>1 DEF Receipt, NoReceipt
<1> QED
  BY <1>2, <1>3 DEF Effect

(* From the lookup or the transaction to the reply the result keeps the    *)
(* receipt it rests on.                                                    *)
LEMMA OutcomePreserved ==
    ASSUME IInv, Outcome, Next
    PROVE  Outcome'
<1> USE DEF durable, clients, memory
<1>t. TypeOK /\ StillFresh
  BY DEF IInv
<1>w. worker \in Worker
  BY <1>t DEF TypeOK
<1>h. Busy => Holding \in Command
  BY <1>t DEF TypeOK, Holding, Busy
<1>1. ASSUME worker'.at \in {"down", "idle", "lookup", "guard", "decide", "commit"}
      PROVE  Outcome'
  BY <1>1 DEF Outcome
<1>2. CASE Start \/ Take \/ Reply \/ Crash
  <2>1. Idle.at = "idle" /\ Down.at = "down" /\ Idle \in Worker
    BY DataFacts DEF Idle, Down
  <2> QED
    BY <1>1, <1>2, <2>1 DEF Start, Take, Reply, Crash, Worker
<1>3. ASSUME NEW id \in CommandIds, NEW agg \in Aggregates, NEW kind \in Kinds, Dispatch(id, agg, kind)
      PROVE  Outcome'
  <2>1. worker' = worker /\ log' = log /\ receipts' = receipts
    BY <1>3 DEF Dispatch
  <2>2. CASE ~Busy
    BY <1>1, <2>1, <2>2 DEF Busy
  <2>3. CASE Busy
    <3>1. Holding' = Holding
      BY <1>3, <1>t, <2>1, <2>3 DEF Dispatch, TypeOK, Holding, Busy
    <3> QED
      BY <2>1, <3>1 DEF Outcome, Effect, Promise!TrueAnswers
  <2> QED
    BY <2>2, <2>3
<1>4. CASE LookupReceipt
  <2> DEFINE r == receipts[Holding.id]
  <2>1. /\ Busy /\ Holding \in Command /\ Holding' = Holding /\ receipts' = receipts
    BY <1>4, <1>h, ServesOne DEF ProcessEnvelope, LookupReceipt, Reply, Busy
  <2>2. r \in Receipt \cup {NoReceipt}
    BY <1>t, <2>1 DEF TypeOK, Command
  <2>3. CASE r = NoReceipt
    BY <1>1, <1>4, <1>w, <2>3 DEF LookupReceipt, Worker
  <2>4. CASE r # NoReceipt
    <3>1. /\ worker'.at = "reply"
          /\ \/ r.agg # Holding.agg /\ worker'.result = Is("id-conflict")
             \/ r.agg = Holding.agg /\ r.status = "accepted" /\ worker'.result = Accepted(r.seq)
             \/ r.agg = Holding.agg /\ r.status # "accepted" /\ worker'.result = Is("previously-rejected")
      BY <1>4, <1>w, <2>4 DEF LookupReceipt, Worker
    <3>2. r.status \in {"accepted", "rejected"} /\ r = [status |-> r.status, agg |-> r.agg, seq |-> r.seq]
      BY <2>2, <2>4 DEF Receipt
    <3>3. worker'.result \in Promise!TrueAnswers(Holding)
      BY <2>1, <2>4, <3>1, <3>2, TrueAnswersFacts DEF Effect
    <3>4. Promise!TrueAnswers(Holding)' = Promise!TrueAnswers(Holding)
      BY <2>1 DEF Promise!TrueAnswers
    <3> QED
      BY <3>1, <3>3, <3>4 DEF Outcome
  <2> QED
    BY <2>3, <2>4
<1>5. CASE QueryFails \/ Guard \/ DecideReject \/ CommitNothing \/ TransactionFails \/ CommitReportsFailure
  <2>1. worker'.at = "decide" \/ (worker'.at = "reconcile" /\ worker'.result \in {Is("rejected"), Is("failed")})
    BY <1>5, <1>w DEF QueryFails, Guard, DecideReject, CommitNothing, TransactionFails,
       CommitReportsFailure, Worker
  <2> QED
    BY <2>1 DEF Outcome, Is
<1>6. CASE Decide
  BY <1>1, <1>6, <1>w DEF Decide, Worker
<1>7. CASE Commit
  <2>1. worker'.at = "advance" /\ Holding' = Holding /\ Holding \in Command
    BY <1>7, <1>w, <1>h, ServesOne DEF ProcessEnvelope, Commit, Reply, Worker, Busy
  <2>2. /\ worker.plan[Len(worker.plan)].agg = Holding.agg
        /\ receipts' = [receipts EXCEPT ![Holding.id] =
              [status |-> "accepted", agg |-> worker.plan[Len(worker.plan)].agg, seq |-> Len(log')]]
        /\ DOMAIN receipts = CommandIds
    BY <1>7, <1>t, TransactionFacts DEF Commit, StillFresh, TypeOK
  <2>3. receipts'[Holding.id] = [status |-> "accepted", agg |-> Holding.agg, seq |-> Len(log')]
    BY <2>1, <2>2 DEF Command
  <2> QED
    BY <2>1, <2>3 DEF Outcome, Effect
<1>8. CASE AdvanceReadModel
  <2>1. /\ worker'.at = "publish" /\ worker'.result = Accepted(Len(log))
        /\ Holding' = Holding /\ receipts' = receipts /\ Effect(Holding, Len(log))
    BY <1>8, <1>w, ServesOne DEF ProcessEnvelope, AdvanceReadModel, Reply, Worker, Outcome
  <2> QED
    BY <2>1 DEF Outcome, Effect, Accepted
<1>9. CASE Reconcile \/ ReconcileFails \/ Publish
  <2>1. /\ worker'.at = "publish" /\ worker'.result = worker.result
        /\ worker.at \in {"reconcile", "publish"}
        /\ Holding' = Holding /\ receipts' = receipts
    BY <1>9, <1>w, ServesOne DEF ProcessEnvelope, Reconcile, ReconcileFails, Publish, Reply, Worker
  <2> QED
    BY <2>1 DEF Outcome, Effect
<1>10. CASE PublishDone
  <2>1. /\ worker.at = "publish" /\ worker'.result = worker.result
        /\ \/ worker'.at = "reply" /\ worker.result # Is("rejected")
           \/ worker'.at = "receipt" /\ worker.result = Is("rejected")
        /\ Holding' = Holding /\ receipts' = receipts /\ Holding \in Command
    BY <1>10, <1>w, <1>h, ServesOne DEF ProcessEnvelope, PublishDone, Reply, Worker, Busy
  <2>2. worker.result \in Answer
    BY <1>w DEF Worker
  <2>3. CASE worker'.at = "receipt"
    BY <2>1, <2>3 DEF Outcome, Is
  <2>4. CASE worker'.at = "reply"
    <3>1. \/ worker.result = Is("failed")
          \/ worker.result = Accepted(worker.result.seq) /\ Effect(Holding, worker.result.seq)
      BY <2>1, <2>2, <2>4, AnswerShapes DEF Outcome
    <3>2. worker.result \in Promise!TrueAnswers(Holding)
      BY <2>1, <3>1, TrueAnswersFacts
    <3>3. Promise!TrueAnswers(Holding)' = Promise!TrueAnswers(Holding)
      BY <2>1 DEF Promise!TrueAnswers
    <3> QED
      BY <2>1, <2>4, <3>2, <3>3 DEF Outcome
  <2> QED
    BY <2>1, <2>3, <2>4
<1>11. CASE RecordRejection \/ RecordRejectionFails
  <2>1. /\ worker.at = "receipt" /\ worker'.at = "reply" /\ worker'.result = worker.result
        /\ Holding' = Holding /\ Holding \in Command
    BY <1>11, <1>w, <1>h, ServesOne
       DEF ProcessEnvelope, RecordRejection, RecordRejectionFails, Reply, Worker, Busy
  <2>2. worker.result = Is("rejected")
    BY <1>w, <2>1, AnswerShapes DEF Worker, Outcome
  <2>3. receipts'[Holding.id].status # "accepted"
    <3>1. receipts[Holding.id] = NoReceipt /\ DOMAIN receipts = CommandIds /\ Holding.id \in CommandIds
      BY <1>t, <2>1 DEF StillFresh, MayWriteReceipt, TypeOK, Command
    <3> QED
      BY <1>11, <3>1 DEF RecordRejection, RecordRejectionFails, NoReceipt
  <2>4. worker'.result \in Promise!TrueAnswers(Holding)'
    BY <2>1, <2>2, <2>3 DEF Promise!TrueAnswers, Is
  <2> QED
    BY <2>1, <2>4 DEF Outcome
<1> QED
  BY <1>2, <1>3, <1>4, <1>5, <1>6, <1>7, <1>8, <1>9, <1>10, <1>11 DEF Next, ProcessEnvelope

(* An answer given stands: no receipt it rests on is ever revised.         *)
LEMMA StandsKept ==
    ASSUME IInv, [Next]_vars, NEW t \in 1..Len(sent), Stands(t),
           sent'[t] = sent[t], answers'[t] = answers[t]
    PROVE  Stands(t)'
<1>1. sent[t].id \in CommandIds
  <2>1. sent \in Seq(Command)
    BY DEF IInv, TypeOK
  <2>2. sent[t] \in Command
    BY <2>1
  <2> QED
    BY <2>2 DEF Command
<1>2. receipts[sent[t].id] # NoReceipt => receipts'[sent[t].id] = receipts[sent[t].id]
  BY <1>1, ReceiptsKept
<1>3. answers[t].is \in {"accepted", "previously-rejected", "id-conflict"} =>
         receipts[sent[t].id] # NoReceipt
  BY DEF Stands, Effect, NoReceipt
<1> QED
  BY <1>2, <1>3 DEF Stands, Effect

(* A reply tells what Outcome carried; a crash tells nothing.              *)
LEMMA AnswersStandPreserved ==
    ASSUME IInv, Outcome, AnswersStand, Next
    PROVE  AnswersStand'
<1>t. /\ answers \in Seq(Answer) /\ sent \in Seq(Command) /\ Len(answers) = Len(sent)
      /\ Len(sent) \in Nat /\ (Busy => worker.ticket \in 1..Len(sent))
  BY DEF IInv, TypeOK, Busy
<1>1. SUFFICES ASSUME NEW t \in 1..Len(sent')
               PROVE  Stands(t)'
  BY DEF AnswersStand
<1>2. ASSUME t \in 1..Len(sent), sent'[t] = sent[t], answers'[t] = answers[t]
      PROVE  Stands(t)'
  BY <1>2, StandsKept DEF AnswersStand
<1>3. CASE UNCHANGED <<sent, answers>>
  BY <1>2, <1>3
<1>4. ASSUME NEW id \in CommandIds, NEW agg \in Aggregates, NEW kind \in Kinds, Dispatch(id, agg, kind)
      PROVE  Stands(t)'
  <2>1. /\ Len(sent') = Len(sent) + 1
        /\ \A u \in 1..Len(sent) : sent'[u] = sent[u] /\ answers'[u] = answers[u]
        /\ answers'[Len(sent) + 1] = Is("waiting")
    BY <1>t, <1>4 DEF Dispatch
  <2>2. CASE t \in 1..Len(sent)
    BY <1>2, <2>1, <2>2
  <2>3. CASE t = Len(sent) + 1
    BY <2>1, <2>3 DEF Stands, Is
  <2> QED
    BY <1>t, <2>1, <2>2, <2>3
<1>5. CASE Reply
  <2>1. /\ Busy /\ answers' = [answers EXCEPT ![worker.ticket] = worker.result]
        /\ sent' = sent /\ receipts' = receipts
        /\ worker.result \in Promise!TrueAnswers(Holding)
    BY <1>5 DEF Reply, Busy, Outcome, durable
  <2>2. CASE t # worker.ticket
    BY <1>2, <1>t, <2>1, <2>2
  <2>3. CASE t = worker.ticket
    <3>1. sent'[t] = Holding /\ Holding \in Command /\ answers'[t] = worker.result
      BY <1>t, <2>1, <2>3 DEF Holding
    <3> QED
      BY <2>1, <3>1, TrueAnswersStand DEF Stands, Effect
  <2> QED
    BY <2>2, <2>3
<1>6. CASE Crash
  <2>1. sent' = sent /\ answers'[t] \in {answers[t], Is("lost")}
    BY <1>t, <1>6 DEF Crash
  <2>2. CASE answers'[t] = Is("lost")
    BY <2>2 DEF Stands, Is
  <2> QED
    BY <1>2, <2>1, <2>2
<1> QED
  BY <1>3, <1>4, <1>5, <1>6
     DEF Next, ProcessEnvelope, Start, Take, LookupReceipt, QueryFails, Guard, DecideReject, Decide,
         Commit, CommitNothing, TransactionFails, CommitReportsFailure, AdvanceReadModel, Reconcile,
         ReconcileFails, Publish, PublishDone, RecordRejection, RecordRejectionFails, clients

-----------------------------------------------------------------------------
(* The transaction is the promise's Apply of the command being served.     *)
LEMMA TransactionApplies ==
    ASSUME IInv, RInv, Commit \/ CommitReportsFailure
    PROVE  Promise!Apply(worker.ticket)
<1> DEFINE t == worker.ticket
<1>1. /\ worker.at = "commit" /\ worker.plan # NoPlan /\ TransactionWrites
      /\ UNCHANGED <<sent, answers>>
  BY DEF Commit, CommitReportsFailure, clients
<1>2. TypeOK /\ receipts[Holding.id] = NoReceipt /\ worker.plan[Len(worker.plan)].agg = Holding.agg
  BY <1>1 DEF IInv, StillFresh, MayWriteReceipt
<1>3. /\ Holding \in Command
      /\ log' \in Seq(Event) /\ log \in Seq(Event)
      /\ Len(log) \in Nat /\ Len(log') \in Nat /\ Len(log') > Len(log)
      /\ Len(log') - Len(log) = Len(worker.plan)
      /\ \A s \in 1..Len(log) : log'[s] = log[s]
      /\ \A s \in Len(log) + 1 .. Len(log') :
            /\ log'[s].cmd = Holding.id
            /\ log'[s].agg = worker.plan[s - Len(log)].agg
      /\ receipts' = [receipts EXCEPT ![Holding.id] =
            [status |-> "accepted", agg |-> Holding.agg, seq |-> Len(log')]]
  BY <1>1, <1>2, TransactionFacts DEF TypeOK
<1>4. answers[t].is = "waiting"
  BY <1>1 DEF RInv, Tickets, Busy
<1>5. SubSeq(log', 1, Len(log)) = log
  <2>1. /\ SubSeq(log', 1, Len(log)) \in Seq(Event)
        /\ Len(SubSeq(log', 1, Len(log))) = Len(log)
        /\ \A i \in 1..Len(log) : SubSeq(log', 1, Len(log))[i] = log'[i]
    BY <1>3
  <2> QED
    BY <1>3, <2>1, SeqEqual
<1>6. ASSUME NEW s \in Len(log) + 1 .. Len(log')
      PROVE  log'[s] \in [cmd : {Holding.id}, agg : Aggregates, type : EventTypes]
  <2>1. log'[s] \in Event /\ log'[s].cmd = Holding.id
    BY <1>3
  <2> QED
    BY <2>1 DEF Event
<1>7. log'[Len(log')].agg = Holding.agg
  BY <1>2, <1>3
<1> QED
  BY <1>1, <1>2, <1>3, <1>4, <1>5, <1>6, <1>7 DEF Promise!Apply, Promise!NoReceipt, NoReceipt, Holding

(* Every step of the engine is a step of the promise or none.              *)
LEMMA StepRefines ==
    ASSUME IInv, RInv, Next
    PROVE  [Promise!Next]_Promise!vars
<1> USE DEF durable, clients, memory
<1>t. /\ answers \in Seq(Answer) /\ sent \in Seq(Command) /\ Len(answers) = Len(sent)
      /\ log \in Seq(Event) /\ Len(log) \in Nat
      /\ modelSeq \in 0..Len(log) /\ projected \in 0..Len(log)
      /\ (Busy => worker.ticket \in 1..Len(sent) /\ answers[worker.ticket].is = "waiting")
  BY DEF IInv, TypeOK, RInv, Heads, Tickets, Busy
<1>1. CASE UNCHANGED <<log, receipts, sent, answers>>
  BY <1>1 DEF Promise!vars
<1>2. ASSUME NEW id \in CommandIds, NEW agg \in Aggregates, NEW kind \in Kinds, Dispatch(id, agg, kind)
      PROVE  Promise!Submit
  <2> DEFINE c == [id |-> id, agg |-> agg, kind |-> kind, snap |-> IF kind = "plain" THEN 0 ELSE projected]
  <2>1. c \in [id : CommandIds, agg : Aggregates,
               kind : {"plain", "auto-settle", "pull-request.sync"}, snap : 0..Len(log)]
    BY <1>t DEF Kinds
  <2>2. /\ sent' = Append(sent, c) /\ answers' = Append(answers, [is |-> "waiting"])
        /\ UNCHANGED <<log, receipts>>
    BY <1>2 DEF Dispatch, Is
  <2> QED
    BY <2>1, <2>2 DEF Promise!Submit
<1>3. CASE Commit \/ CommitReportsFailure
  <2>1. worker.ticket \in 1..Len(sent)
    BY <1>3, <1>t DEF Commit, CommitReportsFailure, Busy
  <2> QED
    BY <1>3, <2>1, TransactionApplies DEF Promise!Next
<1>4. CASE RecordRejection
  <2>1. /\ Busy /\ receipts[Holding.id] = NoReceipt
        /\ receipts' = [receipts EXCEPT ![Holding.id] =
              [status |-> "rejected", agg |-> Holding.agg, seq |-> modelSeq]]
        /\ UNCHANGED <<log, sent, answers>>
    BY <1>4 DEF RecordRejection, Busy, IInv, StillFresh, MayWriteReceipt
  <2>2. Promise!Refuse(worker.ticket)
    BY <1>t, <2>1 DEF Promise!Refuse, Holding, NoReceipt, Promise!NoReceipt
  <2> QED
    BY <1>t, <2>1, <2>2 DEF Promise!Next
<1>5. CASE Reply
  <2>1. /\ Busy /\ worker.result \in Promise!TrueAnswers(sent[worker.ticket])
        /\ answers' = [answers EXCEPT ![worker.ticket] = worker.result]
        /\ UNCHANGED <<log, receipts, sent>>
    BY <1>5 DEF Reply, Busy, RInv, Outcome, Holding
  <2>2. Promise!Respond(worker.ticket)
    BY <1>t, <2>1 DEF Promise!Respond
  <2> QED
    BY <1>t, <2>1, <2>2 DEF Promise!Next
<1>6. CASE Crash
  <2>1. \A t \in DOMAIN answers : answers[t] = Is("waiting") <=> answers[t].is = "waiting"
    BY <1>t, AnswerShapes
  <2>2. answers' = [t \in DOMAIN answers |->
                       IF answers[t].is = "waiting" THEN [is |-> "lost"] ELSE answers[t]]
    BY <1>6, <2>1 DEF Crash, Is
  <2>3. UNCHANGED <<log, receipts, sent>>
    BY <1>6 DEF Crash
  <2> QED
    BY <2>2, <2>3 DEF Promise!Lose, Promise!Next
<1> QED
  BY <1>1, <1>2, <1>3, <1>4, <1>5, <1>6
     DEF Next, ProcessEnvelope, Start, Take, LookupReceipt, QueryFails, Guard, DecideReject, Decide,
         CommitNothing, TransactionFails, AdvanceReadModel, Reconcile, ReconcileFails, Publish,
         PublishDone, RecordRejectionFails, Promise!Next

(* Every step keeps the relation between engine and promise.               *)
LEMMA RInvPreserved == IInv /\ RInv /\ [Next]_vars => RInv'
<1> SUFFICES ASSUME IInv, RInv, [Next]_vars PROVE RInv'
  OBVIOUS
<1>1. CASE Next
  BY <1>1, TicketsPreserved, HeadsPreserved, OutcomePreserved, AnswersStandPreserved DEF RInv
<1>2. CASE UNCHANGED vars
  BY <1>2 DEF RInv, Tickets, Heads, Outcome, AnswersStand, Stands, Effect, Busy, Holding,
     Promise!TrueAnswers, vars
<1> QED
  BY <1>1, <1>2

-----------------------------------------------------------------------------
(* The strengthened invariant holds of every reachable state.              *)
THEOREM RelationHolds == Spec => [](IInv /\ RInv)
<1>1. Init => RInv
  BY InitRefines
<1> QED
  BY <1>1, RInvPreserved, InitEstablishesIInv, NextPreserves, PTL DEF Spec

(* The engine implements CommandLog: with a queue, a worker that runs the  *)
(* checks and the transaction in separate steps, a read model and crashes, *)
(* it still applies each command id at most once and answers truthfully.   *)
THEOREM EngineImplementsCommandLog == Spec => ImplementsCommandLog
<1>1. Init => Promise!Init
  BY InitRefines
<1>2. IInv /\ RInv /\ [Next]_vars => [Promise!Next]_Promise!vars
  <2>1. IInv /\ RInv /\ Next => [Promise!Next]_Promise!vars
    BY StepRefines
  <2>2. UNCHANGED vars => UNCHANGED Promise!vars
    BY DEF vars, Promise!vars
  <2> QED
    BY <2>1, <2>2
<1> QED
  BY <1>1, <1>2, RelationHolds, PTL DEF Spec, ImplementsCommandLog, Promise!Spec

(* What a caller is told is true of the log, and stays so.                 *)
THEOREM CallersAreToldTheTruth == Spec => []AnswersAreTrue
<1>1. ASSUME IInv, RInv PROVE AnswersAreTrue
  <2>1. SUFFICES ASSUME NEW t \in 1..Len(sent)
                 PROVE  /\ answers[t].is = "accepted" =>
                              /\ answers[t].seq \in EventsOf(sent[t].id)
                              /\ log[answers[t].seq].agg = sent[t].agg
                              /\ answers[t].seq <= projected
                        /\ answers[t].is = "previously-rejected" => EventsOf(sent[t].id) = {}
                        /\ answers[t].is = "id-conflict" =>
                              receipts[sent[t].id] # NoReceipt /\ receipts[sent[t].id].agg # sent[t].agg
    BY DEF AnswersAreTrue
  <2>2. sent[t].id \in CommandIds
    <3>1. sent \in Seq(Command)
      BY <1>1 DEF IInv, TypeOK
    <3>2. sent[t] \in Command
      BY <3>1
    <3> QED
      BY <3>2 DEF Command
  <2>3. Stands(t) /\ projected = Len(log)
    BY <1>1 DEF RInv, AnswersStand, Heads
  <2>4. IF receipts[sent[t].id].status = "accepted"
        THEN /\ receipts[sent[t].id].seq \in EventsOf(sent[t].id)
             /\ log[receipts[sent[t].id].seq].agg = receipts[sent[t].id].agg
        ELSE EventsOf(sent[t].id) = {}
    BY <1>1, <2>2 DEF IInv, AppliedOnce
  <2>5. \A s \in EventsOf(sent[t].id) : s <= projected
    BY <1>1, <2>3 DEF EventsOf, IInv, TypeOK
  <2> QED
    BY <2>3, <2>4, <2>5 DEF Stands, Effect
<1>2. IInv /\ RInv => AnswersAreTrue
  BY <1>1
<1> QED
  BY <1>2, RelationHolds, PTL

-----------------------------------------------------------------------------
(***************************************************************************)
(* The engine's read model and its PubSub against the event log, for any   *)
(* batch size and any failures of commits, reconciliations and processes.  *)
(*                                                                         *)
(* Between two commands the read model is the log, but a command moves the *)
(* two one after the other, and after a failed dispatch what to move is    *)
(* found out by reading the log from where the command began.  Serving     *)
(* ties that point to the read model, CaughtUp says for each phase how far *)
(* log, read model and PubSub are apart, and Visible says the same of what *)
(* is published when a reconciliation failed and they may stay apart.      *)
(***************************************************************************)
(* A command begins at the read model's sequence, and its batch is what    *)
(* the log has grown by since, never more than a decider's list.           *)
Serving ==
    /\ worker.at \in {"lookup", "guard", "decide", "commit", "advance", "reconcile"} =>
          worker.start = modelSeq
    /\ worker.at = "commit" => Len(worker.plan) <= MaxPlan
    /\ worker.at = "advance" => modelSeq + Len(worker.plan) <= Len(log)

(* Whatever is or is about to be published is in the read model, in order. *)
Visible ==
    /\ worker.at = "down" => published = << >>
    /\ \A i \in 1..Len(published) :
          /\ published[i] \in applied
          /\ published[i] <= modelSeq
          /\ \A j \in i + 1 .. Len(published) : published[i] < published[j]
    /\ worker.at = "publish" /\ worker.from <= worker.to =>
          /\ worker.from .. worker.to \subseteq applied
          /\ worker.to <= modelSeq
          /\ \A i \in 1..Len(published) : published[i] < worker.from

(* The sequences published so far are those after the loaded one, up to n. *)
InOrder        == \A i \in 1..Len(published) : published[i] = loadedSeq + i
PublishedTo(n) == loadedSeq + Len(published) = n

(* Nothing is under way between log, read model and PubSub.                *)
SettledPhases == {"idle", "lookup", "guard", "decide", "commit", "receipt", "reply"}
Settled       == applied = 1..Len(log) /\ modelSeq = Len(log) /\ PublishedTo(Len(log))

(* How far the three are apart in each phase.                              *)
CaughtUp ==
    /\ InOrder
    /\ worker.at \in SettledPhases => Settled
    /\ worker.at = "advance" =>
          applied = 1..modelSeq /\ modelSeq + Len(worker.plan) = Len(log) /\ PublishedTo(modelSeq)
    /\ worker.at = "reconcile" =>
          applied = 1..modelSeq /\ Len(log) <= modelSeq + ReadLimit /\ PublishedTo(modelSeq)
    /\ worker.at = "publish" =>
          /\ applied = 1..Len(log) /\ modelSeq = Len(log)
          /\ worker.to = Len(log) /\ worker.from <= worker.to + 1
          /\ PublishedTo(worker.from - 1)

MInv == Serving /\ Visible /\ (~warned => CaughtUp)

-----------------------------------------------------------------------------
(* The numbers the three parts are about.                                  *)
LEMMA Numbers ==
    ASSUME IInv, Heads
    PROVE  /\ Len(log) \in Nat /\ modelSeq \in Nat /\ loadedSeq \in Nat /\ modelSeq <= Len(log)
           /\ published \in Seq(Nat) /\ Len(published) \in Nat
           /\ worker \in Worker /\ worker.start \in Nat /\ worker.from \in Nat /\ worker.to \in Nat
           /\ worker.plan \in Seq(Planned) /\ Len(worker.plan) \in Nat
           /\ warned \in BOOLEAN
           /\ MaxPlan \in Nat /\ ReadLimit \in Nat /\ MaxPlan <= ReadLimit
  BY BoundsAssumption, ReadLimitAssumption DEF IInv, TypeOK, Heads, Worker

(* No decider returns more than MaxPlan events.                            *)
LEMMA PlansAreShort ==
    ASSUME NEW c \in Command, NEW plan \in Plans(c)
    PROVE  Len(plan) <= MaxPlan
<1>1. CASE plan = NoPlan
  BY <1>1, BoundsAssumption DEF NoPlan
<1>2. CASE plan # NoPlan
  <2>1. PICK n \in 1..MaxPlan : plan \in [1..n -> Planned]
    BY <1>2 DEF Plans
  <2>2. Len(plan) = n
    BY <2>1, BoundsAssumption
  <2> QED
    BY <2>1, <2>2, BoundsAssumption
<1> QED
  BY <1>1, <1>2

(* The steps that only move the worker on: what they leave alone and where *)
(* they go.                                                                *)
LEMMA QuietSteps ==
    ASSUME IInv,
           \/ LookupReceipt \/ QueryFails \/ Guard \/ DecideReject \/ CommitNothing \/ TransactionFails
           \/ RecordRejection \/ RecordRejectionFails \/ Reply
    PROVE  /\ UNCHANGED <<log, applied, modelSeq, loadedSeq, published, warned>>
           /\ \/ /\ worker.at \in {"lookup", "guard", "decide", "commit"}
                 /\ worker'.at \in {"guard", "decide", "reconcile", "reply"}
                 /\ worker'.start = worker.start
              \/ worker.at \in {"receipt", "reply"} /\ worker'.at \in {"reply", "idle"}
<1>w. worker \in Worker
  BY DEF IInv, TypeOK
<1>1. UNCHANGED <<log, applied, modelSeq, loadedSeq, published, warned>>
  BY DEF LookupReceipt, QueryFails, Guard, DecideReject, CommitNothing, TransactionFails,
     RecordRejection, RecordRejectionFails, Reply, durable, memory
<1>2. CASE LookupReceipt
  BY <1>w, <1>1, <1>2 DEF LookupReceipt, Worker
<1>3. CASE QueryFails \/ Guard \/ DecideReject \/ CommitNothing \/ TransactionFails
  BY <1>w, <1>1, <1>3 DEF QueryFails, Guard, DecideReject, CommitNothing, TransactionFails, Worker
<1>4. CASE RecordRejection \/ RecordRejectionFails
  BY <1>w, <1>1, <1>4 DEF RecordRejection, RecordRejectionFails, Worker
<1>5. CASE Reply
  BY <1>1, <1>5 DEF Reply, Idle, Down
<1> QED
  BY <1>2, <1>3, <1>4, <1>5

(* The transaction, as far as lengths go.                                  *)
LEMMA TransactionSteps ==
    ASSUME IInv, Commit \/ CommitReportsFailure
    PROVE  /\ worker.at = "commit"
           /\ Len(log') = Len(log) + Len(worker.plan)
           /\ UNCHANGED <<applied, modelSeq, loadedSeq, published, warned>>
           /\ worker'.start = worker.start
           /\ Commit => worker'.at = "advance" /\ worker'.plan = worker.plan
           /\ CommitReportsFailure => worker'.at = "reconcile"
<1>w. TypeOK /\ worker \in Worker
  BY DEF IInv, TypeOK
<1>1. worker.at = "commit" /\ worker.plan # NoPlan /\ TransactionWrites
  BY DEF Commit, CommitReportsFailure
<1>2. Len(log') = Len(log) + Len(worker.plan)
  BY <1>w, <1>1, TransactionFacts
<1>3. CASE Commit
  BY <1>w, <1>1, <1>2, <1>3 DEF Commit, CommitReportsFailure, memory, Worker, Is
<1>4. CASE CommitReportsFailure
  BY <1>w, <1>1, <1>2, <1>4 DEF Commit, CommitReportsFailure, memory, Worker, Is
<1> QED
  BY <1>3, <1>4

(* Every step keeps Serving.                                               *)
LEMMA ServingPreserved ==
    ASSUME IInv, Heads, Serving, Next
    PROVE  Serving'
<1> USE DEF durable, clients, memory
<1>w. worker \in Worker
  BY Numbers
<1>1. ASSUME worker'.at \in {"down", "idle", "publish", "receipt", "reply"}
      PROVE  Serving'
  BY <1>1 DEF Serving
<1>2. CASE Start \/ Crash
  BY <1>1, <1>2 DEF Start, Crash, Idle, Down
<1>3. ASSUME NEW id \in CommandIds, NEW agg \in Aggregates, NEW kind \in Kinds, Dispatch(id, agg, kind)
      PROVE  Serving'
  BY <1>3 DEF Dispatch, Serving
<1>4. CASE Take
  <2>1. worker'.at = "lookup" /\ worker'.start = modelSeq /\ modelSeq' = modelSeq
    BY <1>4, DataFacts DEF Take, Worker
  <2> QED
    BY <2>1 DEF Serving
<1>5. CASE LookupReceipt \/ QueryFails \/ Guard \/ DecideReject \/ CommitNothing \/ TransactionFails
           \/ RecordRejection \/ RecordRejectionFails \/ Reply
  BY <1>5, QuietSteps DEF Serving
<1>6. CASE Decide
  <2>1. PICK plan \in Plans(Holding) : worker' = [worker EXCEPT !.at = "commit", !.plan = plan]
    BY <1>6 DEF Decide
  <2>2. /\ worker.at = "decide" /\ worker'.at = "commit" /\ worker'.plan = plan
        /\ worker'.start = worker.start /\ modelSeq' = modelSeq
    BY <1>6, <1>w, <2>1 DEF Decide, Worker
  <2>3. Holding \in Command
    BY <2>2 DEF IInv, TypeOK, Holding
  <2> QED
    BY <2>2, <2>3, PlansAreShort DEF Serving
<1>7. CASE Commit \/ CommitReportsFailure
  BY <1>7, TransactionSteps, Numbers DEF Serving
<1>8. CASE AdvanceReadModel \/ Reconcile \/ ReconcileFails \/ Publish \/ PublishDone
  <2>1. worker'.at \in {"publish", "receipt", "reply"}
    BY <1>8, <1>w DEF AdvanceReadModel, Reconcile, ReconcileFails, Publish, PublishDone, Worker
  <2> QED
    BY <1>1, <2>1
<1> QED
  BY <1>2, <1>3, <1>4, <1>5, <1>6, <1>7, <1>8 DEF Next, ProcessEnvelope

(* Every step keeps Visible: what is put up for publishing has just been   *)
(* taken into the read model, beyond all that was published before.        *)
LEMMA VisiblePreserved ==
    ASSUME IInv, Heads, Serving, Visible, Next
    PROVE  Visible'
<1> USE DEF durable, clients, memory
<1>w. worker \in Worker
  BY Numbers
<1>1. ASSUME UNCHANGED <<applied, modelSeq, published>>, worker.at # "down",
             worker'.at \notin {"down", "publish"}
      PROVE  Visible'
  BY <1>1 DEF Visible
<1>2. CASE Start \/ Crash
  <2>1. published' = << >>
    BY <1>2 DEF Start, Crash, Visible
  <2>2. worker'.at \in {"idle", "down"}
    BY <1>2 DEF Start, Crash, Idle, Down
  <2> QED
    BY <2>1, <2>2 DEF Visible
<1>3. ASSUME NEW id \in CommandIds, NEW agg \in Aggregates, NEW kind \in Kinds, Dispatch(id, agg, kind)
      PROVE  Visible'
  BY <1>3 DEF Dispatch, Visible
<1>4. CASE Take
  <2>1. worker'.at = "lookup"
    BY <1>4, DataFacts DEF Take, Worker
  <2> QED
    BY <1>1, <1>4, <2>1 DEF Take
<1>5. CASE LookupReceipt \/ QueryFails \/ Guard \/ DecideReject \/ CommitNothing \/ TransactionFails
           \/ RecordRejection \/ RecordRejectionFails \/ Reply
  BY <1>1, <1>5, QuietSteps
<1>6. CASE Decide \/ PublishDone
  <2>1. worker'.at \in {"commit", "receipt", "reply"}
    BY <1>6, <1>w DEF Decide, PublishDone, Worker
  <2> QED
    BY <1>1, <1>6, <2>1 DEF Decide, PublishDone
<1>7. CASE Commit \/ CommitReportsFailure
  BY <1>1, <1>7, TransactionSteps
<1>8. CASE AdvanceReadModel
  <2> DEFINE first == Len(log) - Len(worker.plan) + 1
  <2>1. /\ worker.at = "advance" /\ worker'.at = "publish" /\ worker'.from = first /\ worker'.to = Len(log)
        /\ applied' = applied \cup (first .. Len(log)) /\ modelSeq' = Len(log) /\ published' = published
    BY <1>8, <1>w DEF AdvanceReadModel, Worker
  <2>2. /\ Len(log) \in Nat /\ Len(worker.plan) \in Nat /\ modelSeq \in Nat /\ modelSeq <= Len(log)
        /\ \A i \in 1..Len(published) : published[i] \in Nat
    BY Numbers
  <2>3. first \in Int /\ modelSeq < first
    <3>1. modelSeq + Len(worker.plan) <= Len(log)
      BY <2>1 DEF Serving
    <3>2. \A m, n, k \in Nat : m + k <= n => n - k + 1 \in Int /\ m < n - k + 1
      OBVIOUS
    <3> QED
      BY <2>2, <3>1, <3>2, Zenon
  <2>4. \A i \in 1..Len(published) : published[i] < first /\ published[i] <= Len(log)
    <3>1. \A i \in 1..Len(published) : published[i] <= modelSeq
      BY DEF Visible
    <3> HIDE DEF first
    <3> QED
      BY <2>2, <2>3, <3>1
  <2> HIDE DEF first
  <2> QED
    BY <2>1, <2>2, <2>3, <2>4 DEF Visible
<1>9. CASE Reconcile
  <2> DEFINE last == ReadFromSequence(worker.start)
  <2>1. /\ worker.at = "reconcile" /\ worker.start = modelSeq
        /\ worker'.at = "publish" /\ worker'.from = modelSeq + 1 /\ worker'.to = last
        /\ applied' = applied \cup (modelSeq + 1 .. last) /\ published' = published
        /\ modelSeq' = IF last > modelSeq THEN last ELSE modelSeq
    BY <1>9, <1>w DEF Reconcile, Worker, Serving
  <2>2. /\ last \in Nat /\ modelSeq \in Nat
        /\ \A i \in 1..Len(published) : published[i] \in Nat
    <3>1. Len(log) \in Nat /\ worker.start \in Nat /\ ReadLimit \in Nat
      BY Numbers, BoundsAssumption
    <3>2. \A m, n, k \in Nat : (IF m < n + k THEN m ELSE n + k) \in Nat
      OBVIOUS
    <3>3. last \in Nat
      BY <3>1, <3>2, Zenon DEF ReadFromSequence
    <3>4. published \in Seq(Nat) /\ modelSeq \in Nat
      BY Numbers, Zenon
    <3>5. \A i \in 1..Len(published) : published[i] \in Nat
      BY <3>4
    <3> QED
      BY <3>3, <3>4, <3>5, Zenon
  <2>3. modelSeq' >= modelSeq /\ modelSeq' \in Nat /\ (modelSeq + 1 <= last => last <= modelSeq')
    BY <2>1, <2>2
  <2>4. \A i \in 1..Len(published) : published[i] < modelSeq + 1 /\ published[i] <= modelSeq'
    BY <2>2, <2>3 DEF Visible
  <2> HIDE DEF last
  <2> QED
    BY <2>1, <2>2, <2>3, <2>4 DEF Visible
<1>10. CASE ReconcileFails
  <2>1. /\ worker.at = "reconcile" /\ worker'.at = "publish" /\ worker'.from = 1 /\ worker'.to = 0
        /\ UNCHANGED <<applied, modelSeq, published>>
    BY <1>10, <1>w DEF ReconcileFails, Worker
  <2> QED
    BY <2>1 DEF Visible
<1>11. CASE Publish
  <2>1. /\ worker.at = "publish" /\ worker'.at = "publish" /\ worker.from <= worker.to
        /\ worker'.from = worker.from + 1 /\ worker'.to = worker.to
        /\ published' = Append(published, worker.from)
        /\ UNCHANGED <<applied, modelSeq>>
    BY <1>11, <1>w DEF Publish, Worker
  <2>2. /\ worker.from \in Nat /\ worker.to \in Nat /\ modelSeq \in Nat
        /\ Len(published) \in Nat /\ Len(published') = Len(published) + 1
        /\ \A i \in 1..Len(published) : published'[i] = published[i] /\ published[i] \in Nat
        /\ published'[Len(published) + 1] = worker.from
    BY <2>1, Numbers
  <2>3. /\ worker.from .. worker.to \subseteq applied
        /\ worker.to <= modelSeq
        /\ \A i \in 1..Len(published) : published[i] < worker.from
        /\ \A i \in 1..Len(published) :
              /\ published[i] \in applied
              /\ published[i] <= modelSeq
              /\ \A j \in i + 1 .. Len(published) : published[i] < published[j]
    BY <2>1 DEF Visible
  <2>4. ASSUME NEW i \in 1..Len(published')
        PROVE  /\ published'[i] \in applied
               /\ published'[i] <= modelSeq
               /\ published'[i] < worker.from + 1
               /\ \A j \in i + 1 .. Len(published') : published'[i] < published'[j]
    <3>1. CASE i \in 1..Len(published)
      BY <2>2, <2>3, <3>1, <2>1
    <3>2. CASE i = Len(published) + 1
      BY <2>1, <2>2, <2>3, <3>2
    <3> QED
      BY <2>2, <3>1, <3>2
  <2>5. worker.from + 1 .. worker.to \subseteq applied
    BY <2>2, <2>3
  <2> QED
    BY <2>1, <2>3, <2>4, <2>5 DEF Visible
<1> QED
  BY <1>2, <1>3, <1>4, <1>5, <1>6, <1>7, <1>8, <1>9, <1>10, <1>11 DEF Next, ProcessEnvelope

(* Every step of a process whose reconciliations worked keeps CaughtUp.    *)
LEMMA CaughtUpPreserved ==
    ASSUME IInv, Heads, Serving, Visible, CaughtUp, Next, worker.at # "down", worker'.at # "down",
           ~warned'
    PROVE  CaughtUp'
<1> USE DEF durable, clients, memory
<1>w. worker \in Worker
  BY Numbers
<1>n. /\ Len(log) \in Nat /\ modelSeq \in Nat /\ loadedSeq \in Nat /\ modelSeq <= Len(log)
      /\ Len(published) \in Nat /\ Len(worker.plan) \in Nat /\ ReadLimit \in Nat
  BY Numbers
<1>o. InOrder /\ (worker.at \in SettledPhases => Settled)
  BY DEF CaughtUp
<1>1. ASSUME InOrder', Settled', worker'.at \in SettledPhases
      PROVE  CaughtUp'
  BY <1>1 DEF CaughtUp, SettledPhases
<1>2. ASSUME UNCHANGED <<log, applied, modelSeq, loadedSeq, published>>,
             worker.at \in SettledPhases, worker'.at \in SettledPhases \cup {"reconcile"}
      PROVE  CaughtUp'
  <2>1. Settled' /\ InOrder'
    BY <1>o, <1>2 DEF Settled, InOrder, PublishedTo
  <2>2. CASE worker'.at \in SettledPhases
    BY <1>1, <2>1, <2>2
  <2>3. CASE worker'.at = "reconcile"
    BY <1>n, <1>2, <2>1, <2>3 DEF CaughtUp, Settled, SettledPhases
  <2> QED
    BY <1>2, <2>2, <2>3
<1>3. ASSUME NEW id \in CommandIds, NEW agg \in Aggregates, NEW kind \in Kinds, Dispatch(id, agg, kind)
      PROVE  CaughtUp'
  BY <1>3 DEF Dispatch, CaughtUp, InOrder, Settled, PublishedTo
<1>4. CASE Take
  <2>1. worker.at = "idle" /\ worker'.at = "lookup"
    BY <1>4, DataFacts DEF Take, Worker
  <2> QED
    BY <1>2, <1>4, <2>1 DEF Take, SettledPhases
<1>5. CASE LookupReceipt \/ QueryFails \/ Guard \/ DecideReject \/ CommitNothing \/ TransactionFails
           \/ RecordRejection \/ RecordRejectionFails \/ Reply
  BY <1>2, <1>5, QuietSteps DEF SettledPhases
<1>6. CASE Decide
  <2>1. worker.at = "decide" /\ worker'.at = "commit"
    BY <1>6, <1>w DEF Decide, Worker
  <2> QED
    BY <1>2, <1>6, <2>1 DEF Decide, SettledPhases
<1>7. CASE Commit \/ CommitReportsFailure
  <2>1. /\ worker.at = "commit" /\ Len(log') = Len(log) + Len(worker.plan)
        /\ UNCHANGED <<applied, modelSeq, loadedSeq, published>>
        /\ \/ worker'.at = "advance" /\ worker'.plan = worker.plan
           \/ worker'.at = "reconcile"
    BY <1>7, TransactionSteps
  <2>2. applied' = 1..modelSeq' /\ PublishedTo(modelSeq)' /\ InOrder' /\ modelSeq = Len(log)
    BY <1>o, <2>1 DEF Settled, SettledPhases, PublishedTo, InOrder
  <2>3. Len(worker.plan) <= ReadLimit
    BY <2>1, Numbers DEF Serving
  <2>4. CASE worker'.at = "advance"
    BY <2>1, <2>2, <2>4 DEF CaughtUp, InOrder, SettledPhases
  <2>5. CASE worker'.at = "reconcile"
    <3>1. Len(log') <= modelSeq' + ReadLimit
      BY <1>n, <2>1, <2>2, <2>3
    <3> QED
      BY <2>2, <2>5, <3>1 DEF CaughtUp, InOrder, SettledPhases
  <2> QED
    BY <2>1, <2>4, <2>5
<1>8. CASE AdvanceReadModel
  <2> DEFINE first == Len(log) - Len(worker.plan) + 1
  <2>1. /\ worker.at = "advance" /\ worker'.at = "publish" /\ worker'.from = first /\ worker'.to = Len(log)
        /\ applied' = applied \cup (first .. Len(log)) /\ modelSeq' = Len(log)
        /\ UNCHANGED <<log, loadedSeq, published>>
    BY <1>8, <1>w DEF AdvanceReadModel, Worker
  <2>2. applied = 1..modelSeq /\ modelSeq + Len(worker.plan) = Len(log) /\ PublishedTo(modelSeq)
    BY <2>1 DEF CaughtUp
  <2>3. first = modelSeq + 1
    <3>1. \A m, k, n \in Nat : m + k = n => n - k + 1 = m + 1
      OBVIOUS
    <3> QED
      BY <1>n, <2>2, <3>1, Zenon
  <2> HIDE DEF first
  <2>4. applied' = 1..Len(log') /\ worker'.from <= worker'.to + 1 /\ PublishedTo(worker.from - 1)'
    BY <1>n, <2>1, <2>2, <2>3 DEF PublishedTo
  <2> QED
    BY <1>o, <2>1, <2>4 DEF CaughtUp, InOrder, SettledPhases
<1>9. CASE Reconcile
  <2>1. /\ worker.at = "reconcile" /\ worker.start = modelSeq
        /\ worker'.at = "publish" /\ worker'.from = modelSeq + 1 /\ worker'.to = ReadFromSequence(modelSeq)
        /\ applied' = applied \cup (modelSeq + 1 .. ReadFromSequence(modelSeq))
        /\ modelSeq' = IF ReadFromSequence(modelSeq) > modelSeq THEN ReadFromSequence(modelSeq) ELSE modelSeq
        /\ UNCHANGED <<log, loadedSeq, published>>
    BY <1>9, <1>w DEF Reconcile, Worker, Serving
  <2>2. applied = 1..modelSeq /\ Len(log) <= modelSeq + ReadLimit /\ PublishedTo(modelSeq)
    BY <2>1 DEF CaughtUp
  <2>3. ReadFromSequence(modelSeq) = Len(log)
    BY <1>n, <2>2 DEF ReadFromSequence
  <2>4. /\ applied' = 1..Len(log') /\ modelSeq' = Len(log') /\ worker'.to = Len(log')
        /\ worker'.from <= worker'.to + 1 /\ PublishedTo(worker.from - 1)'
    BY <1>n, <2>1, <2>2, <2>3 DEF PublishedTo
  <2> QED
    BY <1>o, <2>1, <2>4 DEF CaughtUp, InOrder, SettledPhases
<1>10. CASE Publish
  <2>1. /\ worker.at = "publish" /\ worker'.at = "publish" /\ worker.from <= worker.to
        /\ worker'.from = worker.from + 1 /\ worker'.to = worker.to
        /\ published' = Append(published, worker.from)
        /\ UNCHANGED <<log, applied, modelSeq, loadedSeq>>
    BY <1>10, <1>w DEF Publish, Worker
  <2>2. /\ worker.from \in Nat /\ worker.to \in Nat
        /\ Len(published') = Len(published) + 1
        /\ \A i \in 1..Len(published) : published'[i] = published[i]
        /\ published'[Len(published) + 1] = worker.from
    BY <2>1, Numbers
  <2>3. /\ applied = 1..Len(log) /\ modelSeq = Len(log) /\ worker.to = Len(log)
        /\ loadedSeq + Len(published) = worker.from - 1
    BY <2>1 DEF CaughtUp, PublishedTo
  <2>4. ASSUME NEW i \in 1..Len(published')
        PROVE  published'[i] = loadedSeq' + i
    <3>1. CASE i \in 1..Len(published)
      BY <1>o, <2>1, <2>2, <3>1 DEF InOrder
    <3>2. CASE i = Len(published) + 1
      BY <1>n, <2>1, <2>2, <2>3, <3>2
    <3> QED
      BY <1>n, <2>2, <3>1, <3>2
  <2>5. worker'.from <= worker'.to + 1 /\ PublishedTo(worker.from - 1)'
    BY <1>n, <2>1, <2>2, <2>3 DEF PublishedTo
  <2> QED
    BY <2>1, <2>3, <2>4, <2>5 DEF CaughtUp, InOrder, SettledPhases
<1>11. CASE PublishDone
  <2>1. /\ worker.at = "publish" /\ worker'.at \in {"receipt", "reply"} /\ worker.from > worker.to
        /\ UNCHANGED <<log, applied, modelSeq, loadedSeq, published>>
    BY <1>11, <1>w DEF PublishDone, Worker
  <2>2. Settled'
    BY <1>n, <2>1, Numbers DEF CaughtUp, Settled, PublishedTo
  <2> QED
    BY <1>1, <1>o, <2>1, <2>2 DEF InOrder, SettledPhases
<1>12. ~ReconcileFails
  BY DEF ReconcileFails
<1> QED
  BY <1>3, <1>4, <1>5, <1>6, <1>7, <1>8, <1>9, <1>10, <1>11, <1>12
     DEF Next, ProcessEnvelope, Start, Crash, Down

-----------------------------------------------------------------------------
(* A daemon not yet started has published nothing.                         *)
LEMMA InitEstablishesMInv == Init => MInv
  BY DEF Init, MInv, Serving, Visible, CaughtUp, InOrder, SettledPhases, Down

(* Every step keeps MInv.                                                  *)
LEMMA MInvPreserved == IInv /\ RInv /\ MInv /\ [Next]_vars => MInv'
<1> SUFFICES ASSUME IInv, RInv, MInv, [Next]_vars PROVE MInv'
  OBVIOUS
<1>1. CASE UNCHANGED vars
  BY <1>1 DEF MInv, Serving, Visible, CaughtUp, InOrder, Settled, PublishedTo, vars
<1>2. CASE Next
  <2>1. Heads /\ Serving /\ Visible
    BY DEF RInv, MInv
  <2>2. Serving' /\ Visible'
    BY <1>2, <2>1, ServingPreserved, VisiblePreserved
  <2>3. ASSUME ~warned' PROVE CaughtUp'
    <3>1. CASE Start
      <4>1. /\ published' = << >> /\ worker'.at = "idle" /\ log' = log /\ Len(log) \in Nat
            /\ applied' = 1..Len(log) /\ modelSeq' = Len(log) /\ loadedSeq' = Len(log)
        BY <2>1, <3>1, Numbers DEF Start, Visible, Idle, Down
      <4> QED
        BY <4>1 DEF CaughtUp, InOrder, Settled, PublishedTo
    <3>2. CASE Crash
      <4>1. published' = << >> /\ worker'.at = "down"
        BY <3>2 DEF Crash, Down
      <4> QED
        BY <4>1 DEF CaughtUp, InOrder, SettledPhases
    <3>3. CASE ~Start /\ ~Crash
      <4>1. worker.at # "down"
        BY <1>2, <3>3
           DEF Next, ProcessEnvelope, Dispatch, Take, LookupReceipt, QueryFails, Guard, DecideReject, Decide,
               Commit, CommitNothing, TransactionFails, CommitReportsFailure, AdvanceReadModel, Reconcile,
               ReconcileFails, Publish, PublishDone, RecordRejection, RecordRejectionFails, Reply
      <4>2. worker'.at # "down"
        BY <1>2, <3>3, <4>1, DataFacts, ServesOne
           DEF Next, Dispatch, Take, Reply, Busy, Idle, Worker
      <4>3. ~warned
        BY <1>2, <2>3, <3>3
           DEF Next, ProcessEnvelope, Dispatch, Take, LookupReceipt, QueryFails, Guard, DecideReject, Decide,
               Commit, CommitNothing, TransactionFails, CommitReportsFailure, AdvanceReadModel, Reconcile,
               ReconcileFails, Publish, PublishDone, RecordRejection, RecordRejectionFails, Reply
      <4> QED
        BY <1>2, <2>1, <2>3, <4>1, <4>2, <4>3, CaughtUpPreserved DEF MInv
    <3> QED
      BY <3>1, <3>2, <3>3
  <2> QED
    BY <2>2, <2>3 DEF MInv
<1> QED
  BY <1>1, <1>2

(* The strengthened invariant holds of every reachable state.              *)
THEOREM ReadModelRelationHolds == Spec => [](IInv /\ RInv /\ MInv)
  BY InitEstablishesMInv, MInvPreserved, RelationHolds, NextPreserves, RInvPreserved, PTL DEF Spec

(* The next command is decided on a read model that reflects every         *)
(* committed event, unless a reconciliation of this process failed.        *)
THEOREM ReadModelIsTheLog == Spec => []ReadModelCaughtUp
<1>1. MInv => ReadModelCaughtUp
  BY DEF MInv, CaughtUp, SettledPhases, Settled, ReadModelCaughtUp
<1> QED
  BY <1>1, ReadModelRelationHolds, PTL

(* Subscribers get every event committed since the read model was loaded,  *)
(* once and in order, a batch whose commit reported a failure included.    *)
THEOREM NoEventUnpublished == Spec => []PublishedGapFree
<1>1. MInv => PublishedGapFree
  BY DEF MInv, CaughtUp, InOrder, SettledPhases, Settled, PublishedTo, PublishedGapFree
<1> QED
  BY <1>1, ReadModelRelationHolds, PTL

(* What a subscriber is told of is in the projections and the read model   *)
(* already, and never out of order, even after a failed reconciliation.    *)
THEOREM PublishedCanBeRead == Spec => []PublishedIsVisible
<1>1. IInv /\ RInv /\ MInv => PublishedIsVisible
  <2>1. ASSUME IInv, RInv, MInv PROVE PublishedIsVisible
    <3>1. /\ projected = Len(log) /\ modelSeq <= Len(log) /\ Len(log) \in Nat /\ modelSeq \in Nat
          /\ \A i \in 1..Len(published) : published[i] \in Nat
      BY <2>1, Numbers DEF RInv, Heads
    <3> QED
      BY <2>1, <3>1 DEF MInv, Visible, PublishedIsVisible
  <2> QED
    BY <2>1
<1> QED
  BY <1>1, ReadModelRelationHolds, PTL
=============================================================================
