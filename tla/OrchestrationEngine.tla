------------------------ MODULE OrchestrationEngine ------------------------
(***************************************************************************)
(* The command side of the daemon:                                         *)
(* apps/server/src/orchestration/Layers/OrchestrationEngine.ts.            *)
(*                                                                         *)
(* Any fiber may dispatch a command.  One worker fiber takes envelopes     *)
(* from an unbounded queue and runs processEnvelope on each: look up the   *)
(* receipt of the command id, run the guards that read the event store,    *)
(* decide, commit events + projections + receipt in one transaction,       *)
(* advance the in-memory read model, publish the events, settle the        *)
(* caller's Deferred.  Every yield* between two of those parts is a point  *)
(* where other fibers run and where the process may die, so each part is   *)
(* an action.                                                              *)
(*                                                                         *)
(* What the decider returns is left open here (any rejection, any list of  *)
(* at most MaxPlan events whose last one is on the command's aggregate):   *)
(* ThreadLifecycle models the decider.  An event is its aggregate and      *)
(* whether it is a "created" event, the only type the engine looks at.     *)
(***************************************************************************)
EXTENDS Integers, Sequences, FiniteSets

CONSTANTS
    CommandIds,    \* command ids clients use, possibly more than once
    Aggregates,    \* projects and threads
    MaxDispatch,   \* bound: dispatches in a behaviour
    MaxPlan,       \* bound: events one command may produce
    MaxCrashes,    \* bound: process deaths in a behaviour
    ReadLimit      \* DEFAULT_READ_FROM_SEQUENCE_LIMIT of the event store

ASSUME BoundsAssumption ==
    /\ MaxDispatch \in Nat
    /\ MaxPlan \in Nat
    /\ MaxCrashes \in Nat
    /\ ReadLimit \in Nat

(***************************************************************************)
(* reconcileReadModelAfterDispatchFailure reads the events of the failed   *)
(* command with the store's default limit: a command that produces more    *)
(* events than that is outside this model.                                 *)
(***************************************************************************)
ASSUME ReadLimitAssumption == MaxPlan <= ReadLimit

VARIABLES
    log,        \* orchestration_events; an event's sequence is its index
    receipts,   \* orchestration_command_receipts
    projected,  \* the cursor all runtime projectors share
    sent,       \* every command ever dispatched; a ticket is an index in it
    answers,    \* what each ticket's Deferred was settled with
    queue,      \* commandQueue: tickets
    worker,     \* the worker fiber
    applied,    \* the events commandReadModel reflects
    modelSeq,   \* commandReadModel.snapshotSequence
    loadedSeq,  \* modelSeq when this process loaded its read model
    published,  \* the sequences put on eventPubSub by this process
    warned,     \* a reconciliation of this process failed and was only logged
    crashes     \* process deaths so far

durable == <<log, receipts, projected>>
clients == <<sent, answers>>
memory  == <<applied, modelSeq, loadedSeq>>
vars    == <<log, receipts, projected, sent, answers, queue, worker, applied,
             modelSeq, loadedSeq, published, warned, crashes>>

-----------------------------------------------------------------------------
(***************************************************************************)
(* Data.                                                                   *)
(***************************************************************************)
Kinds      == {"plain", "auto-settle", "pull-request.sync"}
EventTypes == {"created", "changed"}

Command == [id : CommandIds, agg : Aggregates, kind : Kinds, snap : Nat]
Planned == [agg : Aggregates, type : EventTypes]
Event   == [cmd : CommandIds, agg : Aggregates, type : EventTypes]

NoReceipt == [status |-> "none"]
Receipt   == [status : {"accepted", "rejected"}, agg : Aggregates, seq : Nat]

Failures == {"rejected", "previously-rejected", "id-conflict", "failed"}
Answer   == [is : {"accepted"}, seq : Nat] \cup [is : Failures \cup {"waiting", "lost"}]

Is(a)       == [is |-> a]
Accepted(n) == [is |-> "accepted", seq |-> n]

Phases == {"down", "idle", "lookup", "guard", "decide", "commit", "advance",
           "publish", "reconcile", "receipt", "reply"}

NoPlan == << >>

(***************************************************************************)
(* The worker: where it is, the ticket it holds, the dispatchStartSequence *)
(* it captured, the decided events, the sequences still to be published    *)
(* and the outcome the caller will get.                                    *)
(***************************************************************************)
Worker == [at : Phases, ticket : Nat, start : Nat, plan : Seq(Planned),
           from : Nat, to : Nat, result : Answer]

Down == [at |-> "down", ticket |-> 0, start |-> 0, plan |-> NoPlan,
         from |-> 1, to |-> 0, result |-> Is("waiting")]
Idle == [Down EXCEPT !.at = "idle"]

(***************************************************************************)
(* The lists of events the decider may return for a command.  The last     *)
(* event is on the command's own aggregate (project.delete puts the        *)
(* thread.deleted events of other aggregates first); the empty list is     *)
(* answered by the engine itself.                                          *)
(***************************************************************************)
Plans(c) ==
    {NoPlan} \cup
    {p \in UNION {[1..n -> Planned] : n \in 1..MaxPlan} :
        /\ p[Len(p)].agg = c.agg
        /\ c.kind # "plain" => \A i \in DOMAIN p : p[i] = [agg |-> c.agg, type |-> "changed"]}

(***************************************************************************)
(* hasEventAfter of the event store.                                       *)
(***************************************************************************)
HasEventAfter(agg, seq, types) ==
    \E s \in seq + 1 .. Len(log) : log[s].agg = agg /\ log[s].type \in types

(***************************************************************************)
(* The last sequence readFromSequence(seq) returns with its default limit. *)
(***************************************************************************)
ReadFromSequence(seq) == IF Len(log) < seq + ReadLimit THEN Len(log) ELSE seq + ReadLimit

Stamped(c, plan) ==
    [i \in 1..Len(plan) |-> [cmd |-> c.id, agg |-> plan[i].agg, type |-> plan[i].type]]

Holding == sent[worker.ticket]

-----------------------------------------------------------------------------
Init ==
    /\ log = << >>
    /\ receipts = [c \in CommandIds |-> NoReceipt]
    /\ projected = 0
    /\ sent = << >>
    /\ answers = << >>
    /\ queue = << >>
    /\ worker = Down
    /\ applied = {}
    /\ modelSeq = 0
    /\ loadedSeq = 0
    /\ published = << >>
    /\ warned = FALSE
    /\ crashes = 0

(***************************************************************************)
(* Layer construction: the pipeline catches the projectors up, the command *)
(* read model is read from the projections, the worker fiber is forked.    *)
(***************************************************************************)
Start ==
    /\ worker.at = "down"
    /\ projected' = Len(log)
    /\ applied' = 1..Len(log)
    /\ modelSeq' = Len(log)
    /\ loadedSeq' = Len(log)
    /\ worker' = Idle
    /\ UNCHANGED <<log, receipts, clients, queue, published, warned, crashes>>

(***************************************************************************)
(* dispatch: make a Deferred, offer the envelope, await.  A settlement or  *)
(* pull-request reactor has read a snapshot at the projectors' cursor; the *)
(* command carries that sequence, which is stale by the time it is handled.*)
(* A snapshot read earlier than the dispatch is a dispatch of that moment  *)
(* with a slower queue.                                                    *)
(***************************************************************************)
Dispatch(id, agg, kind) ==
    /\ worker.at # "down"
    /\ Len(sent) < MaxDispatch
    /\ sent' = Append(sent, [id |-> id, agg |-> agg, kind |-> kind,
                             snap |-> IF kind = "plain" THEN 0 ELSE projected])
    /\ answers' = Append(answers, Is("waiting"))
    /\ queue' = Append(queue, Len(sent) + 1)
    /\ UNCHANGED <<durable, worker, memory, published, warned, crashes>>

Take ==
    /\ worker.at = "idle"
    /\ queue # << >>
    /\ worker' = [Idle EXCEPT !.at = "lookup", !.ticket = Head(queue), !.start = modelSeq]
    /\ queue' = Tail(queue)
    /\ UNCHANGED <<durable, clients, memory, published, warned, crashes>>

(* Mutants of LookupReceipt: accepted receipts are not replayed; the       *)
(* aggregate of the receipt is not compared.                               *)
LookupOnlyRejections ==
    LET r == receipts[Holding.id]
    IN  /\ worker.at = "lookup"
        /\ worker' = IF r.status = "rejected"
                     THEN [worker EXCEPT !.at = "reply", !.result = Is("previously-rejected")]
                     ELSE [worker EXCEPT !.at = "guard"]
        /\ UNCHANGED <<durable, clients, queue, memory, published, warned, crashes>>

LookupIgnoresAggregate ==
    LET r == receipts[Holding.id]
    IN  /\ worker.at = "lookup"
        /\ worker' = CASE r.status = "none"     -> [worker EXCEPT !.at = "guard"]
                       [] r.status = "accepted" -> [worker EXCEPT !.at = "reply", !.result = Accepted(r.seq)]
                       [] OTHER -> [worker EXCEPT !.at = "reply", !.result = Is("previously-rejected")]
        /\ UNCHANGED <<durable, clients, queue, memory, published, warned, crashes>>

(***************************************************************************)
(* The receipt lookup: a receipt of another aggregate is an id conflict, a *)
(* receipt of this one is replayed, no receipt lets the command proceed.   *)
(***************************************************************************)
LookupReceipt ==
    LET c == Holding
        r == receipts[c.id]
    IN  /\ worker.at = "lookup"
        /\ worker' =
              CASE r = NoReceipt           -> [worker EXCEPT !.at = "guard"]
                [] r # NoReceipt /\ r.agg # c.agg
                                           -> [worker EXCEPT !.at = "reply", !.result = Is("id-conflict")]
                [] r # NoReceipt /\ r.agg = c.agg /\ r.status = "accepted"
                                           -> [worker EXCEPT !.at = "reply", !.result = Accepted(r.seq)]
                [] OTHER                   -> [worker EXCEPT !.at = "reply", !.result = Is("previously-rejected")]
        /\ UNCHANGED <<durable, clients, queue, memory, published, warned, crashes>>

(***************************************************************************)
(* A query of the receipt, the guards or the projections fails.            *)
(***************************************************************************)
QueryFails ==
    /\ worker.at \in {"lookup", "guard"}
    /\ worker' = [worker EXCEPT !.at = "reconcile", !.result = Is("failed")]
    /\ UNCHANGED <<durable, clients, queue, memory, published, warned, crashes>>

(* Mutant of GuardRefuses: both kinds are refused for recreation only.     *)
GuardSeesOnlyCreation(c) ==
    c.kind # "plain" /\ HasEventAfter(c.agg, c.snap, {"created"})

(***************************************************************************)
(* The checks of the event store made before deciding: an automatic        *)
(* settlement is refused once its thread has any event after the snapshot  *)
(* it was decided on, a pull-request sync once the thread was recreated.   *)
(***************************************************************************)
GuardRefuses(c) ==
    \/ c.kind = "auto-settle" /\ HasEventAfter(c.agg, c.snap, EventTypes)
    \/ c.kind = "pull-request.sync" /\ HasEventAfter(c.agg, c.snap, {"created"})

Guard ==
    /\ worker.at = "guard"
    /\ worker' = IF GuardRefuses(Holding)
                 THEN [worker EXCEPT !.at = "reconcile", !.result = Is("rejected")]
                 ELSE [worker EXCEPT !.at = "decide"]
    /\ UNCHANGED <<durable, clients, queue, memory, published, warned, crashes>>

(***************************************************************************)
(* decideOrchestrationCommand rejects (live background work included) or   *)
(* returns the events.                                                     *)
(***************************************************************************)
DecideReject ==
    /\ worker.at = "decide"
    /\ worker' = [worker EXCEPT !.at = "reconcile", !.result = Is("rejected")]
    /\ UNCHANGED <<durable, clients, queue, memory, published, warned, crashes>>

Decide ==
    /\ worker.at = "decide"
    /\ \E plan \in Plans(Holding) :
          worker' = [worker EXCEPT !.at = "commit", !.plan = plan]
    /\ UNCHANGED <<durable, clients, queue, memory, published, warned, crashes>>

(* Mutant of TransactionWrites: the receipt is left out of it.             *)
TransactionWithoutReceipt ==
    /\ log' = log \o Stamped(Holding, worker.plan)
    /\ projected' = Len(log) + Len(worker.plan)
    /\ UNCHANGED receipts

(***************************************************************************)
(* What the transaction writes: every event with its projections and the   *)
(* projectors' cursors, then the receipt.                                  *)
(***************************************************************************)
TransactionWrites ==
    LET c == Holding
        n == Len(log) + Len(worker.plan)
    IN  /\ log' = log \o Stamped(c, worker.plan)
        /\ projected' = n
        /\ receipts' = [receipts EXCEPT ![c.id] =
                           [status |-> "accepted", agg |-> worker.plan[Len(worker.plan)].agg, seq |-> n]]

Commit ==
    /\ worker.at = "commit"
    /\ worker.plan # NoPlan
    /\ TransactionWrites
    /\ worker' = [worker EXCEPT !.at = "advance"]
    /\ UNCHANGED <<clients, queue, memory, published, warned, crashes>>

(***************************************************************************)
(* "Command produced no events": a rejection raised inside the transaction.*)
(***************************************************************************)
CommitNothing ==
    /\ worker.at = "commit"
    /\ worker.plan = NoPlan
    /\ worker' = [worker EXCEPT !.at = "reconcile", !.result = Is("rejected")]
    /\ UNCHANGED <<durable, clients, queue, memory, published, warned, crashes>>

(***************************************************************************)
(* An append, a projector or the receipt fails: everything rolls back, the *)
(* AUTOINCREMENT counter too.                                              *)
(***************************************************************************)
TransactionFails ==
    /\ worker.at = "commit"
    /\ worker' = [worker EXCEPT !.at = "reconcile", !.result = Is("failed")]
    /\ UNCHANGED <<durable, clients, queue, memory, published, warned, crashes>>

(***************************************************************************)
(* COMMIT reports an error although its writes are durable.                *)
(***************************************************************************)
CommitReportsFailure ==
    /\ worker.at = "commit"
    /\ worker.plan # NoPlan
    /\ TransactionWrites
    /\ worker' = [worker EXCEPT !.at = "reconcile", !.result = Is("failed")]
    /\ UNCHANGED <<clients, queue, memory, published, warned, crashes>>

(* Mutant of AdvanceReadModel: only the last event of the batch is applied.*)
AdvanceByLastEvent ==
    /\ worker.at = "advance"
    /\ applied' = applied \cup {Len(log)}
    /\ modelSeq' = Len(log)
    /\ worker' = [worker EXCEPT !.at = "publish", !.from = Len(log) - Len(worker.plan) + 1,
                                !.to = Len(log), !.result = Accepted(Len(log))]
    /\ UNCHANGED <<durable, clients, queue, loadedSeq, published, warned, crashes>>

(***************************************************************************)
(* commandReadModel = nextCommandReadModel; the attachment cleanups run;   *)
(* the committed events are next on the PubSub.                            *)
(***************************************************************************)
AdvanceReadModel ==
    LET first == Len(log) - Len(worker.plan) + 1
    IN  /\ worker.at = "advance"
        /\ applied' = applied \cup (first .. Len(log))
        /\ modelSeq' = Len(log)
        /\ worker' = [worker EXCEPT !.at = "publish", !.from = first, !.to = Len(log),
                                    !.result = Accepted(Len(log))]
        /\ UNCHANGED <<durable, clients, queue, loadedSeq, published, warned, crashes>>

(* Mutants of Reconcile: the events are published and not projected; the   *)
(* read starts one event too early.                                        *)
ReconcilePublishesOnly ==
    /\ worker.at = "reconcile"
    /\ worker' = [worker EXCEPT !.at = "publish", !.from = worker.start + 1, !.to = Len(log)]
    /\ UNCHANGED <<durable, clients, queue, memory, published, warned, crashes>>

ReconcileFromStart ==
    /\ worker.at = "reconcile"
    /\ applied' = applied \cup (worker.start .. Len(log))
    /\ modelSeq' = Len(log)
    /\ worker' = [worker EXCEPT !.at = "publish", !.from = worker.start, !.to = Len(log)]
    /\ UNCHANGED <<durable, clients, queue, loadedSeq, published, warned, crashes>>

(***************************************************************************)
(* reconcileReadModelAfterDispatchFailure: the events persisted since      *)
(* processEnvelope began are projected onto the read model and published.  *)
(***************************************************************************)
Reconcile ==
    LET last == ReadFromSequence(worker.start)
    IN  /\ worker.at = "reconcile"
        /\ applied' = applied \cup (worker.start + 1 .. last)
        /\ modelSeq' = IF last > worker.start THEN last ELSE modelSeq
        /\ worker' = [worker EXCEPT !.at = "publish", !.from = worker.start + 1, !.to = last]
        /\ UNCHANGED <<durable, clients, queue, loadedSeq, published, warned, crashes>>

ReconcileFails ==
    /\ worker.at = "reconcile"
    /\ warned' = TRUE
    /\ worker' = [worker EXCEPT !.at = "publish", !.from = 1, !.to = 0]
    /\ UNCHANGED <<durable, clients, queue, memory, published, crashes>>

Publish ==
    /\ worker.at = "publish"
    /\ worker.from <= worker.to
    /\ published' = Append(published, worker.from)
    /\ worker' = [worker EXCEPT !.from = @ + 1]
    /\ UNCHANGED <<durable, clients, queue, memory, warned, crashes>>

PublishDone ==
    /\ worker.at = "publish"
    /\ worker.from > worker.to
    /\ worker' = [worker EXCEPT !.at = IF worker.result = Is("rejected") THEN "receipt" ELSE "reply"]
    /\ UNCHANGED <<durable, clients, queue, memory, published, warned, crashes>>

(***************************************************************************)
(* The rejected receipt; a failure to write it is swallowed.               *)
(***************************************************************************)
RecordRejection ==
    /\ worker.at = "receipt"
    /\ receipts' = [receipts EXCEPT ![Holding.id] =
                       [status |-> "rejected", agg |-> Holding.agg, seq |-> modelSeq]]
    /\ worker' = [worker EXCEPT !.at = "reply"]
    /\ UNCHANGED <<log, projected, clients, queue, memory, published, warned, crashes>>

(* Mutant of RecordRejectionFails: the failure skips the reply.            *)
RejectionFailureEscapes ==
    /\ worker.at = "receipt"
    /\ worker' = Idle
    /\ UNCHANGED <<durable, clients, queue, memory, published, warned, crashes>>

RecordRejectionFails ==
    /\ worker.at = "receipt"
    /\ worker' = [worker EXCEPT !.at = "reply"]
    /\ UNCHANGED <<durable, clients, queue, memory, published, warned, crashes>>

(***************************************************************************)
(* Deferred.succeed or Deferred.fail.                                      *)
(***************************************************************************)
Reply ==
    /\ worker.at = "reply"
    /\ answers' = [answers EXCEPT ![worker.ticket] = worker.result]
    /\ worker' = Idle
    /\ UNCHANGED <<durable, sent, queue, memory, published, warned, crashes>>

(***************************************************************************)
(* The process dies: queue, worker, read model and PubSub are gone, every  *)
(* caller still waiting loses its connection.                              *)
(***************************************************************************)
Crash ==
    /\ worker.at # "down"
    /\ crashes < MaxCrashes
    /\ crashes' = crashes + 1
    /\ answers' = [t \in DOMAIN answers |->
                      IF answers[t] = Is("waiting") THEN Is("lost") ELSE answers[t]]
    /\ queue' = << >>
    /\ worker' = Down
    /\ applied' = {}
    /\ modelSeq' = 0
    /\ loadedSeq' = 0
    /\ published' = << >>
    /\ warned' = FALSE
    /\ UNCHANGED <<durable, sent>>

ProcessEnvelope ==
    \/ LookupReceipt
    \/ QueryFails
    \/ Guard
    \/ DecideReject
    \/ Decide
    \/ Commit
    \/ CommitNothing
    \/ TransactionFails
    \/ CommitReportsFailure
    \/ AdvanceReadModel
    \/ Reconcile
    \/ ReconcileFails
    \/ Publish
    \/ PublishDone
    \/ RecordRejection
    \/ RecordRejectionFails
    \/ Reply

Next ==
    \/ Start
    \/ \E id \in CommandIds, agg \in Aggregates, kind \in Kinds : Dispatch(id, agg, kind)
    \/ Take
    \/ ProcessEnvelope
    \/ Crash

Spec == Init /\ [][Next]_vars

(***************************************************************************)
(* The worker fiber is scheduled, and every database call it awaits        *)
(* returns, with success or with an error.                                 *)
(***************************************************************************)
Fairness == WF_vars(Take) /\ WF_vars(ProcessEnvelope)

FairSpec == Spec /\ Fairness

-----------------------------------------------------------------------------
(***************************************************************************)
(* Type correctness.                                                       *)
(***************************************************************************)
TypeOK ==
    /\ log \in Seq(Event)
    /\ receipts \in [CommandIds -> Receipt \cup {NoReceipt}]
    /\ projected \in Nat
    /\ sent \in Seq(Command)
    /\ answers \in Seq(Answer)
    /\ Len(answers) = Len(sent)
    /\ queue \in Seq(1..Len(sent))
    /\ worker \in Worker
    /\ worker.at \notin {"down", "idle"} => worker.ticket \in 1..Len(sent)
    /\ applied \subseteq Nat
    /\ modelSeq \in Nat
    /\ loadedSeq \in Nat
    /\ published \in Seq(Nat)
    /\ warned \in BOOLEAN
    /\ crashes \in Nat

EventsOf(id) == {s \in 1..Len(log) : log[s].cmd = id}

(***************************************************************************)
(* A command id takes effect at most once and as a whole, whatever is      *)
(* retried, fails or crashes: an accepted receipt stands for one           *)
(* contiguous run of events that ends at its resultSequence on its         *)
(* aggregate, and an id without one has no event at all.                   *)
(***************************************************************************)
AppliedOnce ==
    \A id \in CommandIds :
        IF receipts[id].status = "accepted"
        THEN /\ receipts[id].seq \in EventsOf(id)
             /\ log[receipts[id].seq].agg = receipts[id].agg
             /\ \A s \in EventsOf(id) : /\ s <= receipts[id].seq
                                       /\ s .. receipts[id].seq \subseteq EventsOf(id)
        ELSE EventsOf(id) = {}

(***************************************************************************)
(* Between two commands the read model the next one is decided on reflects *)
(* every committed event, unless this process has logged that it could not *)
(* reconcile after a failed dispatch.                                      *)
(***************************************************************************)
ReadModelCaughtUp ==
    worker.at \in {"idle", "lookup", "guard", "decide"} /\ ~warned =>
        applied = 1..Len(log) /\ modelSeq = Len(log)

(***************************************************************************)
(* Subscribers of this process see every event committed since it loaded   *)
(* its read model, once and in sequence order, a failing commit that was   *)
(* durable after all included.                                             *)
(***************************************************************************)
PublishedGapFree ==
    ~warned =>
        /\ \A i \in 1..Len(published) : published[i] = loadedSeq + i
        /\ worker.at = "idle" => loadedSeq + Len(published) = Len(log)

(***************************************************************************)
(* A subscriber that reacts to an event by reading finds it: in the        *)
(* projections and in the read model.  This holds, and the order does,     *)
(* even after a reconciliation failed.                                     *)
(***************************************************************************)
PublishedIsVisible ==
    \A i \in 1..Len(published) :
        /\ published[i] \in applied
        /\ published[i] <= projected
        /\ published[i] <= modelSeq
        /\ \A j \in i + 1 .. Len(published) : published[i] < published[j]

(***************************************************************************)
(* A caller told "accepted" with a sequence finds its own command's last   *)
(* event there, on its own aggregate and in the projections, for ever; a   *)
(* caller told its id was rejected before, or was used for another         *)
(* aggregate, has changed nothing there.                                   *)
(***************************************************************************)
AnswersAreTrue ==
    \A t \in 1..Len(sent) :
        LET a == answers[t]
            c == sent[t]
        IN  /\ a.is = "accepted" =>
                  /\ a.seq \in EventsOf(c.id)
                  /\ log[a.seq].agg = c.agg
                  /\ a.seq <= projected
            /\ a.is = "previously-rejected" => EventsOf(c.id) = {}
            /\ a.is = "id-conflict" =>
                  receipts[c.id] # NoReceipt /\ receipts[c.id].agg # c.agg

(***************************************************************************)
(* No receipt is ever revised, although both writes are upserts: what      *)
(* getOperationResult has answered once it answers always.                 *)
(***************************************************************************)
ReceiptsArePermanent ==
    [][\A id \in CommandIds : receipts[id] # NoReceipt => receipts'[id] = receipts[id]]_vars

(***************************************************************************)
(* An automatic settlement is a compare-and-set on its thread: it commits  *)
(* only if nothing was appended to the thread since the snapshot it was    *)
(* decided on, and a pull-request sync only if the thread was not          *)
(* recreated, although queue, guard and commit are separate steps.         *)
(***************************************************************************)
SnapshotStillCurrent ==
    [][log' # log =>
         /\ Holding.kind = "auto-settle" => ~HasEventAfter(Holding.agg, Holding.snap, EventTypes)
         /\ Holding.kind = "pull-request.sync" => ~HasEventAfter(Holding.agg, Holding.snap, {"created"})]_vars

(***************************************************************************)
(* The engine implements the exactly-once command log it promises.  Log,   *)
(* receipts and answers are the same; queue, worker, read model, PubSub    *)
(* and the process itself are hidden.                                      *)
(***************************************************************************)
Promise == INSTANCE CommandLog
              WITH log <- log, receipts <- receipts, sent <- sent, answers <- answers

ImplementsCommandLog == Promise!Spec

(***************************************************************************)
(* Every dispatch is answered, or lost with the process.                   *)
(***************************************************************************)
EveryDispatchAnswered ==
    \A t \in 1..MaxDispatch :
        (t <= Len(sent)) ~> (t <= Len(sent) /\ answers[t].is # "waiting")

=============================================================================
