# A TLA+ model of the Awen daemon

Awen (the repository `acode`) is a desktop workbench for coding agents: a Tauri
shell and a React client talk to a Node daemon written in TypeScript with
Effect, and the daemon drives provider processes (Codex, Claude, Cursor, Grok,
OpenCode, Antigravity). Everything a user sees about a thread comes out of an
event-sourced core in `apps/server/src/orchestration`. This project models that
core, model-checks it with TLC and proves its main properties with TLAPS.

Paths below are relative to `apps/server/src/` unless they start with
`packages/` or `apps/`.

## The system

| Component | State | Operations | Hard behaviour | Correct when |
|---|---|---|---|---|
| Engine `orchestration/Layers/OrchestrationEngine.ts` | command queue, read model, PubSub | dispatch, processEnvelope, getOperationResult | failure or death between any two steps of a command; retried ids | each id takes effect once; model, stream and answers agree with the log |
| Event store, receipts `persistence/Layers/*` | two SQLite tables | append, read, hasEventAfter; upsert, get | ambiguous commits | log append-only, receipts final |
| Decider `orchestration/decider.ts`, `commandInvariants.ts` | none (reads the model) | one case per command | decides on a model that forgets | no user request is hidden or lost |
| Projector `orchestration/projector.ts` | the in-memory model | one case per event | 500-activity window, empty after restart | agrees with SQL where the decider relies on it |
| Projection pipeline `orchestration/Layers/ProjectionPipeline.ts` | SQL projections, cursors, attachment files | project, bootstrap, clean-up | crash between projectors and between commit and clean-up | cursors equal, files neither lost nor leaked |
| Provider command reactor `orchestration/Layers/ProviderCommandReactor.ts` | a FIFO of intents, the provider's sessions | turn start, stop, replies | acts on events later than they were decided | never undoes what the user did since |
| Runtime ingestion `orchestration/Layers/ProviderRuntimeIngestion.ts` | buffers, turn bookkeeping | provider event to command | late and duplicated events | turns end once |
| Settlement sweep `orchestration/ThreadSettlementReactor.ts`, `ThreadSettlementPolicy.ts` | none | snapshot, lookups, auto-settle | stale snapshots | compare-and-set |
| Workers `packages/shared/src/KeyedCoalescingWorker.ts`, `DrainableWorker.ts` | queue, maps, fiber | enqueue, drain | lost wake-ups, failures | nothing stranded, drain is truthful |
| Thread bootstrap `ws.ts`, `project/WorktreeSetupTracker.ts` | a detached fiber, the tracker's entry, a durable record | fetch, create, fence, checkout, setup, handoff, rollback, cancel | a cancel, a deletion, a failure or a crash at any step | rolled back or started, never both; the answer is true |
| Deletion reactor `orchestration/Layers/ThreadDeletionReactor.ts` | watermark, worker | clean up after a deletion, drainThrough | an id is created again while its clean-up is on the way | never stops a later session |
| Startup `serverRuntimeStartup.ts` | none | reconcile sessions and setups | what the last process left half done | nothing stays "starting" or "running" |
| Attachments `orchestration/Normalizer.ts`, `attachmentStore.ts` | files in a directory | claim, clean up | files and rows change separately | referenced files stay, orphans go |
| Live subscriptions `ws.ts`, `LiveStreamBudget.ts`, `packages/client-runtime/src/state` | per-subscriber buffers, client snapshot | subscribe, replay, resume | overflow, reconnect, gaps | client converges to the log |
| Connections `packages/client-runtime/src/connection` | intent, signal queue, published session and state, retry ladder; the registry | connect, disconnect, retry, wake, attempt, health check | signals consumed at four places by different rules; sockets that die silently | follows the last intent, retries are paced, no session is taken for its predecessor |

`PROJECT.json` lists every part of the repository, these and the ones left
aside (provider protocol adapters, git and host clients, user interface,
telemetry, desktop shell), each with the reason.

How they interact: a client or a reactor dispatches a *command*; the engine's
single worker fiber decides it against the in-memory read model and commits
*events*, SQL projections and a *receipt* in one transaction; it advances the
read model and publishes the events; reactors subscribed to them call providers
and dispatch further commands; subscribers forward them to clients.

## Modules

| Module | Models |
|---|---|
| `OrchestrationEngine` | the engine, the event store and the receipts |
| `CommandLog` | the abstract promise: an exactly-once command log |
| `ThreadLifecycle` | one thread through decider, both projections, reactor and provider |
| `KeyedCoalescingWorker` | the coalescing worker behind terminal history |
| `ThreadBootstrap` | the first message of a thread with a worktree, against cancel, deletion clean-up, session and restart |
| `ThreadSubscription` | one client that shows one thread, and the stream that feeds it |
| `AttachmentCleanup` | the attachment files of one thread, projector replay and removal |
| `ConnectionSupervisor` | the connection of a client to one environment: intent, attempts, sessions, health checks, retries |
| `OrchestrationEngineProofs`, `KeyedCoalescingWorkerProofs`, `ThreadLifecycleProofs`, `ThreadBootstrapProofs`, `ThreadSubscriptionProofs`, `ThreadSubscriptionEvents`, `AttachmentCleanupProofs`, `ConnectionSupervisorProofs` | the theorems |

### OrchestrationEngine

`log` and `receipts` are the tables, `projected` the cursor the runtime
projectors share, `applied` and `modelSeq` the read model (which events it
reflects, its snapshotSequence), `published` what this process put on the
PubSub, `sent` and `answers` the callers and their Deferreds, and `worker` the
fiber. `worker.at` names the `yield*` inside `processEnvelope` at which the fiber
stands; each is a point where other fibers dispatch and where the process may
die (`Crash`), so each part of the function is an action:

    Take -> LookupReceipt -> Guard -> Decide -> Commit -> AdvanceReadModel
         -> Publish* -> PublishDone -> Reply
    failures: QueryFails, DecideReject, CommitNothing, TransactionFails,
              CommitReportsFailure -> Reconcile | ReconcileFails -> Publish*
              -> PublishDone -> [RecordRejection | RecordRejectionFails] -> Reply

The decider is left open: any rejection, or any list of up to `MaxPlan` events
whose last one is on the command's aggregate. The guards of automatic
settlements and pull-request syncs read the event store and are modelled.
A command with more events than the store's default read limit (1000) would be
reconciled in part after an ambiguous commit; `ReadLimitAssumption` states that
bound.

### CommandLog

Submit, Apply, Refuse, Respond and Lose over `log`, `receipts`, `sent` and
`answers` only: a command id contributes at most one batch, together with its
receipt, and every answer is true of the log. `Promise == INSTANCE CommandLog`
in the engine is the refinement: the four variables are the same, everything
else is hidden. Only the transaction and the refusal change `log` and
`receipts`, only `Reply` and `Crash` settle a caller; all other steps of the
engine stutter.

### ThreadLifecycle

One thread. `thread` holds the lifecycle fields, which both projections compute
alike. The open requests are kept twice, and differently: `open` is what
`openRequests` of the decider finds in the retained activities in memory;
`asked`, `closed`, `row` and `owner` are the SQL activities and the
`projection_pending_approvals` rows from which the shell's flags are counted.
`waiting` is what the provider is blocked on, `intents` the FIFO between the
engine and the reactor, `sending` a reply in the provider's hands. Every command
of the decider that parks, wakes, asks, answers, starts or stops is an action
that takes effect atomically (the engine runs commands one at a time on a
caught-up model, which `OrchestrationEngine` checks); the reactor's actions
happen later. `past` is a ghost: the requests ever made, the questions ever
answered, whether one was answered twice, the requests the decider lost sight of
while they were open (`forgotten`), and whether a turn was started after the last
settlement.

Time is abstracted: `GraceExpires` is the two-minute grace of a queued turn
start, the inactivity period of the sweep may be over at any time, a snoozed
thread may have woken.

### KeyedCoalescingWorker

The three maps, the queue and the fiber; every `Effect.tx` is an action. The
n-th value enqueued for a key is the number n, and merging keeps the newer one
as `terminal/Manager.ts` does, so that "newest" and "in order" can be stated. A
value whose processing fails counts as handled: the code gives it up.

### ThreadBootstrap

One thread id and its incarnations, each named by the sequence of its
`thread.created`; a draft keeps its id when a failed bootstrap is sent again,
which is why everything here is keyed by the id and why a fence is needed. The
components compose in one module because they share that key:

* `fiber[i]`, the detached fiber of `dispatchBootstrapTurnStart`; `pc` names the
  `yield*` it waits at, `created`, `preparing` and `worktree` are the locals
  that decide what a rollback does;
* `tracker` and `retention`, the entry of `WorktreeSetupTracker` with the fiber a
  cancel would interrupt (`handle`), and the fiber that drops it later;
* `reactor`, the subscription of `ThreadDeletionReactor` (events handed over,
  `seen` watermark) and its `DrainableWorker` (queue, item in process,
  `outstanding`); `drainThrough` is `AwaitSeen`, then `Drained`;
* `provider`, the incarnation being launched and the one running;
* `thread`, the projection with the durable record of the setup, and `log`.

    Fetch -> CommitCreate -> AwaitSeen -> Drained -> AppendMessage
          -> CommitRecord -> CommitPreparing -> Checkout -> FinishCheckout
          -> RunSetup -> StartTurn -> Settle
    failure or cancel: Unwind -> [RemoveWorktree] -> Rollback | RollbackNothing
          | RollbackFails -> [MarkSessionFailed]

In the part a cancel can interrupt, the fiber waits for the answer to each of its
commands (`thread.create`, the record of the setup, `thread.session.set`). Such a
command is queued (`queued`) and decided in a later step. A cancel ends the wait
and leaves the command where it is: it is decided without its caller, and what
the caller would have noted behind the answer (`created`, `preparing`) stays
unset. The other dispatches are one step, taken when the queue before them is
decided. A dispatch that is answered with an error may have committed its events
all the same, as `OrchestrationEngine` shows (`CommitReportsFailure`): `FailsAt`
for the turn start, `CommitCreate`, `CommitPreparing` and `RollbackFails` have both
outcomes. The field `unheard` of a fiber is history: what its program was not told
because it stopped there, that the session is set (`"session"`) or, by an error,
that the turn is started (`"turn"`). `RunSetup` ends with `markUncancellable`, in one step with leaving
the last interruptible place. `Restart` is `reconcileProviderSessions` and
`reconcileWorktreeSetups`, which finish before commands are accepted.

### ThreadSubscription

`log`, `head` and `published` are the three places an event goes through in the
engine (committed, in the read model, on the PubSub); `subscribeThread` reads all
three at different times. `sub` is the subscription: live delivery is attached
first (`Attached`), then the gap is measured against `head` (`Measure`), replayed
(`CatchUp`) or replaced by a snapshot (`ReadSnapshot`, with the replay as the
fallback of a missing thread), while `Intake`, `Flush` and `FlushWindow` run the
coalescing window under the budget. `Overflow` empties the buffer for good. The
completion marker goes through the same buffer. On the client, `cursor` moves
before `shown` (`ApplySequence`, `ApplyData`), `cache` is the newest state handed
to the store, and `client` holds the status. `inbox` is the buffer that
`switchMap` keeps in front of the consumer, with chunks of sessions that may be
gone. `LoadHttp` applies the loaded thread whatever is still buffered there, and
`client.overtaken` is a ghost that remembers that an older snapshot was.

Sequences are those of the one thread: an event that is not sent to the client
shows up as `created` or `deleted`. Contents are abstract: a thread is the list
of events applied to it. `Details` is what a replay of a range sends, `Since` the
events a snapshot is made of, `InOrder` and `Selected` put them in order without
recursion.

### AttachmentCleanup

`rows` and `cursor` are the message and activity projectors, `cleaned` the cursor
of `projection.attachment-cleanup`, `disk` the directory, `claims` the copies
made for commands that are not yet answered, `Unused` those of them no committed event
refers to. A claim ends with the answer: `Accept` keeps the copy, `Reject` removes
it, also when the message that refers to it is durable. `worker` is the engine's worker and
the bootstrap in one, as they never run together: `Commit` appends and projects
in one transaction, and the clean-up it asks for (`BeginCleaning`,
`RemoveEntry`, `EntryVanished`, `CleaningEnds` or `CleaningFails`) runs before the
next command, file by file, with claims and removals of failed commands in
between. After a crash: `StartBootstrap`, `Replay` for one projector after the
other, `CollectCleanups`, the clean-ups, `FinishBootstrap`. `Reset` is external:
the replay must be safe for a cursor that was set back to have a projection built
again.

### ConnectionSupervisor

`packages/client-runtime/src/connection/supervisor.ts`. `desired` and `network`
are the intent, `calls` the callers that have written it and not yet offered
their signal (the two are separate steps of `connect`, `disconnect`, `retryNow`
and of the fiber that follows the network), `signals` the queue, `session`,
`prepared` and `shown` what is published, `failures` and `generation` the locals
of `run`, `outcome` what `runAttempt` returned. `pc` names the place at which
`run` waits:

    top -> RestAvailable | RestOffline -> EndRest -> top
        -> BeginAttempt -> ReportProgress* -> Establishes -> Publish | Withdraw
    connected: SignalWhileConnected -> SignalWhileProbing* -> ProbeAnswers
               | ProbeErrs | ProbeTimesOut; SessionCloses
    ended: AfterInterrupt | AfterBlocked | AfterFailedProbe -> top
           | AfterFailure -> backoff -> DelayElapses | EndRest -> top

Signals are consumed at four places, `waitForSignal` and `waitForRetrySignal`
(`EndRest`), `waitForEstablishmentInterrupt` (`SignalWhileOpening`), the monitor
of a session and its inner loop during a health check; each has its own rule for
what ends the wait and what is dropped. `Return` is the `Effect.ensuring` of
`runAttempt`: however it ends, the published session is withdrawn. `SessionDies`
is external: a suspended socket stops answering without a close event, so that
only a health check (`ProbeTimesOut`) or a reconnect can end the session.

Abstract: a delay is its rung of the ladder; a session lasted long enough to
reset the ladder or did not (`stable`); `application-active` and
`application-active-probe` are one signal, as they differ in a time-out; the
network status `unknown` is treated like `online`; at most one call of each kind
is between its write and its offer. The completion of a health check is one step
with what follows from it, and the loser of a race takes nothing from the queue.
The registry, which owns one supervisor per environment, the driver and the end
of the supervisor's scope are not modelled.

## Runs

| Run | Instance | Shows |
|---|---|---|
| `engine` | 2 ids, 2 aggregates, 2 dispatches, batches of 2, 1 crash, fairness | `AppliedOnce`, `ReadModelCaughtUp`, `PublishedGapFree`, `PublishedIsVisible`, `AnswersAreTrue`, `SnapshotStillCurrent`, `ImplementsCommandLog`, `EveryDispatchAnswered` |
| `coalescing` | 2 keys, 3 values each, fairness | `NoKeyStranded`, `QueuedOnce`, `DrainedMeansNewestHandled`, `HandledInOrder`, `DrainReturns` |
| `lifecycle` | 1 approval, 3 replies, snooze, 1 full window of activities | `TypeOK`, `HidesOnlyForgotten`, `NoRequestLost` |
| `lifecycle_parking` | 1 async question, 2 replies, archive and pin, 1 restart, revert or lost reply | `AsyncAnsweredOnce`, `SettledHasNoLiveSession`, `PinnedIsNotSettled`, `CleanupSparesLaterTurns` |
| `lifecycle_replies` | 1 approval, 3 replies, nothing else | violates `SettledHidesNothing` |
| `lifecycle_restart` | 1 approval, 1 async question, 2 replies, 1 restart | violates `SettledHidesNothing` |
| `lifecycle_twins` | 1 approval, 1 async question, 2 replies | violates `ClearShellIsSettleable` |
| `bootstrap` | 2 bootstraps, 1 resend or deletion by a client, 1 crash, 1 failing dispatch, fairness | `FencePassed`, `DispositionTrue`, `StartingIsAttended`, `LaterSessionsSurvive`, `RollbackSparesTurns`, `EveryBootstrapAnswered`, `RecordSettles` |
| `bootstrap_restart` | 1 bootstrap, 1 crash | violates `StartedSetupsSettleDone` |
| `subscription` | 4 events, 1 tool call, a budget and a window of 2 items, replays of 3 events, 2 disturbances, fairness | `NothingMissing`, `AppliedInOrder`, `MarkerTrue`, `Synchronized` |
| `attachments` | 5 events, 2 files, 2 crashes, 1 cursor reset, 1 failing removal | `RowsMatchLog`, `OrphansAreRetried`, `SparesReferenced` |
| `connection` | 3 calls, wake-ups and changes of the network, 3 failing attempts, sessions or health checks, fairness | `IntentIsHeard`, `RetriesArePaced`, `GenerationsAreFresh`, `FollowsIntent`, `DeadSessionReplaced` |

The type invariants of the engine, the worker, the bootstrap, the attachments
and the connection are proved for every bound and not repeated in the runs;
`lifecycle` and `subscription` check theirs too.

Why the bounds are enough. The engine handles one command at a time, so two
dispatches cover every pair (same or other id, same or other aggregate), and a
batch of two tells a batch from an event; the refinement, which this run checks
on that instance, is proved for any number of dispatches. In the worker two keys show interference, and three
values allow one in process, one merged, one after. In a lifecycle the requests
are independent apart from the thread's override, so one of a kind suffices;
three replies allow one that fails, one that is taken and one that comes too
late, two of an async answer a repetition, and `MaxIntents` two events behind
each other, which is what the settle clean-up needs to race a turn. What the
decider can lose sight of is one kind of disturbance at a time in the runs
(`Upsets`); the theorems are about all of them together.

In `bootstrap` the second attempt is the one whose thread an earlier clean-up
could hurt. One disturbance by a client is a deletion by somebody else, or a
resend while the first fiber still runs. Both together lead out of what the code
distinguishes: a fiber whose incarnation was deleted goes on with its successor,
since both have the same id. In `subscription` a budget of two items overflows
with the third, four events leave one beyond the longest replay, and two
disturbances cut a resume that follows a cut; `MaxInbox` is 0, so one chunk is
being applied while the next is on the way. The run has loads that
overtake a chunk of the old session, as `threads.ts:785-809` allows; what that
leads to is described with the disagreements below. A thread id is created again only while no
client shows it, because the removal from the shell closes the view, and the
view of a thread that was created again opens once the shell lists it
(`ShellLists`; `entities.ts:150-158`, `waitForShell` for a draft, the thread list
for everybody else), which is after the creation has entered the read model. A
client that came back between the commit and the read model, two statements of
the engine with no I/O between them, would have its gap measured against a head
that does not know of the creation, and would put new events behind a deleted
thread: `AppliedInOrder` fails then, with five events. In
`attachments` five events hold a message, what undoes it, the new incarnation and
a message of that; two files are one referenced and one in dispute; a second
crash interrupts the bootstrap after the first. In `connection` three upsets are
a change of intent, its reversal and a wake-up in any order, which is what the
four consumers must not confuse; three faults are a session that flaps, the
failed health check of the next one and an ordinary failure after it, so that a
marker can leak and the ladder can be climbed twice.

Deadlock checking is off for the engine, the worker, the bootstrap, the
subscription, the attachments and the connection, which rest when the bounded number of
dispatches, values, attempts, events, files or upsets is used up.

Fairness. `engine`: weak fairness of `Take` and `ProcessEnvelope`: the
Effect runtime schedules a runnable fiber, and every database call returns with
a value or an error. `coalescing`: weak fairness of the fiber: `process` of the
terminal manager is a sleep and a file write whose error is caught. Nothing is
assumed of clients, crashes or failures. `DrainReturns` rests on `MaxEnqueues`:
`processKey` goes on with a merged value without returning to the queue, so a
key that is never left alone keeps the fiber and starves the others.
`bootstrap`: weak fairness of each program step, of the reactor's subscriber and
worker, and of the restart: git, the setup script and the database answer, with
success or failure, and a dead server is started again. Nobody is obliged to
send, cancel, delete or crash, and no dispatch is obliged to succeed.
`subscription`: weak fairness of `Progress`, the disjunction of what server and
client do by themselves; its parts cannot go on for ever without the bounded
events and disturbances, so that each enabled one gets its turn.
`connection`: weak fairness of `Run` and of each `Offer`: a caller that wrote the
intent goes on to its signal, the fiber is scheduled, delays elapse, and the
establishment time-out and the probe's time-out bound every wait for the server.
That an attempt then succeeds is no assumption of fairness but of the bound on
faults: `FollowsIntent` says where the client ends once calls, network and
server have come to rest. Nobody is obliged to call or to wake the application.

### Four disagreements with the repository's comments

* `lifecycle_twins`. The comment of `openRequests` (`decider.ts:63-66`) says its
  clearing rules must match the pipeline's pending accounting, "or settle would
  be rejected on threads whose shell flags read as clear". They differ in one
  event: `thread.approval-response-requested` clears the SQL row at once
  (`ProjectionPipeline.ts:2019-2044`), while the decider waits for the
  resolution. The trace is short: create, approval requested, client replies.
* `lifecycle_restart`. `getCommandReadModel`
  (`ProjectionSnapshotQuery.ts:2369`) loads threads without activities. After a
  restart `openRequests` is therefore empty, and a manual settlement is accepted
  over a pending approval and leaves an async question unresolved, against
  `decider.ts:2156-2157` ("must never stay hidden inside a settled slim row")
  and `decider.ts:506`. Automatic settlement is not affected: it looks at the
  shell. The rolling window of 500 activities and a revert, which keeps the
  approval rows, lead to the same state.
* `lifecycle_replies`. The same state is reached without a restart. Three clients
  reply to one approval and the replies wait for the reactor. The first fails and
  the row is pending again; the third clears the row with its request, the second
  is answered by the provider with "already handled"
  (`ProviderCommandReactor.ts:1674-1684`). `openRequests` takes that for the end of
  the request (`decider.ts:98`), while the restore of the SQL row looks only for
  `approval.resolved` and stale failures (`ProjectionPipeline.ts:1966-1981`). A
  settlement is accepted, the third reply fails, and the approval is pending on a
  settled thread, against the same two comments.
* `bootstrap_restart`. The comment of `reconcileWorktreeSetups`
  (`serverRuntimeStartup.ts:756-758`) says that after the handoff "the setup
  settles as done". The reconciliation looks for a recorded agent stage that is
  done, but the record of a running setup is written once, before the checkout
  (`ws.ts:1547-1550`); the handoff changes the in-memory tracker alone. A restart
  while an async setup script runs beside the turn marks the setup failed, with
  "Send the message again." `RecordSettles` holds all the same.

### What the code does not keep, and the properties except

Four more behaviours of the code have no run of their own. Each is an exception
written into a property, which fails without it.

* *A session that stays "starting".* `StartingIsAttended` excepts a fiber
  with `unheard = "session"`. If a
  cancel arrives while `thread.session.set` is unanswered, `preparingSessionSet` is
  false although the event is or will be durable; if the delete of the rollback then fails,
  `markPreparingSessionFailed` is skipped (`ws.ts:1711-1728`) and the session
  reads as working until somebody deletes the thread or sends again. The comment
  there (`ws.ts:1716-1718`) says that it "must not read as working forever".
* *A rollback over a started turn.* `RollbackSparesTurns` excepts the
  turn start of the same fiber that was committed and answered with an error. The
  fiber cannot tell it from one that was not committed, and deletes the thread.
* *A copy removed from under its message.* `SparesReferenced` excepts the removal
  of a copy whose claim ends in the same step. `ws.ts:1975-1978` removes the copies of a command
  on any error of its dispatch, also when the message is durable: after an
  ambiguous commit, or a bootstrap that fails behind
  `thread.message.user.append` and whose rollback fails too.
* *An old snapshot over a newer thread.* `NothingMissing`, `MarkerTrue` and
  `Synchronized` except `client.overtaken`. A client without a thread receives a
  snapshot, and the connection is replaced and the thread loaded over HTTP before the
  snapshot is applied. It is applied afterwards, since a snapshot replaces
  the thread whatever its sequence (`threads.ts:800-806`), while the new
  subscription resumes behind the load: the events between the two are never sent
  again, the marker and the status "live" notwithstanding. A later snapshot would
  repair it; the history field keeps the exception all the same. `AppliedInOrder` holds all the same.

## Proofs

For every value of the constants that satisfies the named assumptions:

* `OrchestrationEngineProofs`, at most once: `TypeCorrect`, `ExactlyOnce` (`AppliedOnce`),
  `ReceiptsNeverChange`, `SnapshotsAreCurrent`. `AppliedOnce` is not inductive:
  the transaction appends without looking at the receipts again. What carries it
  is `StillFresh`: between the lookup and the commit the command the worker holds has no receipt,
  and nothing was appended since its guard, because there is one worker. The
  inductive invariant is `TypeOK /\ StillFresh /\ AppliedOnce`; the lemma
  `TransactionAppliesOnce` is the step where a batch is appended.
* `OrchestrationEngineProofs`, the refinement: `EngineImplementsCommandLog` (`ImplementsCommandLog`),
  `CallersAreToldTheTruth` (`AnswersAreTrue`). The promise applies, refuses and
  answers only a command that still waits, and answers with what is true of its
  receipt at that moment; the engine checks neither where it does so. `Tickets`
  says that queue and worker hold waiting callers, each once; `Outcome` carries
  the result of a command with the receipt it rests on from the lookup or the
  transaction to the reply; `AnswersStand` keeps it true afterwards, since no
  receipt is revised (`ReceiptsKept`). `StepRefines` maps `Dispatch`, the
  transaction, the rejection, `Reply` and `Crash` to `Submit`, `Apply`, `Refuse`,
  `Respond` and `Lose`, every other step to a stutter.
* `OrchestrationEngineProofs`, the read model: `ReadModelIsTheLog` (`ReadModelCaughtUp`),
  `NoEventUnpublished` (`PublishedGapFree`), `PublishedCanBeRead`
  (`PublishedIsVisible`). Within a command log, read model and PubSub move one
  after the other; `CaughtUp` says for each phase how far they are apart, and
  `Serving` that the sequence the reconciliation reads from is the read model's.
  `ReadLimitAssumption` is used exactly there: without it the read could end
  before the last event of the batch. `Visible` holds even when a reconciliation
  failed and `CaughtUp` no longer does.
* `KeyedCoalescingWorkerProofs`: `TypeCorrect`, `NothingStranded`, `NeverTwice`,
  `DrainIsEnough`, `InOrder`. The invariant states where each key is, queued,
  held by the fiber or about to be offered again, and that a pending value is newer than
  the one in process and the one last handled. `OfferFacts` and `TakeFacts` say
  what the two queue operations do to membership and uniqueness.
* `ThreadLifecycleProofs`: `SettledIsIdle`, `PinExcludesSettle`, `TypeCorrect`,
  `AsyncQuestionsAnsweredOnce` (`AsyncAnsweredOnce`), `HidesNothingItSees`
  (`HidesOnlyForgotten`), `QuestionsStayVisible`, `CleanupIsSafe`
  (`CleanupSparesLaterTurns`), `NoApprovalLost` (`NoRequestLost`). The argument is
  in layers, each resting on those before:
  `ParkedWell` is a predicate of the `thread` record alone, and each projected
  event is shown to keep it once (`HarmlessEvents`, `SessionEvents`,
  `SettleKeeps`, `PinKeeps`), so every action is one citation. `SetsOK`, `RowsOK`,
  `FlagsOK` and `QueueOK` are the types. `Accounts` relates the two accounts of
  requests: what the decider holds open is asked and not closed, what is open and
  not held open is `forgotten`, and an answered question is closed for good
  (`KnownSets`, `KnownReplies`, `AnsweredIsClosed`, `MemorySees`).
  `SettledHoldsNothing` then says that a settled thread has nothing the decider
  still sees, which is the most that is true: `SettledHidesNothing` without the
  exception fails in two runs. `QuestionsStayVisible` is the part of it that needs
  no exception, for questions, without restarts, full windows and reverts; only an
  approval can be taken for handled while it is open (`ForgetsOnlyApprovals`).
  `CleanupIsSafe` rests on the order of the queue: a turn start with no settlement
  behind it left the thread unsettled and has no clean-up behind it
  (`StartsUnsettle`), so while its turn is engaged none is waiting
  (`EngagedIsSpared`). `NoApprovalLost`
  follows one approval through its owner, the reply that last cleared its row, which is still queued,
  in the provider's hands, or done (`ApprovalsHeld`). It assumes that no revert
  removes the activities the restore looks at and that no failure goes unrecorded
  (`Upsets` without "revert" and "loss"): with either the property is false, as
  the code accepts. The others hold under all disturbances.

* `AttachmentCleanupProofs`: `TypeCorrect`, `ReplayRebuildsRows`
  (`RowsMatchLog`), `ReferencedFilesStay` (`SparesReferenced`), `OrphansStayPending`
  (`OrphansAreRetried`). `RowsMatchLog` is about a server that is up; what carries
  it through crashes, resets and a replay half way is `RowsCurrent`: a projector
  that has applied an event holds the rows of its own cursor, and the first event
  of the log is a creation, which drops whatever a reset cursor replays over. `Spared` says that the listed entries
  contain no referenced file, which needs `FilesOnce`: a file is referred to by
  one event at most, and a claim is used for a message only while none refers to
  it (`UnusedFacts`). `Removals` is the step that matters: what leaves the disk was
  listed, or is a claim that ends with the step. `Lasts` and `Booting` say which
  events the bootstrap still has to clean, so that moving `cleaned` at the end is
  sound.
* `ThreadBootstrapProofs`: `TypeCorrect`, `FenceHolds` (`FencePassed`),
  `DeletedIsTrue` (`DispositionTrue`), `StartingIsLookedAfter`
  (`StartingIsAttended`), `ResendsAreSafe` and `DeletionsAreSafe`
  (`LaterSessionsSurvive` and `RollbackSparesTurns`). `FencePassed` speaks of
  fibers beyond the fence; the invariant adds `ReactorExact` (`outstanding` counts
  the queue and the item in process, `seen` is behind `handed`) and `FibersFenced`
  (an incarnation is in the log, a fiber that drains has been seen by the
  subscriber). A fiber that passes `Drained` then finds queue and worker empty, and
  whatever is enqueued later has a later sequence. `StartingIsAttended` needs to
  know that a fiber with a prepared session is one that rolls back or goes on
  (`Placed`, `Attended`), and a session that became "starting" after its fiber had
  unwound is one its program was not told of (`unheard`). The other two properties are about pairs of incarnations:
  `SessionsFenced` says that whatever the reactor still has to clean up, and may stop a
  session for, is older than the session, and `TurnNotYet` that a fiber that can still roll
  back has not started its turn, unless by a command that was answered with an error. Both follow once the fibers that run own the
  thread they work on (`OneOwner`). That is so if nobody else deletes the thread
  (`ResendsAreSafe`: any number of overlapping attempts, as a second
  `thread.create` is refused while the thread lives), and if attempts do not
  overlap (`DeletionsAreSafe`: any number of deletions). With an overlapping
  attempt and a deletion at once both properties are false, which is the case
  the bounds of the run leave out.
* `ConnectionSupervisorProofs`: `NoIntentOverheard` (`IntentIsHeard`),
  `AttemptsArePaced` (`RetriesArePaced`), `SessionsAreTellable`
  (`GenerationsAreFresh`). The invariant is `TypeOK /\ IntentIsHeard /\
  FailureHeard /\ Paced /\ Fresh`. `IntentIsHeard` speaks of the places at which
  `run` waits; `FailureHeard` carries it across the end of an attempt, where a
  failure leads to a rest without reading intent again. `Paced` says that the
  rung is never below the number of uninterrupted failures, and that the
  marker of a failed health check exists only between the end of its attempt and
  the loop's look at it, and only if the attempt took a signal; `Fresh` that generations in use are behind or at the one
  being attempted. No bound on upsets or faults is used.

* `ThreadSubscriptionProofs`: `TypeCorrect`. The operators first: what a sorted
  list, a coalesced window, a chunk and the new events of a chunk contain. `Shape`
  is the inductive form of `TypeOK`: the budget holds because a flush never adds
  to what is retained, and the cursor is that of the pair or, half way through a
  chunk, where the chunk leads.
* `ThreadSubscriptionEvents`: `EventsInOrder` (`AppliedInOrder`),
  `NothingIsMissing` (`NothingMissing`), `MarkerIsTrue` (`MarkerTrue`). A chunk is
  filtered by sequence alone, so order is lost if a thread that was deleted and
  created again is continued from the cursor of the old one. `StaleWaits` says why
  it is not: such a client has a snapshot at the head of its chunks, or none and a
  subscription that will be answered with one. Completeness follows every event
  on its way. `Fed` says that what the subscription has taken and will take
  follows on what it reads, that its range begins where the client's chunks end,
  and that a replay holds whatever the chunks do not. `Followed` says that every
  event in a chunk comes behind all needed events before it, and every marker
  behind all it stands for; `SnapshotsAhead` that a snapshot takes nothing back.
  What a window drops is superseded, as no other event lies between its updates
  (`Quiet`, `DroppedSuperseded`), and an event that a chunk takes the client past
  is in that chunk (`FoundInHead`). Both theorems hold for every client no load has overtaken (`StaysOvertaken`: the
  exception is never taken back), and without any assumption on the order of
  loads and chunks.

Only model-checked: liveness (`EveryDispatchAnswered`, `DrainReturns`,
`EveryBootstrapAnswered`, `RecordSettles`, `Synchronized`, `FollowsIntent`,
`DeadSessionReplaced`), which is out of this prover's reach. `SettledHidesNothing`
is proved with the exception its runs show to be needed (`HidesOnlyForgotten`).

## Not modelled

Message text, titles, plans and pull-request contents are data no property here
tells apart. Byte sizes appear only as "over the budget" or not. Paging of older
turns, the deleted status and servers without completion markers are left out of
the client. A clean-up that lists the directory between the copy for a new
command and its commit removes that copy; the model has the interleaving, and
`SparesReferenced` speaks of files whose reference is committed. How a bootstrap fails behind its message
and whether its rollback deletes the thread is left to `ThreadBootstrap`; here it
is a `Reject` behind the commit, with or without a deletion. Provider adapters, git, host APIs, telemetry and user
interface are external processes or I/O. A provider session that comes alive by
itself between the commit of a clean-up stop and its execution is stopped: the
code has no check there, and `CleanupSparesLaterTurns` speaks only of turns the
user started.

Much of the repository by lines is out of the reach of a state model: generated
schemas, React components, the protocol translations of six provider adapters.
`PROJECT.json` gives the reason for each part.

## Plan

1. `TurnProjection`: latestTurn under late completions, interruptions and diffs
   (`ProviderRuntimeIngestion`, `CheckpointReactor`).
2. `ProviderSessions`: resume bindings, compaction and the reaper against the
   directory (`ProviderService`).
3. `ConnectionSupervisor` composed with `ThreadSubscription`, where it replaces
   `Disconnect`; the registry of environments.
4. Terminal sessions over `KeyedCoalescingWorker`; paging of older turns.
5. `ThreadSubscription`: what a snapshot or a re-creation repairs, so that
   `client.overtaken` ends with the next snapshot that is applied.
