--------------------------- MODULE ThreadBootstrap ---------------------------
(***************************************************************************)
(* The first message of a thread with a worktree: dispatchBootstrapTurnStart *)
(* of apps/server/src/ws.ts, run on a detached fiber, with the four things *)
(* it races: the user's cancel (project/WorktreeSetupTracker.ts), the      *)
(* clean-up of an earlier deletion of the same thread id                   *)
(* (ThreadDeletionReactor.ts on a DrainableWorker), the provider session   *)
(* that the turn starts, and a restart (serverRuntimeStartup.ts).          *)
(*                                                                         *)
(* All of them are keyed by the thread id, and a draft keeps its id when a *)
(* failed bootstrap is sent again: this module is about one thread id and  *)
(* its successive incarnations.  An incarnation is named by the sequence   *)
(* number of its thread.created event.  Only thread.created and            *)
(* thread.deleted are numbered; the other events of the thread change its  *)
(* projection alone.                                                       *)
(*                                                                         *)
(* A dispatch puts a command in the engine's queue and waits for its       *)
(* answer.  A cancel ends the wait and leaves the command: so the commands *)
(* of the interruptible part are queued in one step and decided in         *)
(* another, as far as their events are told apart here (thread.create, the *)
(* record of the setup, thread.session.set).  Every other dispatch is one  *)
(* step, taken when the queue before it is decided.  A dispatch that       *)
(* answers with an error may have made its events durable or not.          *)
(***************************************************************************)
EXTENDS Integers, Sequences, FiniteSets

CONSTANTS
    MaxAttempts,       \* bound: bootstraps sent for the thread id
    MaxClientUpsets,   \* bound: resends and deletions by a client
    MaxCrashes,        \* bound: restarts of the server
    MaxFaults          \* bound: dispatches that answer with an error

ASSUME MaxAttemptsAssumption == MaxAttempts \in Nat \ {0}
ASSUME UpsetBoundsAssumption ==
    MaxClientUpsets \in Nat /\ MaxCrashes \in Nat /\ MaxFaults \in Nat

Attempts == 1..MaxAttempts

VARIABLES
    up,          \* the server accepts commands
    log,         \* the thread's created and deleted events
    thread,      \* the thread in the read model and the projections
    queued,      \* the bootstraps' commands in the engine's queue
    fiber,       \* the bootstrap fiber of each attempt
    tracker,     \* the entry of the thread in the tracker's setups
    retention,   \* a retention fiber will drop that entry
    reactor,     \* ThreadDeletionReactor: its subscription and its worker
    provider,    \* incarnations whose session is being launched, and runs
    upsets       \* how many disturbances of each kind have happened

vars == <<up, log, thread, queued, fiber, tracker, retention, reactor, provider, upsets>>

(***************************************************************************)
(* State                                                                   *)
(***************************************************************************)
Phases == {"none", "running", "done", "failed", "cancelled"}
AgentStages == {"pending", "running", "done", "failed", "skipped"}

(* Where the program is when it waits for something; a cancel interrupts   *)
(* it at any of these places.                                              *)
Interruptible ==
    {"fetch", "create", "fence", "drain", "append", "record", "prepare",
     "checkout", "submodules", "script"}

Unwinding == {"failing", "cancelling", "unlink", "rollback", "apologise"}

Running == Interruptible \cup {"handoff", "settle"} \cup Unwinding

(* Where it waits for the answer to a command in the queue.                *)
Waiting == {"create", "record", "prepare"}

Answers == {"none", "started", "failed", "deleted"}

Untracked == [phase |-> "none", handle |-> 0, agent |-> "pending"]

IdleFiber ==
    [pc |-> "idle", prepare |-> FALSE, created |-> FALSE, inc |-> 0,
     preparing |-> FALSE, worktree |-> FALSE, async |-> FALSE, snapshot |-> Untracked,
     unheard |-> "none", answer |-> "none"]

NoThread ==
    [inc |-> 0, live |-> FALSE, turn |-> "none", session |-> "none",
     record |-> "none", agent |-> "pending"]

(* The reactor after start: the watermark starts at the current head.      *)
Subscribed(head) ==
    [handed |-> head, seen |-> head, queue |-> << >>, processing |-> 0, outstanding |-> 0]

NoSession == [launching |-> 0, session |-> 0]

Init ==
    /\ up = TRUE
    /\ log = << >>
    /\ thread = NoThread
    /\ queued = << >>
    /\ fiber = [i \in Attempts |-> IdleFiber]
    /\ tracker = Untracked
    /\ retention = FALSE
    /\ reactor = Subscribed(0)
    /\ provider = NoSession
    /\ upsets = [client |-> 0, crash |-> 0, fault |-> 0]

MaxUpsets == [client |-> MaxClientUpsets, crash |-> MaxCrashes, fault |-> MaxFaults]

Upset(kind) ==
    /\ upsets[kind] < MaxUpsets[kind]
    /\ upsets' = [upsets EXCEPT ![kind] = @ + 1]

At(i, pc) == up /\ fiber[i].pc = pc

(* A dispatch that is one step happens when the commands queued before it  *)
(* have been decided.                                                      *)
DispatchAt(i, pc) == At(i, pc) /\ queued = << >>

Goto(i, pc) == fiber' = [fiber EXCEPT ![i].pc = pc]

(* A command of attempt i; only a record of the setup carries an entry.    *)
Command(i, kind, entry) == [from |-> i, kind |-> kind, entry |-> entry]

(* The command of attempt i that the engine decides next.                  *)
Deciding(i, kind) ==
    /\ up
    /\ queued # << >>
    /\ Head(queued).from = i
    /\ Head(queued).kind = kind

(* The fiber ends; what remains of it is its answer.                       *)
Answer(i, answer) ==
    fiber' = [fiber EXCEPT ![i] = [IdleFiber EXCEPT !.pc = "answered", !.inc = fiber[i].inc,
                                                    !.unheard = fiber[i].unheard,
                                                    !.answer = answer]]

(***************************************************************************)
(* finish: a running stage takes the outcome, the cancel handle is dropped *)
(* and the entry stays for the retention window.  Without an entry there   *)
(* is nothing to finish.                                                   *)
(***************************************************************************)
StageOutcome(phase) ==
    IF phase = "done" THEN "done" ELSE IF phase = "cancelled" THEN "skipped" ELSE "failed"

finish(phase) ==
    IF tracker.phase = "none" THEN Untracked
    ELSE [phase |-> phase, handle |-> 0,
          agent |-> IF tracker.agent = "running" THEN StageOutcome(phase) ELSE tracker.agent]

Finish(phase) ==
    /\ tracker' = finish(phase)
    /\ retention' = (retention \/ tracker.phase # "none")

(* History: what the program will not have heard if it stops now, that the *)
(* session it prepares is set, or (by an error) that the turn is started.  *)
unheard(i, phase) ==
    IF fiber[i].pc = "prepare" THEN "session"
    ELSE IF fiber[i].pc = "handoff" /\ phase = "failed" THEN "turn" ELSE "none"

(* The program stops where it is, by an error or by an interruption: the   *)
(* handler finishes the tracker's entry before it waits for anything.      *)
Stops(i, pc, phase) ==
    /\ fiber' = [fiber EXCEPT ![i].pc = pc, ![i].snapshot = finish(phase),
                              ![i].unheard = unheard(i, phase)]
    /\ Finish(phase)

Fails(i) == Stops(i, "failing", "failed")

(* thread.turn.start: requireThread accepts a deleted thread as well.      *)
TurnRequested == [thread EXCEPT !.turn = "requested"]

(* A dispatch answers with an error: the transaction was undone, or it was *)
(* committed and the engine stumbled afterwards.  The events of the        *)
(* message and of the worktree's path are not told apart here.             *)
FailsAt(i, pc) ==
    /\ DispatchAt(i, pc)
    /\ Upset("fault")
    /\ Fails(i)
    /\ \/ thread' = thread
       \/ pc = "handoff" /\ thread' = TurnRequested
    /\ UNCHANGED <<up, log, queued, reactor, provider>>

(***************************************************************************)
(* Sending.  A draft is sent again when the last attempt was answered or   *)
(* lost and its thread carries no turn.  A resend is a client that lost    *)
(* its connection and sends while the detached fiber still runs.           *)
(***************************************************************************)
Ended(i) == fiber[i].pc \in {"answered", "lost"}

begin(i) ==
    /\ tracker' = [phase |-> "running", handle |-> i, agent |-> "pending"]
    /\ retention' = FALSE

Send(i) ==
    /\ up
    /\ fiber[i].pc = "idle"
    /\ \A j \in Attempts : j < i => fiber[j].pc # "idle"
    /\ ~(thread.live /\ thread.turn # "none")
    /\ \/ /\ \A j \in Attempts : j < i => Ended(j)
          /\ upsets' = upsets
       \/ /\ \E j \in Attempts : j < i /\ ~Ended(j)
          /\ Upset("client")
    /\ begin(i)
    /\ Goto(i, "fetch")
    /\ UNCHANGED <<up, log, thread, queued, reactor, provider>>

(***************************************************************************)
(* bootstrapProgram                                                        *)
(***************************************************************************)

(* The repository is inspected and its base fetched; without a repository  *)
(* the thread runs in the project checkout.  Then thread.create is queued. *)
Fetch(i) ==
    /\ At(i, "fetch")
    /\ \/ \E repo \in BOOLEAN :
             /\ fiber' = [fiber EXCEPT ![i].pc = "create", ![i].prepare = repo]
             /\ queued' = Append(queued, Command(i, "create", Untracked))
             /\ UNCHANGED <<tracker, retention>>
       \/ /\ Fails(i)
          /\ queued' = queued
    /\ UNCHANGED <<up, log, thread, reactor, provider, upsets>>

(* The engine decides a queued thread.create, whether or not its caller    *)
(* still waits: only a live thread blocks it.                              *)
Created ==
    /\ ~thread.live
    /\ log' = Append(log, "created")
    /\ thread' = [NoThread EXCEPT !.inc = Len(log) + 1, !.live = TRUE]

CommitCreate(i) ==
    /\ Deciding(i, "create")
    /\ queued' = Tail(queued)
    /\ \/ /\ Created
          /\ fiber' = IF fiber[i].pc = "create"
                      THEN [fiber EXCEPT ![i].pc = "fence", ![i].inc = Len(log) + 1]
                      ELSE fiber
          /\ UNCHANGED <<tracker, retention, upsets>>
       \/ /\ \/ thread.live /\ UNCHANGED <<log, thread, upsets>>
             \/ Upset("fault") /\ (Created \/ UNCHANGED <<log, thread>>)
          /\ IF fiber[i].pc = "create" THEN Fails(i) ELSE UNCHANGED <<fiber, tracker, retention>>
    /\ UNCHANGED <<up, reactor, provider>>

(* drainThrough(created.sequence): first the subscriber, then the worker.  *)
AwaitSeen(i) ==
    /\ At(i, "fence")
    /\ reactor.seen >= fiber[i].inc
    /\ Goto(i, "drain")
    /\ UNCHANGED <<up, log, thread, queued, tracker, retention, reactor, provider, upsets>>

(* Mutant of Drained: the worker is not waited for.                        *)
DrainedAtOnce(i) ==
    /\ At(i, "drain")
    /\ fiber' = [fiber EXCEPT ![i].pc = "append", ![i].created = TRUE]
    /\ UNCHANGED <<up, log, thread, queued, tracker, retention, reactor, provider, upsets>>

Drained(i) ==
    /\ At(i, "drain")
    /\ reactor.outstanding = 0
    /\ fiber' = [fiber EXCEPT ![i].pc = "append", ![i].created = TRUE]
    /\ UNCHANGED <<up, log, thread, queued, tracker, retention, reactor, provider, upsets>>

(* The record of the setup has been answered or there was none to make:    *)
(* with a worktree to prepare, thread.session.set follows.  q: the queue.  *)
GoesOn(i, q) ==
    IF fiber[i].prepare
    THEN Goto(i, "prepare") /\ queued' = Append(q, Command(i, "prepare", Untracked))
    ELSE Goto(i, "script") /\ queued' = q

(* thread.message.user.append, then the tracker's entry is read and sent.  *)
AppendMessage(i) ==
    /\ DispatchAt(i, "append")
    /\ IF tracker.phase = "none" THEN GoesOn(i, queued)
       ELSE Goto(i, "record") /\ queued' = Append(queued, Command(i, "record", tracker))
    /\ UNCHANGED <<up, log, thread, tracker, retention, reactor, provider, upsets>>

(* recordWorktreeSetup is best effort: a failed dispatch is ignored.  A    *)
(* missing snapshot is not recorded.                                       *)
record(t) ==
    \/ /\ t.phase = "none"
       /\ UNCHANGED <<thread, upsets>>
    \/ /\ t.phase # "none"
       /\ thread' = [thread EXCEPT !.record = t.phase, !.agent = t.agent]
       /\ upsets' = upsets
    \/ /\ t.phase # "none"
       /\ Upset("fault")
       /\ thread' = thread

(* The engine decides the record of a running setup.                       *)
CommitRecord(i) ==
    /\ Deciding(i, "record")
    /\ record(Head(queued).entry)
    /\ IF fiber[i].pc = "record" THEN GoesOn(i, Tail(queued))
       ELSE fiber' = fiber /\ queued' = Tail(queued)
    /\ UNCHANGED <<up, log, tracker, retention, reactor, provider>>

(* The engine decides the thread.session.set.  The program notes that the  *)
(* session is set when it is told so.                                      *)
CommitPreparing(i) ==
    /\ Deciding(i, "prepare")
    /\ queued' = Tail(queued)
    /\ \/ /\ thread' = [thread EXCEPT !.session = "starting"]
          /\ fiber' = IF fiber[i].pc = "prepare"
                      THEN [fiber EXCEPT ![i].pc = "checkout", ![i].preparing = TRUE]
                      ELSE fiber
          /\ UNCHANGED <<tracker, retention, upsets>>
       \/ /\ Upset("fault")
          /\ thread' \in {thread, [thread EXCEPT !.session = "starting"]}
          /\ IF fiber[i].pc = "prepare" THEN Fails(i) ELSE UNCHANGED <<fiber, tracker, retention>>
    /\ UNCHANGED <<up, log, reactor, provider>>

(* createWorktree claims the directory before its submodules are checked   *)
(* out, so that a cancel can still remove it.                              *)
Checkout(i) ==
    /\ At(i, "checkout")
    /\ \/ /\ fiber' = [fiber EXCEPT ![i].pc = "submodules", ![i].worktree = TRUE]
          /\ UNCHANGED <<tracker, retention>>
       \/ Fails(i)
    /\ UNCHANGED <<up, log, thread, queued, reactor, provider, upsets>>

(* The checkout ends and thread.meta.update records its path.              *)
FinishCheckout(i) ==
    /\ DispatchAt(i, "submodules")
    /\ \/ Goto(i, "script") /\ UNCHANGED <<tracker, retention>>
       \/ Fails(i)
    /\ UNCHANGED <<up, log, thread, queued, reactor, provider, upsets>>

(* Mutant of RunSetup: the cancel handle outlives the handoff.             *)
RunSetupCancellable(i) ==
    /\ At(i, "script")
    /\ \E async \in BOOLEAN :
          /\ async => fiber[i].worktree
          /\ fiber' = [fiber EXCEPT ![i].pc = "handoff", ![i].async = async]
    /\ tracker' = IF tracker.phase = "none" THEN tracker ELSE [tracker EXCEPT !.agent = "running"]
    /\ UNCHANGED <<up, log, thread, queued, retention, reactor, provider, upsets>>

(* runSetupProgram, then the handoff: the cancel handle is dropped in the  *)
(* same step that leaves the last interruptible place.  An async script    *)
(* outlives the handoff; only a worktree has a script.                     *)
RunSetup(i) ==
    /\ At(i, "script")
    /\ \E async \in BOOLEAN :
          /\ async => fiber[i].worktree
          /\ fiber' = [fiber EXCEPT ![i].pc = "handoff", ![i].async = async]
    /\ tracker' = IF tracker.phase = "none" THEN tracker
                  ELSE [tracker EXCEPT !.agent = "running", !.handle = 0]
    /\ UNCHANGED <<up, log, thread, queued, retention, reactor, provider, upsets>>

StartTurn(i) ==
    /\ DispatchAt(i, "handoff")
    /\ thread' = TurnRequested
    /\ tracker' = IF tracker.phase = "none" THEN tracker ELSE [tracker EXCEPT !.agent = "done"]
    /\ fiber' = [fiber EXCEPT ![i].pc = "settle",
                              ![i].answer = IF fiber[i].async THEN "started" ELSE "none"]
    /\ UNCHANGED <<up, log, queued, retention, reactor, provider, upsets>>

Settle(i) ==
    /\ DispatchAt(i, "settle")
    /\ Finish("done")
    /\ record(finish("done"))
    /\ Answer(i, "started")
    /\ UNCHANGED <<up, log, queued, reactor, provider>>

(***************************************************************************)
(* settledBootstrapProgram: what follows a failure or a cancel.            *)
(***************************************************************************)
Unwind(i) ==
    /\ \E pc \in {"failing", "cancelling"} : DispatchAt(i, pc)
    /\ record(fiber[i].snapshot)
    /\ fiber' = [fiber EXCEPT ![i].snapshot = Untracked,
                              ![i].pc = IF fiber[i].pc = "cancelling" /\ fiber[i].worktree
                                        THEN "unlink" ELSE "rollback"]
    /\ UNCHANGED <<up, log, queued, tracker, retention, reactor, provider>>

(* removeCreatedWorktree: retried, then given up.                          *)
RemoveWorktree(i) ==
    /\ At(i, "unlink")
    /\ \E removed \in BOOLEAN :
          fiber' = [fiber EXCEPT ![i].pc = "rollback", ![i].worktree = ~removed]
    /\ UNCHANGED <<up, log, thread, queued, tracker, retention, reactor, provider, upsets>>

Deleted ==
    /\ log' = Append(log, "deleted")
    /\ thread' = [thread EXCEPT !.live = FALSE]

(* cleanupCreatedThread: thread.delete for a thread this program created.  *)
Rollback(i) ==
    /\ DispatchAt(i, "rollback")
    /\ fiber[i].created
    /\ Deleted
    /\ Answer(i, "deleted")
    /\ UNCHANGED <<up, queued, tracker, retention, reactor, provider, upsets>>

RollbackNothing(i) ==
    /\ DispatchAt(i, "rollback")
    /\ ~fiber[i].created
    /\ Answer(i, "failed")
    /\ UNCHANGED <<up, log, thread, queued, tracker, retention, reactor, provider, upsets>>

(* Mutant of RollbackFails: the client hears that the thread is gone.      *)
RollbackFailsSilently(i) ==
    /\ DispatchAt(i, "rollback")
    /\ fiber[i].created
    /\ Upset("fault")
    /\ IF fiber[i].preparing THEN Goto(i, "apologise") ELSE Answer(i, "deleted")
    /\ UNCHANGED <<up, log, thread, queued, tracker, retention, reactor, provider>>

(* Mutant of RollbackFails: the preparing session is left as it is.        *)
RollbackFailsUnmarked(i) ==
    /\ DispatchAt(i, "rollback")
    /\ fiber[i].created
    /\ Upset("fault")
    /\ Answer(i, "failed")
    /\ UNCHANGED <<up, log, thread, queued, tracker, retention, reactor, provider>>

RollbackFails(i) ==
    /\ DispatchAt(i, "rollback")
    /\ fiber[i].created
    /\ Upset("fault")
    /\ IF fiber[i].preparing THEN Goto(i, "apologise") ELSE Answer(i, "failed")
    /\ Deleted \/ UNCHANGED <<log, thread>>
    /\ UNCHANGED <<up, queued, tracker, retention, reactor, provider>>

(* markPreparingSessionFailed, best effort.                                *)
MarkSessionFailed(i) ==
    /\ DispatchAt(i, "apologise")
    /\ \/ thread' = [thread EXCEPT !.session = "error"] /\ upsets' = upsets
       \/ Upset("fault") /\ thread' = thread
    /\ Answer(i, "failed")
    /\ UNCHANGED <<up, log, queued, tracker, retention, reactor, provider>>

(***************************************************************************)
(* The tracker's cancel and its retention.                                 *)
(***************************************************************************)
cancel ==
    /\ up
    /\ tracker.phase = "running"
    /\ tracker.handle # 0
    /\ Stops(tracker.handle, "cancelling", "cancelled")
    /\ UNCHANGED <<up, log, thread, queued, reactor, provider, upsets>>

Retire ==
    /\ up
    /\ retention
    /\ retention' = FALSE
    /\ tracker' = Untracked
    /\ UNCHANGED <<up, log, thread, queued, fiber, reactor, provider, upsets>>

(***************************************************************************)
(* ThreadDeletionReactor and its DrainableWorker.                          *)
(***************************************************************************)

(* Mutant of HandOver: the event is noted before it is enqueued.           *)
HandOverNotedFirst ==
    /\ up
    /\ reactor.handed < Len(log)
    /\ LET n == reactor.handed + 1 IN
       reactor' = IF reactor.seen < n THEN [reactor EXCEPT !.seen = n]
                  ELSE IF log[n] = "deleted"
                  THEN [reactor EXCEPT !.handed = n, !.queue = Append(@, n), !.outstanding = @ + 1]
                  ELSE [reactor EXCEPT !.handed = n]
    /\ UNCHANGED <<up, log, thread, queued, fiber, tracker, retention, provider, upsets>>

(* The subscriber's handler: a deletion is enqueued, then the event noted. *)
HandOver ==
    /\ up
    /\ reactor.handed = reactor.seen
    /\ reactor.handed < Len(log)
    /\ LET n == reactor.handed + 1 IN
       reactor' = IF log[n] = "deleted"
                  THEN [reactor EXCEPT !.handed = n, !.queue = Append(@, n), !.outstanding = @ + 1]
                  ELSE [reactor EXCEPT !.handed = n]
    /\ UNCHANGED <<up, log, thread, queued, fiber, tracker, retention, provider, upsets>>

NoteSeen ==
    /\ up
    /\ reactor.seen < reactor.handed
    /\ reactor' = [reactor EXCEPT !.seen = reactor.handed]
    /\ UNCHANGED <<up, log, thread, queued, fiber, tracker, retention, provider, upsets>>

Take ==
    /\ up
    /\ reactor.processing = 0
    /\ reactor.queue # << >>
    /\ reactor' = [reactor EXCEPT !.processing = Head(reactor.queue), !.queue = Tail(@)]
    /\ UNCHANGED <<up, log, thread, queued, fiber, tracker, retention, provider, upsets>>

(* Mutant of ProcessDeleted: a failed stop does not count its item down.   *)
ProcessDeletedOnSuccess ==
    /\ up
    /\ reactor.processing # 0
    /\ \/ /\ reactor' = [reactor EXCEPT !.processing = 0, !.outstanding = @ - 1]
          /\ provider' = [provider EXCEPT !.session = 0]
       \/ /\ reactor' = [reactor EXCEPT !.processing = 0]
          /\ provider' = provider
    /\ UNCHANGED <<up, log, thread, queued, fiber, tracker, retention, upsets>>

(* processThreadDeletedSafely: the session of the thread id is stopped,    *)
(* whichever incarnation it serves; a failure is logged.  The ensuring     *)
(* clause counts the item down either way.                                 *)
ProcessDeleted ==
    /\ up
    /\ reactor.processing # 0
    /\ reactor' = [reactor EXCEPT !.processing = 0, !.outstanding = @ - 1]
    /\ provider' \in {[provider EXCEPT !.session = 0], provider}
    /\ UNCHANGED <<up, log, thread, queued, fiber, tracker, retention, upsets>>

(***************************************************************************)
(* The provider's side of a turn: the command reactor reads the thread,    *)
(* then launches its session; a deleted thread is skipped.                 *)
(***************************************************************************)
ResolveTurn ==
    /\ up
    /\ thread.turn = "requested"
    /\ thread' = [thread EXCEPT !.turn = "handled"]
    /\ provider' = IF thread.live THEN [provider EXCEPT !.launching = thread.inc] ELSE provider
    /\ UNCHANGED <<up, log, queued, fiber, tracker, retention, reactor, upsets>>

Launched ==
    /\ up
    /\ provider.launching # 0
    /\ provider' \in {[launching |-> 0, session |-> provider.launching],
                      [provider EXCEPT !.launching = 0]}
    /\ UNCHANGED <<up, log, thread, queued, fiber, tracker, retention, reactor, upsets>>

(***************************************************************************)
(* Another client deletes the thread; the process dies and starts again.   *)
(***************************************************************************)
ClientDelete ==
    /\ up
    /\ queued = << >>
    /\ thread.live
    /\ Upset("client")
    /\ Deleted
    /\ UNCHANGED <<up, queued, fiber, tracker, retention, reactor, provider>>

Crash ==
    /\ up
    /\ Upset("crash")
    /\ up' = FALSE
    /\ queued' = << >>
    /\ fiber' = [i \in Attempts |-> IF fiber[i].pc \in Running
                                    THEN [IdleFiber EXCEPT !.pc = "lost"] ELSE fiber[i]]
    /\ tracker' = Untracked
    /\ retention' = FALSE
    /\ provider' = NoSession
    /\ UNCHANGED <<log, thread, reactor>>

(* Mutant of reconcileWorktreeSetups: a setup before its handoff is left.  *)
reconcileHandedOff(t) ==
    IF t.live /\ t.record = "running" /\ t.agent = "done" THEN [t EXCEPT !.record = "done"] ELSE t

(* reconcileProviderSessions and reconcileWorktreeSetups run before the    *)
(* reactors are activated and commands accepted.  They see live threads.   *)
reconcileWorktreeSetups(t) ==
    IF t.live /\ t.record = "running"
    THEN [t EXCEPT !.record = IF t.agent = "done" THEN "done" ELSE "failed"]
    ELSE t

reconcileProviderSessions(t) ==
    IF t.live /\ t.session = "starting" THEN [t EXCEPT !.session = "error"] ELSE t

Restart ==
    /\ ~up
    /\ up' = TRUE
    /\ thread' = reconcileWorktreeSetups(reconcileProviderSessions(thread))
    /\ reactor' = Subscribed(Len(log))
    /\ UNCHANGED <<log, queued, fiber, tracker, retention, provider, upsets>>

Step(i) ==
    \/ Fetch(i) \/ CommitCreate(i) \/ AwaitSeen(i) \/ Drained(i) \/ AppendMessage(i)
    \/ CommitRecord(i) \/ CommitPreparing(i) \/ Checkout(i) \/ FinishCheckout(i)
    \/ RunSetup(i) \/ StartTurn(i) \/ Settle(i)
    \/ Unwind(i) \/ RemoveWorktree(i) \/ Rollback(i) \/ RollbackNothing(i)
    \/ MarkSessionFailed(i)

Cleaning == HandOver \/ NoteSeen \/ Take \/ ProcessDeleted

Fault(i) ==
    \/ RollbackFails(i)
    \/ \E pc \in {"append", "submodules", "handoff"} : FailsAt(i, pc)

Next ==
    \/ \E i \in Attempts : Send(i) \/ Step(i) \/ Fault(i)
    \/ cancel \/ Retire \/ Cleaning \/ ResolveTurn \/ Launched
    \/ ClientDelete \/ Crash \/ Restart

Spec == Init /\ [][Next]_vars

(***************************************************************************)
(* Git, the setup script and the database answer, and fibers are           *)
(* scheduled.  Nobody is obliged to send, cancel, delete or crash.         *)
(***************************************************************************)
FairSpec ==
    /\ Spec
    /\ \A i \in Attempts : WF_vars(Step(i))
    /\ WF_vars(HandOver) /\ WF_vars(NoteSeen) /\ WF_vars(Take) /\ WF_vars(ProcessDeleted)
    /\ WF_vars(Restart)

(***************************************************************************)
(* Properties                                                              *)
(***************************************************************************)
Entries == [phase : Phases, handle : {0} \cup Attempts, agent : AgentStages]

Threads ==
    [inc : Nat, live : BOOLEAN, turn : {"none", "requested", "handled"},
     session : {"none", "starting", "error"}, record : Phases, agent : AgentStages]

Fibers ==
    [pc : {"idle", "answered", "lost"} \cup Running, prepare : BOOLEAN, created : BOOLEAN,
     inc : Nat, preparing : BOOLEAN, worktree : BOOLEAN, async : BOOLEAN, snapshot : Entries,
     unheard : {"none", "session", "turn"}, answer : Answers]

Commands == [from : Attempts, kind : Waiting, entry : Entries]

(* Every variable keeps its shape.                                         *)
TypeOK ==
    /\ up \in BOOLEAN
    /\ log \in Seq({"created", "deleted"})
    /\ thread \in Threads
    /\ queued \in Seq(Commands)
    /\ fiber \in [Attempts -> Fibers]
    /\ tracker \in Entries
    /\ retention \in BOOLEAN
    /\ reactor \in [handed : Nat, seen : Nat, queue : Seq(Nat), processing : Nat,
                    outstanding : Nat]
    /\ provider \in [launching : Nat, session : Nat]
    /\ upsets \in [client : Nat, crash : Nat, fault : Nat]

(* The fence of drainThrough: the clean-up of a deletion never stops the   *)
(* session of an incarnation that was created after that deletion.         *)
LaterSessionsSurvive ==
    [][(up' /\ provider.session # 0 /\ provider'.session = 0)
          => reactor.processing > provider.session]_vars

(* drainThrough(created.sequence) has returned: every deletion before that *)
(* creation has left the subscription, the worker's queue and the worker.  *)
FencePassed ==
    \A i \in Attempts :
       fiber[i].created =>
          /\ fiber[i].inc <= reactor.handed
          /\ \A k \in 1..Len(reactor.queue) : fiber[i].inc < reactor.queue[k]
          /\ reactor.processing # 0 => fiber[i].inc < reactor.processing

(* A bootstrap that was cancelled never deletes a thread whose turn has    *)
(* started (markUncancellable, and the uninterruptible dispatch), nor does *)
(* one that failed, unless it was its own thread.turn.start that answered  *)
(* with an error: that one may have been committed.                        *)
RollbackSparesTurns ==
    [][\A i \in Attempts :
          (fiber[i].pc = "rollback" /\ fiber'[i].pc # "rollback" /\ thread.live /\ ~thread'.live)
             => thread.turn = "none" \/ fiber[i].unheard = "turn"]_vars

(* bootstrapThreadDisposition "deleted" tells the client that it may send  *)
(* the draft again: the thread it created is gone then.                    *)
DispositionTrue ==
    \A i \in Attempts :
       fiber[i].answer = "deleted" => ~(thread.live /\ thread.inc = fiber[i].inc)

(* A session projected as starting before any turn has a bootstrap behind  *)
(* it that will start the turn, delete the thread or mark the session,     *)
(* although any one dispatch fails (the mark is a single best effort).     *)
(* The exception is a program that stopped before it was told that the     *)
(* session is set: it tries to delete the thread and does nothing more, so *)
(* when that fails the session stays as it is.                             *)
StartingIsAttended ==
    (up /\ thread.live /\ thread.session = "starting" /\ thread.turn = "none" /\ upsets.fault <= 1)
       => \E i \in Attempts :
             \/ fiber[i].preparing /\ fiber[i].pc \in Running
             \/ fiber[i].unheard = "session" /\ (fiber[i].pc \in Running \/ fiber[i].answer = "failed")

(* Every bootstrap is answered: its fence is passed, its rollback ends.    *)
EveryBootstrapAnswered ==
    \A i \in Attempts : fiber[i].pc \in Running ~> Ended(i)

(* The durable record of a setup does not stay running for ever.           *)
RecordSettles ==
    (thread.live /\ thread.record = "running")
       ~> (thread.record # "running" \/ ~thread.live \/ upsets.fault > 0)

(* The comment of reconcileWorktreeSetups: after the handoff only an async *)
(* script was still running, and the setup settles as done.  It does not:  *)
(* the durable record still says that the agent stage is pending, and the  *)
(* user is told to send a message again whose turn has started.            *)
StartedSetupsSettleDone ==
    [][(Restart /\ thread.record = "running" /\ thread.turn # "none")
          => thread'.record # "failed"]_vars
=============================================================================
