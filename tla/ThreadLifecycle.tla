-------------------------- MODULE ThreadLifecycle --------------------------
(***************************************************************************)
(* One thread of the daemon, as its commands, its projections and its      *)
(* provider see it:                                                        *)
(*   apps/server/src/orchestration/decider.ts          what a command does *)
(*   apps/server/src/orchestration/projector.ts        the command read    *)
(*                                                     model, in memory    *)
(*   .../Layers/ProjectionPipeline.ts                  the same in SQL     *)
(*   .../Layers/ProviderCommandReactor.ts              intents to provider *)
(*                                                                         *)
(* A thread may be parked (settled, snoozed, archived) while a provider    *)
(* session works for it and asks the user for approvals and input.  Two    *)
(* accounts of the open requests are kept: the decider scans the           *)
(* activities of the in-memory read model (openRequests), the shell shows  *)
(* what the SQL projections count.  The in-memory one forgets: it starts   *)
(* empty after a restart and is a window of 500 activities.                *)
(*                                                                         *)
(* A command is one action: OrchestrationEngine shows that commands are    *)
(* decided one at a time on a read model that is caught up.  The reactor   *)
(* is a fiber of its own that handles committed events in order, later.    *)
(***************************************************************************)
EXTENDS Integers, Sequences, FiniteSets

CONSTANTS
    Approvals,       \* approval requests of the provider
    NativeQuestions, \* questions the provider's turn is blocked on
    AsyncQuestions,  \* questions answered by a later user message
    Parking,         \* bound: which of "archive", "snooze", "pin" clients use
    MaxReplies,      \* bound: replies clients send to requests
    MaxIntents,      \* bound: events waiting for the reactor
    Upsets,          \* bound: which of "restart", "revert", "roll", "loss" happen
    MaxUpsets        \* bound: how many of them

ASSUME LifecycleBounds ==
    /\ {MaxReplies, MaxIntents, MaxUpsets} \subseteq Nat
    /\ Parking \subseteq {"archive", "snooze", "pin"}
    /\ Upsets \subseteq {"restart", "revert", "roll", "loss"}
    /\ Approvals \cap NativeQuestions = {}
    /\ Approvals \cap AsyncQuestions = {}
    /\ NativeQuestions \cap AsyncQuestions = {}

VARIABLES
    thread,     \* the lifecycle fields, equal in memory and in SQL
    open,       \* in memory: openRequests of the retained activities
    hasText,    \* in memory: the read model holds messages of the thread
    memQueued,  \* in memory: a recent user message no turn has adopted
    queued,     \* SQL: the same, for the shell
    asked,      \* SQL activities: requests made
    closed,     \* SQL activities: requests resolved or reported stale
    row,        \* SQL projection_pending_approvals: status
    owner,      \* and the reply (responseCommandId) that resolved it, 0 if none
    waiting,    \* the provider is blocked on these
    intents,    \* events enqueued to the reactor's DrainableWorker
    sending,    \* the reply the reactor has handed to the provider
    scan,       \* an auto-settle command decided on the present SQL state
    replies,    \* how many replies clients have sent
    past,       \* ghost: what has happened that no later state shows
    upsets      \* how many of the Upsets have happened

memory == <<open, hasText, memQueued>>
sql    == <<queued, asked, closed, row, owner>>
agent  == <<waiting, intents, sending>>
vars   == <<thread, open, hasText, memQueued, queued, asked, closed, row, owner,
            waiting, intents, sending, scan, replies, past, upsets>>

-----------------------------------------------------------------------------
Questions == NativeQuestions \cup AsyncQuestions
Requests  == Approvals \cup Questions

Statuses == {"none", "starting", "running", "ready", "error", "stopped"}

(* Idle, ready and interrupted sessions are told apart by no rule here.     *)
Alive(status) == status \in {"starting", "running"}

Thread == [life : {"absent", "live", "deleted"}, archived : BOOLEAN,
           override : {"none", "active", "settled"}, snoozed : BOOLEAN,
           pinned : BOOLEAN, imported : BOOLEAN, session : Statuses]

Fresh == [life |-> "live", archived |-> FALSE, override |-> "none", snoozed |-> FALSE,
          pinned |-> FALSE, imported |-> FALSE, session |-> "none"]

Approve(r, n) == [is |-> "approve", req |-> r, reply |-> n]
Answer(q, n)  == [is |-> "answer", req |-> q, reply |-> n]
Intent(kind)  == [is |-> kind]

ReplyIntents == [is : {"approve"}, req : Approvals, reply : Nat]
                \cup [is : {"answer"}, req : Questions, reply : Nat]

Intents == ReplyIntents \cup [is : {"start", "settled", "cleanup", "stop"}]

NoReply == [is |-> "idle"]

(***************************************************************************)
(* Invariants of commandInvariants.ts.  A soft-deleted thread is still     *)
(* found; only creation takes it for absent.                               *)
(***************************************************************************)
RequireThread            == thread.life # "absent"
RequireThreadNotArchived == RequireThread /\ ~thread.archived
RequireThreadArchived    == RequireThread /\ thread.archived
RequireThreadAbsent      == thread.life # "live"

(***************************************************************************)
(* The projected events of the lifecycle.                                  *)
(***************************************************************************)
Settled(t) == [t EXCEPT !.override = "settled", !.imported = FALSE]

(* Mutant of Unsettled: the reason is stored as the override.              *)
UnsettledStoresReason(t, why) == [t EXCEPT !.override = why]

Unsettled(t, why) == [t EXCEPT !.override = IF why = "user" THEN "active" ELSE "none"]

Snoozed(t)      == [t EXCEPT !.snoozed = TRUE]
Unsnoozed(t)    == [t EXCEPT !.snoozed = FALSE]
Pinned(t)       == [t EXCEPT !.pinned = TRUE]
Unpinned(t)     == [t EXCEPT !.pinned = FALSE]
SessionIs(t, s) == [t EXCEPT !.session = s]

(* "Real activity resets ANY override."                                    *)
Woken(t) == IF t.override = "none" THEN t ELSE Unsettled(t, "activity")

(* Mutant of WithSession: a starting session does not wake the thread.     *)
WithSessionWakesWhenRunning(t, s) == SessionIs(IF s = "running" THEN Woken(t) ELSE t, s)

(***************************************************************************)
(* thread.session.set: only a session coming alive wakes the thread.       *)
(***************************************************************************)
WithSession(t, s) == SessionIs(IF Alive(s) THEN Woken(t) ELSE t, s)

(***************************************************************************)
(* threadHasQueuedTurnStart; a failed session adopts nothing.              *)
(***************************************************************************)
HasQueuedTurnStart(flag) == flag /\ thread.session # "error"

(***************************************************************************)
(* hasPendingApprovals and hasPendingUserInput of the shell, as the set of *)
(* the requests they count.                                                *)
(***************************************************************************)
PendingApprovals == {r \in Approvals : row[r] = "pending"}
PendingUserInput == (asked \cap Questions) \ closed
Pending          == PendingApprovals \cup PendingUserInput

(***************************************************************************)
(* Every command appends at least one event to the thread, so that an      *)
(* auto-settle command decided on an earlier state is refused by the       *)
(* engine's hasEventAfter guard.                                           *)
(***************************************************************************)
Emit(t) == thread' = t /\ scan' = FALSE

(* What the reactor subscribes to; MaxIntents bounds the backlog.          *)
Enqueue(i) == Len(intents) < MaxIntents /\ intents' = Append(intents, i)

Upset(kind) == kind \in Upsets /\ upsets < MaxUpsets /\ upsets' = upsets + 1

Close(rs) == open' = open \ rs /\ closed' = closed \cup rs

(***************************************************************************)
(* The read model loses sight of requests that SQL may still count.        *)
(***************************************************************************)
Forget(rs) ==
    /\ open' = open \ rs
    /\ past' = [past EXCEPT !.forgotten = @ \cup (open \cap rs)]

Init ==
    /\ thread = [Fresh EXCEPT !.life = "absent"]
    /\ open = {} /\ hasText = FALSE /\ memQueued = FALSE
    /\ queued = FALSE /\ asked = {} /\ closed = {}
    /\ row = [r \in Approvals |-> "none"]
    /\ owner = [r \in Approvals |-> 0]
    /\ waiting = {} /\ intents = << >> /\ sending = NoReply
    /\ scan = FALSE
    /\ replies = 0
    /\ past = [used |-> {}, answered |-> {}, forgotten |-> {}, twice |-> FALSE,
               engaged |-> FALSE]
    /\ upsets = 0

-----------------------------------------------------------------------------
(***************************************************************************)
(* Commands of clients.                                                    *)
(***************************************************************************)
(* thread.created replaces the read model's thread and deletes the rows of *)
(* the old incarnation, whose requests are no longer this thread's.        *)
ThreadCreate ==
    /\ RequireThreadAbsent
    /\ Emit(Fresh)
    /\ open' = {} /\ hasText' = FALSE /\ memQueued' = FALSE
    /\ queued' = FALSE /\ asked' = {} /\ closed' = {}
    /\ row' = [r \in Approvals |-> "none"]
    /\ owner' = [r \in Approvals |-> 0]
    /\ waiting' = {}
    /\ past' = [past EXCEPT !.engaged = FALSE, !.forgotten = {}]
    /\ UNCHANGED <<intents, sending, replies, upsets>>

ThreadDelete ==
    /\ RequireThread
    /\ Emit([thread EXCEPT !.life = "deleted"])
    /\ UNCHANGED <<memory, sql, agent, replies, past, upsets>>

ThreadArchive ==
    /\ "archive" \in Parking
    /\ RequireThreadNotArchived
    /\ Emit([thread EXCEPT !.archived = TRUE])
    /\ UNCHANGED <<memory, sql, agent, replies, past, upsets>>

ThreadUnarchive ==
    /\ RequireThreadArchived
    /\ Emit([thread EXCEPT !.archived = FALSE])
    /\ UNCHANGED <<memory, sql, agent, replies, past, upsets>>

(***************************************************************************)
(* The events of a settlement: settled, one user-input.resolved for every  *)
(* open (async) question, unpinned, unsnoozed.                             *)
(***************************************************************************)
SettleEvents ==
    /\ Emit(Unsnoozed(Unpinned(Settled(thread))))
    /\ Close(open)
    /\ Enqueue(Intent("settled"))
    /\ past' = [past EXCEPT !.engaged = FALSE]
    /\ UNCHANGED <<hasText, memQueued, queued, asked, row, owner, waiting, sending,
                   replies, upsets>>

ThreadSettle ==
    /\ RequireThreadNotArchived
    /\ ~Alive(thread.session)
    /\ open \subseteq AsyncQuestions
    /\ ~HasQueuedTurnStart(memQueued)
    /\ SettleEvents

(***************************************************************************)
(* ThreadSettlementReactor: isAutoSettlementCandidate on the shell (a      *)
(* snoozed thread is one once it has woken), then the command.             *)
(***************************************************************************)
ScanForSettlement ==
    /\ thread.life = "live"
    /\ ~thread.archived
    /\ thread.override = "none"
    /\ Pending = {}
    /\ ~Alive(thread.session)
    /\ ~HasQueuedTurnStart(queued)
    /\ scan' = TRUE
    /\ UNCHANGED <<thread, memory, sql, agent, replies, past, upsets>>

ThreadAutoSettle ==
    /\ scan
    /\ RequireThreadNotArchived
    /\ thread.override = "none"
    /\ ~Alive(thread.session)
    /\ open = {}
    /\ ~HasQueuedTurnStart(memQueued)
    /\ SettleEvents

ThreadUnsettle ==
    /\ RequireThreadNotArchived
    /\ \E why \in {"user", "activity"} : Emit(Unsettled(thread, why))
    /\ UNCHANGED <<memory, sql, agent, replies, past, upsets>>

ThreadSnooze ==
    /\ "snooze" \in Parking
    /\ RequireThreadNotArchived
    /\ open = {}
    /\ ~HasQueuedTurnStart(memQueued)
    /\ Emit(Snoozed(thread))
    /\ UNCHANGED <<memory, sql, agent, replies, past, upsets>>

ThreadUnsnooze ==
    /\ RequireThreadNotArchived
    /\ Emit(Unsnoozed(thread))
    /\ UNCHANGED <<memory, sql, agent, replies, past, upsets>>

(* Mutant of ThreadPin: it does not promote.                               *)
ThreadPinOnly ==
    /\ "pin" \in Parking
    /\ RequireThreadNotArchived
    /\ Emit(Pinned(thread))
    /\ UNCHANGED <<memory, sql, agent, replies, past, upsets>>

(* "Pinning is a promotion: it clears the parked states."                  *)
ThreadPin ==
    /\ "pin" \in Parking
    /\ RequireThreadNotArchived
    /\ LET promoted == IF thread.override = "settled" THEN Unsettled(thread, "user") ELSE thread
       IN  Emit(Unsnoozed(Pinned(promoted)))
    /\ UNCHANGED <<memory, sql, agent, replies, past, upsets>>

ThreadUnpin ==
    /\ RequireThreadNotArchived
    /\ Emit(Unpinned(thread))
    /\ UNCHANGED <<memory, sql, agent, replies, past, upsets>>

(***************************************************************************)
(* thread.turn.start: the message (unless a bootstrap persisted it), the   *)
(* intent to start a turn, and the end of settled, active and snoozed.     *)
(***************************************************************************)
TurnStartEvents(fresh) ==
    /\ Emit(Unsnoozed(Woken(thread)))
    /\ Enqueue(Intent("start"))
    /\ hasText' = TRUE
    /\ memQueued' = (memQueued \/ fresh)
    /\ queued' = (queued \/ fresh)

ThreadTurnStart ==
    /\ RequireThread
    /\ \E fresh \in {TRUE, ~hasText} : TurnStartEvents(fresh)
    /\ UNCHANGED <<open, asked, closed, row, owner, waiting, sending, replies, past, upsets>>

(***************************************************************************)
(* The first message of a worktree bootstrap, persisted ahead of its turn. *)
(***************************************************************************)
MessageUserAppend ==
    /\ RequireThread
    /\ Emit(thread)
    /\ hasText' = TRUE /\ memQueued' = TRUE /\ queued' = TRUE
    /\ UNCHANGED <<open, asked, closed, row, owner, agent, replies, past, upsets>>

(***************************************************************************)
(* Two minutes pass: a message no turn has adopted stops counting.         *)
(***************************************************************************)
GraceExpires ==
    /\ queued \/ memQueued
    /\ queued' = FALSE /\ memQueued' = FALSE
    /\ UNCHANGED <<thread, open, hasText, asked, closed, row, owner, agent, scan, replies,
                   past, upsets>>

(***************************************************************************)
(* The importer's second command: messages and a settled event, and a      *)
(* settled intent for which there is no session to stop.                   *)
(***************************************************************************)
HistoryImport ==
    /\ thread.life = "live"
    /\ ~thread.archived
    /\ ~hasText
    /\ thread.session = "none"
    /\ open = {}
    /\ Emit([Settled(thread) EXCEPT !.imported = TRUE])
    /\ hasText' = TRUE
    /\ Enqueue(Intent("settled"))
    /\ past' = [past EXCEPT !.engaged = FALSE]
    /\ UNCHANGED <<open, memQueued, sql, waiting, sending, replies, upsets>>

SessionStop ==
    /\ RequireThread
    /\ Emit(thread)
    /\ Enqueue(Intent("stop"))
    /\ UNCHANGED <<memory, sql, waiting, sending, replies, past, upsets>>

(***************************************************************************)
(* A client replies to an approval: the SQL row is resolved on the spot by *)
(* the first reply, the read model keeps the request open.                 *)
(***************************************************************************)
ApprovalRespond(r) ==
    /\ RequireThread
    /\ r \in past.used
    /\ replies < MaxReplies
    /\ replies' = replies + 1
    /\ Emit(thread)
    /\ Enqueue(Approve(r, replies + 1))
    /\ IF row[r] = "pending"
       THEN /\ row' = [row EXCEPT ![r] = "resolved"]
            /\ owner' = [owner EXCEPT ![r] = replies + 1]
       ELSE UNCHANGED <<row, owner>>
    /\ UNCHANGED <<memory, queued, asked, closed, waiting, sending, past, upsets>>

(* Mutant of UserInputRespond: a resolved question is answered again.      *)
UserInputRespondUnchecked(q) ==
    /\ RequireThread
    /\ q \in past.used \cap AsyncQuestions \cap asked
    /\ replies < MaxReplies
    /\ replies' = replies + 1
    /\ Close({q})
    /\ TurnStartEvents(TRUE)
    /\ past' = [past EXCEPT !.answered = @ \cup {q}, !.twice = @ \/ q \in past.answered]
    /\ UNCHANGED <<asked, row, owner, waiting, sending, upsets>>

(***************************************************************************)
(* A client answers a question.  For an async question that SQL still      *)
(* holds open, the answer is a message that starts a turn, committed       *)
(* together with the resolution; one already resolved is rejected; any     *)
(* other answer goes to the provider.                                      *)
(***************************************************************************)
UserInputRespond(q) ==
    /\ RequireThread
    /\ q \in past.used
    /\ replies < MaxReplies
    /\ replies' = replies + 1
    /\ IF q \in AsyncQuestions \cap asked
       THEN /\ q \notin closed
            /\ Close({q})
            /\ TurnStartEvents(TRUE)
            /\ past' = [past EXCEPT !.answered = @ \cup {q},
                                    !.twice = @ \/ q \in past.answered]
            /\ UNCHANGED <<asked, row, owner, waiting, sending, upsets>>
       ELSE /\ Emit(thread)
            /\ Enqueue(Answer(q, replies + 1))
            /\ UNCHANGED <<memory, sql, waiting, sending, past, upsets>>

UserInputDismiss(q) ==
    /\ RequireThread
    /\ q \in (AsyncQuestions \cap asked) \ closed
    /\ Emit(thread)
    /\ Close({q})
    /\ UNCHANGED <<hasText, memQueued, queued, asked, row, owner, agent, replies, past, upsets>>

-----------------------------------------------------------------------------
(***************************************************************************)
(* Commands made of provider events (ProviderRuntimeIngestion).            *)
(***************************************************************************)

(***************************************************************************)
(* thread.session.set.  A report of a turn, or of its end, may be newer    *)
(* than the queued message and so adopt it, in either projection; a        *)
(* session that stopped working waits for nobody.                          *)
(***************************************************************************)
SetSession(s) ==
    /\ Emit(WithSession(thread, s))
    /\ IF s = "starting"
       THEN UNCHANGED <<queued, memQueued>>
       ELSE queued' \in {queued, FALSE} /\ memQueued' \in {memQueued, FALSE}
    /\ waiting' = IF Alive(s) THEN waiting ELSE {}

SessionSet ==
    /\ RequireThread
    /\ \E s \in Statuses \ {"none"} : SetSession(s)
    /\ UNCHANGED <<open, hasText, asked, closed, row, owner, intents, sending, replies, past,
                   upsets>>

(* Mutant of RequestArrives: a request leaves a settled thread settled.    *)
RequestArrivesQuietly(r) ==
    /\ RequireThread
    /\ r \notin past.used
    /\ Emit(thread)
    /\ past' = [past EXCEPT !.used = @ \cup {r}]
    /\ asked' = asked \cup {r}
    /\ open' = open \cup {r}
    /\ row' = [a \in Approvals |-> IF a = r THEN "pending" ELSE row[a]]
    /\ waiting' = IF r \in AsyncQuestions THEN waiting ELSE waiting \cup {r}
    /\ UNCHANGED <<hasText, memQueued, queued, closed, owner, intents, sending, replies, upsets>>

(***************************************************************************)
(* approval.requested or user-input.requested: request ids are not reused. *)
(***************************************************************************)
RequestArrives(r) ==
    /\ RequireThread
    /\ r \notin past.used
    /\ Emit(Woken(thread))
    /\ past' = [past EXCEPT !.used = @ \cup {r}]
    /\ asked' = asked \cup {r}
    /\ open' = open \cup {r}
    /\ row' = [a \in Approvals |-> IF a = r THEN "pending" ELSE row[a]]
    /\ waiting' = IF r \in AsyncQuestions THEN waiting ELSE waiting \cup {r}
    /\ UNCHANGED <<hasText, memQueued, queued, closed, owner, intents, sending, replies, upsets>>

(***************************************************************************)
(* approval.resolved or user-input.resolved: the provider took an answer,  *)
(* or dropped the request with its turn.                                   *)
(***************************************************************************)
RequestResolved(r) ==
    /\ RequireThread
    /\ r \in (past.used \ closed) \ AsyncQuestions
    /\ Emit(thread)
    /\ Close({r})
    /\ row' = [a \in Approvals |-> IF a = r THEN "resolved" ELSE row[a]]
    /\ waiting' = waiting \ {r}
    /\ UNCHANGED <<hasText, memQueued, queued, asked, owner, intents, sending, replies, past,
                   upsets>>

(***************************************************************************)
(* Any other event of the thread.                                          *)
(***************************************************************************)
OtherActivity ==
    /\ RequireThread
    /\ scan
    /\ Emit(thread)
    /\ UNCHANGED <<memory, sql, agent, replies, past, upsets>>

(***************************************************************************)
(* So many activities that retainThreadActivities drops a request that is  *)
(* not an async question.                                                  *)
(***************************************************************************)
WindowRolls ==
    /\ RequireThread
    /\ Upset("roll")
    /\ \E dropped \in SUBSET (open \ AsyncQuestions) :
          dropped # {} /\ Forget(dropped)
    /\ Emit(thread)
    /\ UNCHANGED <<hasText, memQueued, sql, agent, replies>>

(***************************************************************************)
(* thread.revert.complete: the activities of the turns after the           *)
(* checkpoint are gone from SQL, and at least those from memory, whose     *)
(* list of checkpoints may be shorter.  The approval rows stay.            *)
(***************************************************************************)
RevertComplete ==
    /\ RequireThread
    /\ Upset("revert")
    /\ \E dropped \in SUBSET asked :
          /\ asked' = asked \ dropped
          /\ closed' = closed \ dropped
          /\ \E kept \in SUBSET (open \ dropped) : Forget(open \ kept)
    /\ queued' \in BOOLEAN /\ memQueued' \in {hasText, FALSE}
    /\ hasText' \in {hasText, FALSE}
    /\ Emit(thread)
    /\ UNCHANGED <<row, owner, agent, replies>>

-----------------------------------------------------------------------------
(***************************************************************************)
(* ProviderCommandReactor: one DrainableWorker fiber, events in order.     *)
(***************************************************************************)
Handles(kinds) ==
    /\ sending = NoReply
    /\ intents # << >>
    /\ Head(intents).is \in kinds

Handled == intents' = Tail(intents)

HasSession == thread.session \notin {"none", "stopped"}

(***************************************************************************)
(* Events of a thread whose shell is gone are dropped.                     *)
(***************************************************************************)
ThreadGone ==
    /\ thread.life # "live"
    /\ Handles({"start", "settled", "cleanup", "stop", "answer"})
    /\ Handled
    /\ UNCHANGED <<thread, memory, sql, waiting, sending, scan, replies, past, upsets>>

(***************************************************************************)
(* processTurnStartRequested: the session starts, or the attempt fails and *)
(* leaves it stopped or in error.  A settlement behind it in the queue was *)
(* made after the turn was requested.                                      *)
(***************************************************************************)
TurnStartReaches ==
    /\ thread.life = "live"
    /\ Handles({"start"})
    /\ Handled
    /\ IF thread.session = "running"
       THEN UNCHANGED <<thread, scan>>
       ELSE Emit(WithSession(thread, "starting"))
    /\ past' = [past EXCEPT !.engaged = \A i \in 2..Len(intents) : intents[i].is # "settled"]
    /\ UNCHANGED <<memory, sql, waiting, sending, replies, upsets>>

TurnStartFails ==
    /\ thread.life = "live"
    /\ Handles({"start"})
    /\ Handled
    /\ SetSession(IF thread.session = "stopped" THEN "stopped" ELSE "error")
    /\ past' = [past EXCEPT !.engaged = FALSE]
    /\ UNCHANGED <<open, hasText, asked, closed, row, owner, sending, replies, upsets>>

(* Mutant of OnlyIfSettled: the stop is conditional on the session only.   *)
OnlyIfIdle == ~Alive(thread.session) /\ ~HasQueuedTurnStart(memQueued)

(***************************************************************************)
(* The conditions of thread.session.stop with onlyIfSettled.               *)
(***************************************************************************)
OnlyIfSettled ==
    /\ thread.override = "settled"
    /\ ~Alive(thread.session)
    /\ ~HasQueuedTurnStart(memQueued)

(***************************************************************************)
(* thread.settled: if there is a session, dispatch a conditional stop,     *)
(* which comes back as an intent of its own if it is not rejected.         *)
(***************************************************************************)
CleanupAfterSettle ==
    /\ thread.life = "live"
    /\ Handles({"settled"})
    /\ IF HasSession /\ OnlyIfSettled
       THEN intents' = Append(Tail(intents), Intent("cleanup")) /\ Emit(thread)
       ELSE Handled /\ UNCHANGED <<thread, scan>>
    /\ UNCHANGED <<memory, sql, waiting, sending, replies, past, upsets>>

(***************************************************************************)
(* processSessionStopRequested: the provider session ends and is reported  *)
(* stopped, or the provider fails to stop it.                              *)
(***************************************************************************)
SessionStops ==
    /\ thread.life = "live"
    /\ Handles({"stop", "cleanup"})
    /\ Handled
    /\ SetSession("stopped")
    /\ past' = [past EXCEPT !.engaged = FALSE]
    /\ UNCHANGED <<open, hasText, asked, closed, row, owner, sending, replies, upsets>>

SessionStopFails ==
    /\ thread.life = "live"
    /\ HasSession
    /\ Handles({"stop", "cleanup"})
    /\ Handled
    /\ Emit(thread)
    /\ UNCHANGED <<memory, sql, waiting, sending, replies, past, upsets>>

(***************************************************************************)
(* The failure activities of a reply, with what each projection makes of   *)
(* them.  A stale failure ends the request; any other one gives a resolved *)
(* row back to the user, unless a terminal activity closed it meanwhile.   *)
(***************************************************************************)
StaleFailure(r) ==
    /\ Close({r})
    /\ IF r \in Approvals /\ row[r] = "pending"
       THEN row' = [row EXCEPT ![r] = "resolved"] /\ owner' = [owner EXCEPT ![r] = 0]
       ELSE UNCHANGED <<row, owner>>

(* Mutant of Restores: a failed reply gives nothing back.                  *)
RestoresNothing(r) == FALSE

Restores(r) == r \in Approvals /\ row[r] = "resolved" /\ r \in asked \ closed

ReplyFailure(r) ==
    /\ IF Restores(r)
       THEN row' = [row EXCEPT ![r] = "pending"] /\ owner' = [owner EXCEPT ![r] = 0]
       ELSE UNCHANGED <<row, owner>>
    /\ UNCHANGED <<open, closed>>

(***************************************************************************)
(* processApprovalResponseRequested and processUserInputResponseRequested  *)
(* up to the call of the provider: an approval SQL does not know is stale, *)
(* one that another reply resolved is reported already resolved (which     *)
(* only the read model takes for an end), and without a session the reply  *)
(* fails.                                                                  *)
(***************************************************************************)
ReplyUnknown ==
    LET i == Head(intents)
    IN  /\ Handles({"approve"})
        /\ row[i.req] = "none"
        /\ Handled
        /\ Emit(thread)
        /\ StaleFailure(i.req)
        /\ UNCHANGED <<hasText, memQueued, queued, asked, waiting, sending, replies, past, upsets>>

ReplyAlreadyResolved ==
    LET i == Head(intents)
    IN  /\ Handles({"approve"})
        /\ row[i.req] = "resolved"
        /\ owner[i.req] # i.reply
        /\ Handled
        /\ Emit(thread)
        /\ Forget({i.req})
        /\ UNCHANGED <<hasText, memQueued, sql, waiting, sending, replies, upsets>>

MaySend(i) ==
    i.is = "approve" => row[i.req] = "pending" \/ (row[i.req] = "resolved" /\ owner[i.req] = i.reply)

ReplyWithoutThread ==
    /\ thread.life # "live"
    /\ Handles({"approve"})
    /\ MaySend(Head(intents))
    /\ Handled
    /\ UNCHANGED <<thread, memory, sql, waiting, sending, scan, replies, past, upsets>>

ReplyWithoutSession ==
    /\ thread.life = "live"
    /\ Handles({"approve", "answer"})
    /\ MaySend(Head(intents))
    /\ ~HasSession
    /\ Handled
    /\ Emit(thread)
    /\ ReplyFailure(Head(intents).req)
    /\ UNCHANGED <<hasText, memQueued, queued, asked, waiting, sending, replies, past, upsets>>

SendReply ==
    /\ thread.life = "live"
    /\ Handles({"approve", "answer"})
    /\ MaySend(Head(intents))
    /\ HasSession
    /\ Handled
    /\ sending' = Head(intents)
    /\ UNCHANGED <<thread, memory, sql, waiting, scan, replies, past, upsets>>

(***************************************************************************)
(* The provider's answer to the call, any time later: taken, unknown to it *)
(* (stale), or failed.                                                     *)
(***************************************************************************)
ReplyTaken ==
    /\ sending # NoReply
    /\ sending.req \in waiting
    /\ waiting' = waiting \ {sending.req}
    /\ sending' = NoReply
    /\ UNCHANGED <<thread, memory, sql, intents, scan, replies, past, upsets>>

ReplyStale ==
    /\ sending # NoReply
    /\ sending.req \notin waiting
    /\ sending' = NoReply
    /\ Emit(thread)
    /\ StaleFailure(sending.req)
    /\ UNCHANGED <<hasText, memQueued, queued, asked, waiting, intents, replies, past, upsets>>

ReplyFails ==
    /\ sending # NoReply
    /\ sending' = NoReply
    /\ Emit(thread)
    /\ ReplyFailure(sending.req)
    /\ UNCHANGED <<hasText, memQueued, queued, asked, waiting, intents, replies, past, upsets>>

(***************************************************************************)
(* processDomainEventSafely: the failure activity of a reply could not be  *)
(* recorded, which is only logged.                                         *)
(***************************************************************************)
ReplyLost ==
    /\ sending # NoReply
    /\ Upset("loss")
    /\ sending' = NoReply
    /\ UNCHANGED <<thread, memory, sql, waiting, intents, scan, replies, past>>

-----------------------------------------------------------------------------
(***************************************************************************)
(* The daemon restarts.  getCommandReadModel loads the thread without its  *)
(* messages and activities, nothing replays to the reactor, the providers  *)
(* are gone; reconcileProviderSessions reports a session that was alive as *)
(* failed, or as starting when its turn is continued.                      *)
(***************************************************************************)
Restart ==
    /\ Upset("restart")
    /\ open' = {} /\ hasText' = FALSE /\ memQueued' = FALSE
    /\ waiting' = {} /\ intents' = << >> /\ sending' = NoReply
    /\ IF Alive(thread.session)
       THEN \E s \in {"error", "starting"} : Emit(WithSession(thread, s))
       ELSE Emit(thread)
    /\ past' = [past EXCEPT !.engaged = FALSE, !.forgotten = @ \cup open]
    /\ UNCHANGED <<sql, replies>>

Client ==
    \/ ThreadCreate \/ ThreadDelete \/ ThreadArchive \/ ThreadUnarchive
    \/ ThreadSettle \/ ThreadUnsettle \/ ThreadSnooze \/ ThreadUnsnooze
    \/ ThreadPin \/ ThreadUnpin
    \/ ThreadTurnStart \/ MessageUserAppend \/ HistoryImport \/ SessionStop
    \/ \E r \in Approvals : ApprovalRespond(r)
    \/ \E q \in Questions : UserInputRespond(q)
    \/ \E q \in AsyncQuestions : UserInputDismiss(q)

Provider ==
    \/ SessionSet
    \/ \E r \in Requests : RequestArrives(r) \/ RequestResolved(r)
    \/ OtherActivity \/ WindowRolls \/ RevertComplete

Reactor ==
    \/ ThreadGone
    \/ TurnStartReaches \/ TurnStartFails
    \/ CleanupAfterSettle \/ SessionStops \/ SessionStopFails
    \/ ReplyUnknown \/ ReplyAlreadyResolved \/ ReplyWithoutThread \/ ReplyWithoutSession
    \/ SendReply \/ ReplyTaken \/ ReplyStale \/ ReplyFails \/ ReplyLost

Next ==
    \/ Client
    \/ Provider
    \/ Reactor
    \/ ScanForSettlement \/ ThreadAutoSettle
    \/ GraceExpires
    \/ Restart

Spec == Init /\ [][Next]_vars

-----------------------------------------------------------------------------
(***************************************************************************)
(* Type correctness.                                                       *)
(***************************************************************************)
TypeOK ==
    /\ thread \in Thread
    /\ open \subseteq Requests /\ asked \subseteq Requests /\ closed \subseteq Requests
    /\ {hasText, memQueued, queued, scan} \subseteq BOOLEAN
    /\ row \in [Approvals -> {"none", "pending", "resolved"}]
    /\ owner \in [Approvals -> Nat]
    /\ waiting \subseteq Requests
    /\ intents \in Seq(Intents)
    /\ sending \in ReplyIntents \cup {NoReply}
    /\ replies \in Nat
    /\ past \in [used : SUBSET Requests, answered : SUBSET Requests,
                 forgotten : SUBSET Requests, twice : BOOLEAN, engaged : BOOLEAN]
    /\ upsets \in Nat

(***************************************************************************)
(* No request for the user is hidden in a settled row: whatever order      *)
(* settlements (manual, automatic, imported), requests, replies and their  *)
(* failures come in, a thread whose shell still counts a pending request   *)
(* is not settled.                                                         *)
(***************************************************************************)
SettledHidesNothing ==
    thread.life = "live" /\ thread.override = "settled" => Pending = {}

(***************************************************************************)
(* What is hidden all the same is a request the decider could not see: a   *)
(* restart or a full window dropped it from the read model, a revert did,  *)
(* or a reply that came second was reported as already handled, which      *)
(* ends the request for the decider (openRequests) but not for the SQL     *)
(* account, where the reply that came first may still fail.                *)
(***************************************************************************)
HidesOnlyForgotten ==
    thread.life = "live" /\ thread.override = "settled" => Pending \subseteq past.forgotten

(***************************************************************************)
(* No request is lost: as long as the provider is blocked on an approval   *)
(* and no reply to it is under way, the shell shows it.  Replying clears   *)
(* the row before the provider has taken the reply, so every way in which  *)
(* a reply ends has to put it back.                                        *)
(***************************************************************************)
UnderWay(r) ==
    \/ sending # NoReply /\ sending.req = r
    \/ \E i \in 1..Len(intents) : intents[i].is = "approve" /\ intents[i].req = r

NoRequestLost ==
    thread.life = "live" =>
        \A r \in waiting \cap Approvals : r \in PendingApprovals \/ UnderWay(r)

(***************************************************************************)
(* The twin accounts agree (comment of openRequests in decider.ts): the    *)
(* decider does not reject a settlement for open requests on a thread      *)
(* whose shell flags read as clear.                                        *)
(***************************************************************************)
ClearShellIsSettleable ==
    thread.life = "live" /\ Pending = {} => open \subseteq AsyncQuestions

(***************************************************************************)
(* A settled thread has no session at work, whichever of the settlement,   *)
(* the provider and a restart comes first.                                 *)
(***************************************************************************)
SettledHasNoLiveSession == thread.override = "settled" => ~Alive(thread.session)

(***************************************************************************)
(* An async question starts at most one turn, although the check and the   *)
(* answer are separated by restarts, settlements and dismissals.           *)
(***************************************************************************)
AsyncAnsweredOnce == ~past.twice

(***************************************************************************)
(* A pinned thread is not settled.  The one exception is the importer,     *)
(* which settles a thread a client may have pinned since its creation.     *)
(***************************************************************************)
PinnedIsNotSettled == thread.pinned /\ thread.override = "settled" => thread.imported

(***************************************************************************)
(* The clean-up after a settlement never stops the session of a turn that  *)
(* was started after it: settlement, conditional stop and the stop of the  *)
(* provider are three steps, and a client may re-engage between any two.   *)
(***************************************************************************)
CleanupSparesLaterTurns ==
    [][intents # << >> /\ Head(intents).is = "cleanup" /\ SessionStops => ~past.engaged]_vars

=============================================================================
