----------------------- MODULE ThreadLifecycleProofs -----------------------
(***************************************************************************)
(* Proofs about a thread's parked states and its requests, for any number  *)
(* of requests, replies, waiting intents and upsets, in four layers:       *)
(*   IInv      the thread's own fields: a settlement is refused while a    *)
(*             session is alive, a session coming alive ends it, pinning   *)
(*             promotes and settling unpins;                               *)
(*   Typed     the type of everything else;                                *)
(*   Accounts  the two accounts of the open requests, in memory and SQL;   *)
(*   and, each on its own over these, what a settled thread holds, the     *)
(*   clean-up behind a settlement, and the replies to blocked approvals.   *)
(***************************************************************************)
EXTENDS ThreadLifecycle, SequenceTheorems, TLAPS

ParkedWell(t) ==
    /\ t \in Thread
    /\ t.override = "settled" => ~Alive(t.session)
    /\ t.pinned /\ t.override = "settled" => t.imported

IInv == ParkedWell(thread)

-----------------------------------------------------------------------------
(* The projected events that keep a thread well parked whatever it is.     *)
LEMMA HarmlessEvents ==
    ASSUME NEW t, ParkedWell(t)
    PROVE  /\ \A b \in BOOLEAN : ParkedWell([t EXCEPT !.archived = b])
           /\ ParkedWell([t EXCEPT !.life = "deleted"])
           /\ \A why \in {"user", "activity"} : ParkedWell(Unsettled(t, why))
           /\ ParkedWell(Snoozed(t))
           /\ ParkedWell(Unsnoozed(t))
           /\ ParkedWell(Unpinned(t))
           /\ ParkedWell(Woken(t))
<1> USE DEF ParkedWell, Thread
<1>1. ParkedWell([t EXCEPT !.life = "deleted"]) /\ ParkedWell(Snoozed(t)) /\ ParkedWell(Unsnoozed(t))
  BY DEF Snoozed, Unsnoozed
<1>2. \A b \in BOOLEAN : ParkedWell([t EXCEPT !.archived = b])
  OBVIOUS
<1>3. \A why \in {"user", "activity"} : ParkedWell(Unsettled(t, why))
  BY DEF Unsettled
<1>4. ParkedWell(Unpinned(t))
  BY DEF Unpinned
<1>5. ParkedWell(Woken(t))
  BY DEF Woken, Unsettled
<1> QED
  BY <1>1, <1>2, <1>3, <1>4, <1>5

(* thread.session.set, whatever the session reports.                       *)
LEMMA SessionEvents ==
    ASSUME NEW t, ParkedWell(t), NEW s \in Statuses
    PROVE  ParkedWell(WithSession(t, s))
<1>1. CASE Alive(s)
  <2>1. Woken(t) \in Thread /\ Woken(t).override = "none"
    BY DEF Woken, Unsettled, ParkedWell, Thread
  <2>2. WithSession(t, s) = [Woken(t) EXCEPT !.session = s]
    BY <1>1 DEF WithSession, SessionIs
  <2> QED
    BY <2>1, <2>2 DEF ParkedWell, Thread
<1>2. CASE ~Alive(s)
  BY <1>2 DEF WithSession, SessionIs, ParkedWell, Thread
<1> QED
  BY <1>1, <1>2

(* Settling a thread whose session is not alive, by a client, the reactor  *)
(* or the importer.                                                        *)
LEMMA SettleKeeps ==
    ASSUME NEW t, ParkedWell(t), ~Alive(t.session)
    PROVE  /\ ParkedWell(Unsnoozed(Unpinned(Settled(t))))
           /\ ParkedWell([Settled(t) EXCEPT !.imported = TRUE])
<1>1. Settled(t) \in Thread /\ Settled(t).session = t.session
  BY DEF Settled, ParkedWell, Thread
<1>2. Unpinned(Settled(t)) \in Thread /\ ~Unpinned(Settled(t)).pinned /\ Unpinned(Settled(t)).session = t.session
  BY <1>1 DEF Unpinned, Thread
<1>3. ParkedWell(Unsnoozed(Unpinned(Settled(t))))
  BY <1>2 DEF Unsnoozed, ParkedWell, Thread
<1>4. ParkedWell([Settled(t) EXCEPT !.imported = TRUE])
  BY <1>1 DEF ParkedWell, Thread
<1> QED
  BY <1>3, <1>4

(* Pinning promotes: a settled thread is unsettled with it.                *)
LEMMA PinKeeps ==
    ASSUME NEW t, ParkedWell(t)
    PROVE  ParkedWell(Unsnoozed(Pinned(IF t.override = "settled" THEN Unsettled(t, "user") ELSE t)))
<1> DEFINE p == IF t.override = "settled" THEN Unsettled(t, "user") ELSE t
<1>1. p \in Thread /\ p.override # "settled"
  BY DEF Unsettled, ParkedWell, Thread
<1> HIDE DEF p
<1>2. Pinned(p) \in Thread /\ Pinned(p).override # "settled"
  BY <1>1 DEF Pinned, Thread
<1>3. ParkedWell(Unsnoozed(Pinned(p)))
  BY <1>2 DEF Unsnoozed, ParkedWell, Thread
<1> QED
  BY <1>3 DEF p

-----------------------------------------------------------------------------
(* A thread that does not exist is well parked.                            *)
LEMMA InitEstablishesIInv == Init => IInv
  BY DEF Init, IInv, ParkedWell, Fresh, Thread, Statuses, Alive

(* No command of a client parks a thread badly.                            *)
LEMMA ClientPreserves ==
    ASSUME IInv, Client
    PROVE  IInv'
<1> USE DEF IInv, Emit
<1>1. CASE ThreadCreate
  BY <1>1 DEF ThreadCreate, ParkedWell, Fresh, Thread, Statuses, Alive
<1>2. CASE ThreadDelete \/ ThreadArchive \/ ThreadUnarchive \/ ThreadUnsettle \/ ThreadSnooze
           \/ ThreadUnsnooze \/ ThreadUnpin
  BY <1>2, HarmlessEvents DEF ThreadDelete, ThreadArchive, ThreadUnarchive, ThreadUnsettle,
     ThreadSnooze, ThreadUnsnooze, ThreadUnpin
<1>3. CASE ThreadSettle
  BY <1>3, SettleKeeps DEF ThreadSettle, SettleEvents
<1>4. CASE HistoryImport
  BY <1>4, SettleKeeps DEF HistoryImport, Alive
<1>5. CASE ThreadPin
  BY <1>5, PinKeeps DEF ThreadPin
<1>6. CASE ThreadTurnStart
  BY <1>6, HarmlessEvents DEF ThreadTurnStart, TurnStartEvents
<1>7. CASE MessageUserAppend \/ SessionStop \/ (\E r \in Approvals : ApprovalRespond(r))
           \/ (\E q \in AsyncQuestions : UserInputDismiss(q))
  BY <1>7 DEF MessageUserAppend, SessionStop, ApprovalRespond, UserInputDismiss
<1>8. CASE \E q \in Questions : UserInputRespond(q)
  BY <1>8, HarmlessEvents DEF UserInputRespond, TurnStartEvents
<1> QED
  BY <1>1, <1>2, <1>3, <1>4, <1>5, <1>6, <1>7, <1>8 DEF Client

(* No command made of a provider event parks a thread badly.               *)
LEMMA ProviderPreserves ==
    ASSUME IInv, Provider
    PROVE  IInv'
<1> USE DEF IInv, Emit
<1>1. CASE SessionSet
  BY <1>1, SessionEvents DEF SessionSet, SetSession
<1>2. CASE \E r \in Requests : RequestArrives(r)
  BY <1>2, HarmlessEvents DEF RequestArrives
<1>3. CASE (\E r \in Requests : RequestResolved(r)) \/ OtherActivity \/ WindowRolls \/ RevertComplete
  BY <1>3 DEF RequestResolved, OtherActivity, WindowRolls, RevertComplete
<1> QED
  BY <1>1, <1>2, <1>3 DEF Provider

(* Nothing the provider command reactor does parks a thread badly.         *)
LEMMA ReactorPreserves ==
    ASSUME IInv, Reactor
    PROVE  IInv'
<1> USE DEF IInv, Emit
<1>s. {"starting", "stopped", "error"} \subseteq Statuses
  BY DEF Statuses
<1>1. CASE TurnStartReaches
  BY <1>1, <1>s, SessionEvents DEF TurnStartReaches
<1>2. CASE TurnStartFails
  <2>1. \E s \in {"stopped", "error"} : thread' = WithSession(thread, s)
    BY <1>2 DEF TurnStartFails, SetSession
  <2> QED
    BY <2>1, <1>s, SessionEvents
<1>3. CASE SessionStops
  BY <1>3, <1>s, SessionEvents DEF SessionStops, SetSession
<1>4. CASE ThreadGone \/ CleanupAfterSettle \/ SessionStopFails
  BY <1>4 DEF ThreadGone, CleanupAfterSettle, SessionStopFails
<1>5. CASE ReplyUnknown \/ ReplyAlreadyResolved \/ ReplyWithoutThread \/ ReplyWithoutSession \/ SendReply
           \/ ReplyTaken \/ ReplyStale \/ ReplyFails \/ ReplyLost
  BY <1>5 DEF ReplyUnknown, ReplyAlreadyResolved, ReplyWithoutThread, ReplyWithoutSession, SendReply,
     ReplyTaken, ReplyStale, ReplyFails, ReplyLost
<1> QED
  BY <1>1, <1>2, <1>3, <1>4, <1>5 DEF Reactor

(* Every step keeps the thread well parked.                                *)
LEMMA NextPreserves == IInv /\ [Next]_vars => IInv'
<1>1. SUFFICES ASSUME IInv, [Next]_vars PROVE IInv'
  OBVIOUS
<1>2. CASE UNCHANGED vars
  BY <1>1, <1>2 DEF vars, IInv
<1>3. CASE Client \/ Provider \/ Reactor
  BY <1>1, <1>3, ClientPreserves, ProviderPreserves, ReactorPreserves
<1>4. CASE ThreadAutoSettle
  BY <1>1, <1>4, SettleKeeps DEF ThreadAutoSettle, SettleEvents, IInv, Emit
<1>5. CASE ScanForSettlement \/ GraceExpires
  BY <1>1, <1>5 DEF ScanForSettlement, GraceExpires, IInv
<1>6. CASE Restart
  <2>1. thread' = thread \/ \E s \in {"error", "starting"} : thread' = WithSession(thread, s)
    BY <1>6 DEF Restart, Emit
  <2>2. {"error", "starting"} \subseteq Statuses
    BY DEF Statuses
  <2> QED
    BY <1>1, <2>1, <2>2, SessionEvents DEF IInv
<1> QED
  BY <1>1, <1>2, <1>3, <1>4, <1>5, <1>6 DEF Next

-----------------------------------------------------------------------------
(* The thread is well parked in every reachable state.                     *)
THEOREM Inductive == Spec => []IInv
  BY InitEstablishesIInv, NextPreserves, PTL DEF Spec

(* Whatever settles a thread and whatever its provider, a client, the      *)
(* reactor or a restart does, a settled thread has no session at work.     *)
THEOREM SettledIsIdle == Spec => []SettledHasNoLiveSession
<1>1. IInv => SettledHasNoLiveSession
  BY DEF IInv, ParkedWell, SettledHasNoLiveSession
<1> QED
  BY <1>1, Inductive, PTL

(* No interleaving of pinning with settlement, automatic settlement and    *)
(* unsettlement leaves a thread pinned and settled, the import excepted.   *)
THEOREM PinExcludesSettle == Spec => []PinnedIsNotSettled
<1>1. IInv => PinnedIsNotSettled
  BY DEF IInv, ParkedWell, PinnedIsNotSettled
<1> QED
  BY <1>1, Inductive, PTL

-----------------------------------------------------------------------------
(* The reactor's queue: what is appended to it and what is taken off it.   *)
LEMMA AppendIntent ==
    ASSUME NEW s \in Seq(Intents), NEW x \in Intents
    PROVE  /\ Append(s, x) \in Seq(Intents)
           /\ Len(Append(s, x)) = Len(s) + 1
           /\ Append(s, x)[Len(s) + 1] = x
           /\ \A i \in 1..Len(s) : Append(s, x)[i] = s[i]
  OBVIOUS

LEMMA TailIntents ==
    ASSUME NEW s \in Seq(Intents), s # << >>
    PROVE  /\ Len(s) \in Nat \ {0}
           /\ Head(s) = s[1] /\ Head(s) \in Intents
           /\ Tail(s) \in Seq(Intents)
           /\ Len(Tail(s)) = Len(s) - 1
           /\ \A i \in 1..Len(Tail(s)) : Tail(s)[i] = s[i + 1]
  OBVIOUS

(* Only replies name a request, and each kind one of its own.              *)
LEMMA ReplyIntentFacts ==
    ASSUME NEW i \in Intents
    PROVE  /\ i.is \in {"approve", "answer"} <=> i \in ReplyIntents
           /\ i \in ReplyIntents => i.req \in Requests /\ i.reply \in Nat
           /\ i.is = "approve" => i.req \in Approvals
           /\ i.is = "answer" => i.req \in Questions
  BY DEF Intents, ReplyIntents, Requests

(* The intents the commands enqueue.                                       *)
LEMMA EnqueuedIntents ==
    /\ \A kind \in {"start", "settled", "cleanup", "stop"} :
          Intent(kind) \in Intents /\ Intent(kind).is = kind
    /\ \A r \in Approvals, n \in Nat :
          /\ Approve(r, n) \in Intents
          /\ Approve(r, n).is = "approve" /\ Approve(r, n).req = r /\ Approve(r, n).reply = n
    /\ \A q \in Questions, n \in Nat :
          /\ Answer(q, n) \in Intents
          /\ Answer(q, n).is = "answer" /\ Answer(q, n).req = q /\ Answer(q, n).reply = n
  BY DEF Intent, Approve, Answer, Intents, ReplyIntents

(***************************************************************************)
(* The type invariant, in the parts that different actions touch; the type *)
(* of the thread record is part of ParkedWell.                             *)
(***************************************************************************)
SetsOK ==
    /\ open \subseteq Requests /\ asked \subseteq Requests /\ closed \subseteq Requests
    /\ waiting \subseteq Requests
    /\ past \in [used : SUBSET Requests, answered : SUBSET Requests,
                 forgotten : SUBSET Requests, twice : BOOLEAN, engaged : BOOLEAN]

RowsOK == row \in [Approvals -> {"none", "pending", "resolved"}] /\ owner \in [Approvals -> Nat]

FlagsOK == {hasText, memQueued, queued, scan} \subseteq BOOLEAN

QueueOK ==
    /\ intents \in Seq(Intents)
    /\ sending \in ReplyIntents \cup {NoReply}
    /\ replies \in Nat /\ upsets \in Nat

Typed == SetsOK /\ RowsOK /\ FlagsOK /\ QueueOK

LEMMA TypedInit == Init => Typed
<1>1. Init => SetsOK
  BY DEF Init, SetsOK
<1>2. Init => RowsOK
  BY DEF Init, RowsOK
<1>3. Init => FlagsOK
  BY DEF Init, FlagsOK
<1>4. Init => QueueOK
  BY DEF Init, QueueOK
<1> QED
  BY <1>1, <1>2, <1>3, <1>4 DEF Typed

(* Requests and the history: only requests enter them.                     *)
LEMMA SetsPreserved == ASSUME Typed, [Next]_vars PROVE SetsOK'
<1> USE DEF Typed, SetsOK
<1>1. CASE UNCHANGED vars
  BY <1>1 DEF vars
<1>2. CASE ThreadCreate
  BY <1>2 DEF ThreadCreate
<1>3. CASE ThreadDelete \/ ThreadArchive \/ ThreadUnarchive \/ ThreadUnsettle \/ ThreadSnooze
           \/ ThreadUnsnooze \/ ThreadPin \/ ThreadUnpin \/ OtherActivity \/ ScanForSettlement
  BY <1>3 DEF ThreadDelete, ThreadArchive, ThreadUnarchive, ThreadUnsettle, ThreadSnooze,
     ThreadUnsnooze, ThreadPin, ThreadUnpin, OtherActivity, ScanForSettlement, memory, sql, agent
<1>4. CASE ThreadSettle \/ ThreadAutoSettle
  BY <1>4 DEF ThreadSettle, ThreadAutoSettle, SettleEvents, Close
<1>5. CASE ThreadTurnStart \/ MessageUserAppend \/ HistoryImport \/ SessionStop \/ GraceExpires
  BY <1>5 DEF ThreadTurnStart, MessageUserAppend, HistoryImport, SessionStop, GraceExpires,
     memory, sql, agent
<1>6. CASE \E r \in Approvals : ApprovalRespond(r)
  BY <1>6 DEF ApprovalRespond, memory
<1>7. ASSUME NEW q \in Questions, UserInputRespond(q)
      PROVE  SetsOK'
  <2>1. CASE q \in AsyncQuestions \cap asked
    <3>1. past' = [past EXCEPT !.answered = @ \cup {q}, !.twice = @ \/ q \in past.answered]
      BY <1>7, <2>1 DEF UserInputRespond
    <3>2. q \in Requests /\ (past.twice \/ q \in past.answered) \in BOOLEAN
      BY DEF Requests
    <3>3. past' \in [used : SUBSET Requests, answered : SUBSET Requests,
                     forgotten : SUBSET Requests, twice : BOOLEAN, engaged : BOOLEAN]
      BY <3>1, <3>2
    <3>4. UNCHANGED <<asked, waiting>> /\ open' = open \ {q} /\ closed' = closed \cup {q}
      BY <1>7, <2>1 DEF UserInputRespond, Close
    <3> QED
      BY <3>2, <3>3, <3>4
  <2>2. CASE q \notin AsyncQuestions \cap asked
    BY <1>7, <2>2 DEF UserInputRespond, memory, sql
  <2> QED
    BY <2>1, <2>2
<1>8. CASE \E q \in AsyncQuestions : UserInputDismiss(q)
  BY <1>8 DEF UserInputDismiss, Close, agent, Requests, Questions
<1>9. CASE SessionSet
  BY <1>9 DEF SessionSet, SetSession
<1>10. CASE \E r \in Requests : RequestArrives(r)
  BY <1>10 DEF RequestArrives
<1>11. CASE \E r \in Requests : RequestResolved(r)
  BY <1>11 DEF RequestResolved, Close
<1>12. CASE WindowRolls
  BY <1>12 DEF WindowRolls, Forget, sql, agent
<1>13. CASE RevertComplete
  BY <1>13 DEF RevertComplete, Forget, agent
<1>14. CASE ThreadGone \/ TurnStartReaches \/ TurnStartFails \/ CleanupAfterSettle \/ SessionStops
            \/ SessionStopFails
  BY <1>14 DEF ThreadGone, TurnStartReaches, TurnStartFails, CleanupAfterSettle, SessionStops,
     SessionStopFails, SetSession, memory, sql
<1>15. CASE ReplyUnknown \/ ReplyAlreadyResolved \/ ReplyWithoutSession
  <2>1. intents # << >> /\ Head(intents).is \in {"approve", "answer"}
    BY <1>15 DEF ReplyUnknown, ReplyAlreadyResolved, ReplyWithoutSession, Handles
  <2>2. Head(intents).req \in Requests
    BY <2>1, TailIntents, ReplyIntentFacts DEF QueueOK
  <2> QED
    BY <1>15, <2>2 DEF ReplyUnknown, ReplyAlreadyResolved, ReplyWithoutSession, Handled, StaleFailure,
       ReplyFailure, Close, Forget, sql
<1>16. CASE ReplyWithoutThread \/ SendReply \/ ReplyTaken \/ ReplyLost
  BY <1>16 DEF ReplyWithoutThread, SendReply, ReplyTaken, ReplyLost, memory, sql
<1>17. CASE ReplyStale \/ ReplyFails
  <2>1. sending \in Intents /\ sending.req \in Requests
    BY <1>17, ReplyIntentFacts DEF ReplyStale, ReplyFails, QueueOK, Intents
  <2> QED
    BY <1>17, <2>1 DEF ReplyStale, ReplyFails, StaleFailure, ReplyFailure, Close
<1>18. CASE Restart
  BY <1>18 DEF Restart, sql
<1> QED
  BY <1>1, <1>2, <1>3, <1>4, <1>5, <1>6, <1>7, <1>8, <1>9, <1>10, <1>11, <1>12, <1>13, <1>14, <1>15,
     <1>16, <1>17, <1>18 DEF Next, Client, Provider, Reactor

(* The approval rows and their owners.                                     *)
LEMMA RowsPreserved == ASSUME Typed, [Next]_vars PROVE RowsOK'
<1> USE DEF Typed, RowsOK
<1>1. CASE UNCHANGED vars
  BY <1>1 DEF vars
<1>2. CASE ThreadCreate
  BY <1>2 DEF ThreadCreate
<1>3. CASE ThreadDelete \/ ThreadArchive \/ ThreadUnarchive \/ ThreadUnsettle \/ ThreadSnooze
           \/ ThreadUnsnooze \/ ThreadPin \/ ThreadUnpin \/ OtherActivity \/ ScanForSettlement
           \/ ThreadSettle \/ ThreadAutoSettle
  BY <1>3 DEF ThreadDelete, ThreadArchive, ThreadUnarchive, ThreadUnsettle, ThreadSnooze,
     ThreadUnsnooze, ThreadPin, ThreadUnpin, OtherActivity, ScanForSettlement, ThreadSettle,
     ThreadAutoSettle, SettleEvents, sql
<1>4. CASE ThreadTurnStart \/ MessageUserAppend \/ HistoryImport \/ SessionStop \/ GraceExpires
           \/ (\E q \in Questions : UserInputRespond(q)) \/ (\E q \in AsyncQuestions : UserInputDismiss(q))
  BY <1>4 DEF ThreadTurnStart, MessageUserAppend, HistoryImport, SessionStop, GraceExpires,
     UserInputRespond, UserInputDismiss, sql
<1>5. CASE \E r \in Approvals : ApprovalRespond(r)
  BY <1>5 DEF ApprovalRespond, QueueOK
<1>6. CASE SessionSet \/ WindowRolls \/ RevertComplete \/ Restart
  BY <1>6 DEF SessionSet, WindowRolls, RevertComplete, Restart, sql
<1>7. CASE \E r \in Requests : RequestArrives(r) \/ RequestResolved(r)
  BY <1>7 DEF RequestArrives, RequestResolved
<1>8. CASE ThreadGone \/ TurnStartReaches \/ TurnStartFails \/ CleanupAfterSettle \/ SessionStops
           \/ SessionStopFails \/ ReplyAlreadyResolved \/ ReplyWithoutThread \/ SendReply \/ ReplyTaken
           \/ ReplyLost
  BY <1>8 DEF ThreadGone, TurnStartReaches, TurnStartFails, CleanupAfterSettle, SessionStops,
     SessionStopFails, ReplyAlreadyResolved, ReplyWithoutThread, SendReply, ReplyTaken, ReplyLost, sql
<1>9. CASE ReplyUnknown \/ ReplyWithoutSession \/ ReplyStale \/ ReplyFails
  BY <1>9 DEF ReplyUnknown, ReplyWithoutSession, ReplyStale, ReplyFails, StaleFailure, ReplyFailure
<1> QED
  BY <1>1, <1>2, <1>3, <1>4, <1>5, <1>6, <1>7, <1>8, <1>9 DEF Next, Client, Provider, Reactor

(* The flags of the queued message and of the settlement scan.             *)
LEMMA FlagsPreserved == ASSUME Typed, [Next]_vars PROVE FlagsOK'
<1> USE DEF Typed, FlagsOK
<1>1. CASE UNCHANGED vars
  BY <1>1 DEF vars
<1>2. CASE ThreadCreate \/ MessageUserAppend \/ GraceExpires \/ ScanForSettlement
  BY <1>2 DEF ThreadCreate, Emit, MessageUserAppend, GraceExpires, ScanForSettlement, memory, sql
<1>3. CASE ThreadDelete \/ ThreadArchive \/ ThreadUnarchive \/ ThreadUnsettle \/ ThreadSnooze
           \/ ThreadUnsnooze \/ ThreadPin \/ ThreadUnpin \/ OtherActivity
           \/ ThreadSettle \/ ThreadAutoSettle
  BY <1>3 DEF ThreadDelete, ThreadArchive, ThreadUnarchive, ThreadUnsettle, ThreadSnooze,
     ThreadUnsnooze, ThreadPin, ThreadUnpin, OtherActivity, ThreadSettle,
     ThreadAutoSettle, SettleEvents, Emit, memory, sql
<1>4. CASE ThreadTurnStart \/ \E q \in Questions : UserInputRespond(q)
  BY <1>4 DEF ThreadTurnStart, UserInputRespond, TurnStartEvents, Emit, memory, sql
<1>5. CASE HistoryImport \/ SessionStop \/ (\E q \in AsyncQuestions : UserInputDismiss(q))
           \/ (\E r \in Approvals : ApprovalRespond(r))
  BY <1>5 DEF HistoryImport, SessionStop, UserInputDismiss, ApprovalRespond, Emit, memory, sql
<1>6. CASE SessionSet \/ TurnStartFails \/ SessionStops
  BY <1>6 DEF SessionSet, TurnStartFails, SessionStops, SetSession, Emit
<1>7. CASE WindowRolls \/ RevertComplete \/ Restart
  BY <1>7 DEF WindowRolls, RevertComplete, Restart, Emit, sql
<1>8. CASE \E r \in Requests : RequestArrives(r) \/ RequestResolved(r)
  BY <1>8 DEF RequestArrives, RequestResolved, Emit
<1>9. CASE ThreadGone \/ TurnStartReaches \/ CleanupAfterSettle \/ SessionStopFails
  BY <1>9 DEF ThreadGone, TurnStartReaches, CleanupAfterSettle, SessionStopFails, Emit, memory, sql
<1>10. CASE ReplyUnknown \/ ReplyAlreadyResolved \/ ReplyWithoutThread \/ ReplyWithoutSession \/ SendReply
           \/ ReplyTaken \/ ReplyStale \/ ReplyFails \/ ReplyLost
  BY <1>10 DEF ReplyUnknown, ReplyAlreadyResolved, ReplyWithoutThread, ReplyWithoutSession, SendReply,
     ReplyTaken, ReplyStale, ReplyFails, ReplyLost, Emit, memory, sql
<1> QED
  BY <1>1, <1>2, <1>3, <1>4, <1>5, <1>6, <1>7, <1>8, <1>9, <1>10 DEF Next, Client, Provider, Reactor

(* What waits for the reactor, and the reply it has handed over.           *)
LEMMA QueuePreserved == ASSUME Typed, [Next]_vars PROVE QueueOK'
<1> USE DEF Typed, QueueOK
<1>1. CASE UNCHANGED vars
  BY <1>1 DEF vars
<1>2. CASE ThreadCreate \/ ThreadDelete \/ ThreadArchive \/ ThreadUnarchive \/ ThreadUnsettle
           \/ ThreadSnooze \/ ThreadUnsnooze \/ ThreadPin \/ ThreadUnpin \/ OtherActivity
           \/ ScanForSettlement \/ MessageUserAppend \/ GraceExpires
  BY <1>2 DEF ThreadCreate, ThreadDelete, ThreadArchive, ThreadUnarchive, ThreadUnsettle, ThreadSnooze,
     ThreadUnsnooze, ThreadPin, ThreadUnpin, OtherActivity, ScanForSettlement, MessageUserAppend,
     GraceExpires, agent
<1>3. CASE ThreadSettle \/ ThreadAutoSettle \/ HistoryImport \/ SessionStop
  BY <1>3, AppendIntent, EnqueuedIntents DEF ThreadSettle, ThreadAutoSettle, SettleEvents, HistoryImport,
     SessionStop, Enqueue
<1>4. CASE ThreadTurnStart
  BY <1>4, AppendIntent, EnqueuedIntents DEF ThreadTurnStart, TurnStartEvents, Enqueue
<1>q. ASSUME NEW q \in Questions, UserInputRespond(q)
      PROVE  QueueOK'
  <2>1. replies' = replies + 1 /\ sending' = sending /\ upsets' = upsets
    BY <1>q, Zenon DEF UserInputRespond
  <2>2. \E x \in {Intent("start"), Answer(q, replies + 1)} : intents' = Append(intents, x)
    BY <1>q DEF UserInputRespond, TurnStartEvents, Enqueue
  <2>3. {Intent("start"), Answer(q, replies + 1)} \subseteq Intents
    BY EnqueuedIntents
  <2> QED
    BY <2>1, <2>2, <2>3, AppendIntent
<1>5. CASE \E r \in Approvals : ApprovalRespond(r)
  BY <1>5, AppendIntent, EnqueuedIntents DEF ApprovalRespond, Enqueue
<1>6. CASE (\E q \in AsyncQuestions : UserInputDismiss(q)) \/ SessionSet
           \/ (\E r \in Requests : RequestArrives(r) \/ RequestResolved(r))
  BY <1>6 DEF UserInputDismiss, SessionSet, RequestArrives, RequestResolved, agent
<1>u. CASE WindowRolls \/ RevertComplete
  <2>1. UNCHANGED <<intents, sending, replies>> /\ upsets' = upsets + 1
    BY <1>u DEF WindowRolls, RevertComplete, Upset, agent
  <2> QED
    BY <2>1
<1>7. CASE ThreadGone \/ TurnStartReaches \/ TurnStartFails \/ SessionStops \/ SessionStopFails
           \/ ReplyUnknown \/ ReplyAlreadyResolved \/ ReplyWithoutThread \/ ReplyWithoutSession
  <2>1. intents # << >> /\ intents' = Tail(intents) /\ UNCHANGED <<sending, replies, upsets>>
    BY <1>7 DEF ThreadGone, TurnStartReaches, TurnStartFails, SessionStops, SessionStopFails,
       ReplyUnknown, ReplyAlreadyResolved, ReplyWithoutThread, ReplyWithoutSession, Handles, Handled
  <2> QED
    BY <2>1, TailIntents
<1>8. CASE CleanupAfterSettle
  <2>1. intents # << >> /\ UNCHANGED <<sending, replies, upsets>>
    BY <1>8 DEF CleanupAfterSettle, Handles
  <2>2. intents' \in {Tail(intents), Append(Tail(intents), Intent("cleanup"))}
    BY <1>8 DEF CleanupAfterSettle, Handled
  <2>3. Tail(intents) \in Seq(Intents) /\ Append(Tail(intents), Intent("cleanup")) \in Seq(Intents)
    BY <2>1, TailIntents, AppendIntent, EnqueuedIntents
  <2> QED
    BY <2>1, <2>2, <2>3
<1>9. CASE SendReply
  <2>1. intents # << >> /\ Head(intents).is \in {"approve", "answer"} /\ UNCHANGED <<replies, upsets>>
        /\ intents' = Tail(intents) /\ sending' = Head(intents)
    BY <1>9 DEF SendReply, Handles, Handled
  <2> QED
    BY <2>1, TailIntents, ReplyIntentFacts
<1>10. CASE ReplyTaken \/ ReplyStale \/ ReplyFails \/ ReplyLost \/ Restart
  <2>1. sending' = NoReply /\ replies' = replies /\ (intents' = intents \/ intents' = << >>)
    BY <1>10 DEF ReplyTaken, ReplyStale, ReplyFails, ReplyLost, Restart
  <2>2. upsets' \in {upsets, upsets + 1}
    BY <1>10 DEF ReplyTaken, ReplyStale, ReplyFails, ReplyLost, Restart, Upset
  <2>3. << >> \in Seq(Intents)
    BY EmptySeq
  <2>s. intents' \in Seq(Intents)
    BY <2>1, <2>3, Zenon
  <2>4. replies' \in Nat /\ upsets' \in Nat
    BY <2>1, <2>2
  <2> QED
    BY <2>1, <2>s, <2>4
<1> QED
  BY <1>1, <1>2, <1>3, <1>4, <1>q, <1>5, <1>6, <1>u, <1>7, <1>8, <1>9, <1>10 DEF Next, Client, Provider, Reactor

(* Type correctness, whatever the requests and the bounds.                 *)
THEOREM TypeCorrect == Spec => []TypeOK
<1>1. Init => Typed
  BY TypedInit
<1>2. Typed /\ [Next]_vars => Typed'
  BY SetsPreserved, RowsPreserved, FlagsPreserved, QueuePreserved DEF Typed
<1>3. IInv /\ Typed => TypeOK
  BY DEF IInv, ParkedWell, Typed, SetsOK, RowsOK, FlagsOK, QueueOK, TypeOK
<1> QED
  BY <1>1, <1>2, <1>3, Inductive, PTL DEF Spec

-----------------------------------------------------------------------------
(***************************************************************************)
(* The accounts of requests.  A request is known once it has been made,    *)
(* and known for good: ids are not reused, whatever a revert, a restart or *)
(* a new incarnation of the thread forgets.                                *)
(***************************************************************************)
InQueue(s) == {s[i] : i \in 1..Len(s)}

KnownSets == open \cup asked \cup closed \cup past.answered \subseteq past.used

KnownReplies ==
    /\ \A i \in InQueue(intents) : i \in ReplyIntents => i.req \in past.used
    /\ sending # NoReply => sending.req \in past.used

LEMMA QueueElements ==
    ASSUME NEW s \in Seq(Intents)
    PROVE  /\ \A x \in Intents : InQueue(Append(s, x)) = InQueue(s) \cup {x}
           /\ s # << >> => /\ Head(s) \in InQueue(s)
                           /\ InQueue(Tail(s)) \subseteq InQueue(s)
                           /\ InQueue(s) = {Head(s)} \cup InQueue(Tail(s))
<1>1. ASSUME NEW x \in Intents PROVE InQueue(Append(s, x)) = InQueue(s) \cup {x}
  <2>1. 1..Len(Append(s, x)) = (1..Len(s)) \cup {Len(s) + 1}
    BY AppendIntent
  <2> QED
    BY <2>1, AppendIntent DEF InQueue
<1>2. ASSUME s # << >>
      PROVE  Head(s) \in InQueue(s) /\ InQueue(Tail(s)) \subseteq InQueue(s)
             /\ InQueue(s) = {Head(s)} \cup InQueue(Tail(s))
  <2>1. Head(s) = s[1] /\ 1 \in 1..Len(s)
    BY <1>2, TailIntents
  <2>2. ASSUME NEW i \in 1..Len(Tail(s))
        PROVE  i + 1 \in 1..Len(s) /\ Tail(s)[i] = s[i + 1]
    BY <1>2, TailIntents
  <2>3. ASSUME NEW i \in 1..Len(s), i # 1
        PROVE  i - 1 \in 1..Len(Tail(s)) /\ Tail(s)[i - 1] = s[i]
    BY <1>2, <2>3, TailIntents
  <2> QED
    BY <2>1, <2>2, <2>3 DEF InQueue
<1> QED
  BY <1>1, <1>2

(* A reply leaves the queue for the provider, nothing else does.           *)
LEMMA SendingComesFromQueue ==
    ASSUME Typed, [Next]_vars
    PROVE  sending' \in {sending, NoReply} \/ (sending' \in InQueue(intents) /\ sending' \in ReplyIntents)
<1>1. CASE SendReply
  <2>1. intents # << >> /\ Head(intents).is \in {"approve", "answer"} /\ sending' = Head(intents)
    BY <1>1 DEF SendReply, Handles
  <2> QED
    BY <2>1, TailIntents, ReplyIntentFacts, QueueElements DEF Typed, QueueOK
<1>2. CASE UNCHANGED vars
  BY <1>2 DEF vars
<1>3. CASE Client
  BY <1>3 DEF Client, ThreadCreate, ThreadDelete, ThreadArchive, ThreadUnarchive, ThreadSettle, SettleEvents,
     ThreadUnsettle, ThreadSnooze, ThreadUnsnooze, ThreadPin, ThreadUnpin, ThreadTurnStart, MessageUserAppend,
     HistoryImport, SessionStop, ApprovalRespond, UserInputRespond, UserInputDismiss, agent
<1>4. CASE Provider \/ ScanForSettlement \/ ThreadAutoSettle \/ GraceExpires \/ Restart
  BY <1>4 DEF Provider, SessionSet, RequestArrives, RequestResolved, OtherActivity, WindowRolls, RevertComplete,
     ScanForSettlement, ThreadAutoSettle, SettleEvents, GraceExpires, Restart, agent
<1>5. CASE Reactor /\ ~SendReply
  BY <1>5 DEF Reactor, ThreadGone, TurnStartReaches, TurnStartFails, CleanupAfterSettle, SessionStops,
     SessionStopFails, ReplyUnknown, ReplyAlreadyResolved, ReplyWithoutThread, ReplyWithoutSession,
     ReplyTaken, ReplyStale, ReplyFails, ReplyLost
<1> QED
  BY <1>1, <1>2, <1>3, <1>4, <1>5 DEF Next

(* Only replies to known requests and events of the thread are enqueued.   *)
LEMMA QueueGrowth ==
    ASSUME Typed, [Next]_vars
    PROVE  \A i \in InQueue(intents') : i \in InQueue(intents) \/ i \notin ReplyIntents \/ i.req \in past.used
<1> USE DEF Typed, QueueOK
<1>n. \A kind \in {"start", "settled", "cleanup", "stop"} : Intent(kind) \notin ReplyIntents
  BY EnqueuedIntents, ReplyIntentFacts
<1>1. CASE intents' = intents
  BY <1>1
<1>2. CASE intents # << >> /\ intents' = Tail(intents)
  BY <1>2, QueueElements
<1>3. CASE \E kind \in {"start", "settled", "stop"} : intents' = Append(intents, Intent(kind))
  BY <1>3, <1>n, EnqueuedIntents, QueueElements
<1>4. CASE intents # << >> /\ intents' = Append(Tail(intents), Intent("cleanup"))
  <2>1. InQueue(intents') = InQueue(Tail(intents)) \cup {Intent("cleanup")}
    <3>1. Tail(intents) \in Seq(Intents) /\ Intent("cleanup") \in Intents
      BY <1>4, TailIntents, EnqueuedIntents
    <3> QED
      BY <1>4, <3>1, QueueElements
  <2> QED
    BY <1>4, <1>n, <2>1, QueueElements
<1>5. CASE \E r \in Approvals : ApprovalRespond(r)
  BY <1>5, EnqueuedIntents, QueueElements DEF ApprovalRespond, Enqueue
<1>6. ASSUME NEW q \in Questions, UserInputRespond(q)
      PROVE  \A i \in InQueue(intents') : i \in InQueue(intents) \/ i \notin ReplyIntents \/ i.req \in past.used
  <2>1. intents' = Append(intents, Intent("start")) \/ intents' = Append(intents, Answer(q, replies + 1))
    BY <1>6 DEF UserInputRespond, TurnStartEvents, Enqueue
  <2>2. q \in past.used
    BY <1>6 DEF UserInputRespond
  <2>3. CASE intents' = Append(intents, Intent("start"))
    BY <1>n, <2>3, EnqueuedIntents, QueueElements
  <2>4. CASE intents' = Append(intents, Answer(q, replies + 1))
    <3>1. Answer(q, replies + 1) \in Intents /\ Answer(q, replies + 1).req = q
      BY EnqueuedIntents
    <3> QED
      BY <2>2, <2>4, <3>1, QueueElements
  <2> QED
    BY <2>1, <2>3, <2>4
<1>7. CASE intents' = << >>
  BY <1>7 DEF InQueue
<1>8. ASSUME Client, \A r \in Approvals : ~ApprovalRespond(r), \A q \in Questions : ~UserInputRespond(q)
      PROVE  \/ intents' = intents
             \/ \E kind \in {"start", "settled", "stop"} : intents' = Append(intents, Intent(kind))
  BY <1>8 DEF Client, ThreadCreate, ThreadDelete, ThreadArchive, ThreadUnarchive, ThreadSettle, SettleEvents,
     ThreadUnsettle, ThreadSnooze, ThreadUnsnooze, ThreadPin, ThreadUnpin, ThreadTurnStart, TurnStartEvents,
     MessageUserAppend, HistoryImport, SessionStop, UserInputDismiss, Enqueue, agent
<1>9. ASSUME Provider \/ ScanForSettlement \/ ThreadAutoSettle \/ GraceExpires \/ Restart \/ UNCHANGED vars
      PROVE  \/ intents' = intents \/ intents' = << >>
             \/ \E kind \in {"start", "settled", "stop"} : intents' = Append(intents, Intent(kind))
  BY <1>9 DEF Provider, SessionSet, RequestArrives, RequestResolved, OtherActivity, WindowRolls, RevertComplete,
     ScanForSettlement, ThreadAutoSettle, SettleEvents, Enqueue, GraceExpires, Restart, vars, agent
<1>10. ASSUME Reactor
       PROVE  \/ intents' = intents
              \/ intents # << >> /\ intents' = Tail(intents)
              \/ intents # << >> /\ intents' = Append(Tail(intents), Intent("cleanup"))
  BY <1>10 DEF Reactor, ThreadGone, TurnStartReaches, TurnStartFails, CleanupAfterSettle, SessionStops,
     SessionStopFails, ReplyUnknown, ReplyAlreadyResolved, ReplyWithoutThread, ReplyWithoutSession, SendReply,
     ReplyTaken, ReplyStale, ReplyFails, ReplyLost, Handles, Handled
<1> QED
  BY <1>1, <1>2, <1>3, <1>4, <1>5, <1>6, <1>7, <1>8, <1>9, <1>10 DEF Next

(* What the projected events do to the override and the life of a thread.  *)
LEMMA ThreadEvents ==
    ASSUME NEW t \in Thread
    PROVE  /\ Woken(t) \in Thread /\ Woken(t).override # "settled" /\ Woken(t).life = t.life
           /\ Unsnoozed(Woken(t)).override # "settled" /\ Unsnoozed(Woken(t)).life = t.life
           /\ \A s \in Statuses :
                 /\ WithSession(t, s).override \in {t.override, "none"}
                 /\ WithSession(t, s).life = t.life
                 /\ Alive(s) => WithSession(t, s).override # "settled"
           /\ \A why \in {"user", "activity"} :
                 Unsettled(t, why).override # "settled" /\ Unsettled(t, why).life = t.life
           /\ \A u \in {Snoozed(t), Unsnoozed(t), Unpinned(t)} : u.override = t.override /\ u.life = t.life
           /\ Unsnoozed(Unpinned(Settled(t))).life = t.life
<1>1. Woken(t) \in Thread /\ Woken(t).override # "settled" /\ Woken(t).life = t.life
  BY DEF Woken, Unsettled, Thread
<1>2. Unsnoozed(Woken(t)).override # "settled" /\ Unsnoozed(Woken(t)).life = t.life
  BY <1>1 DEF Unsnoozed, Thread
<1>3. ASSUME NEW s \in Statuses
      PROVE  /\ WithSession(t, s).override \in {t.override, "none"}
             /\ WithSession(t, s).life = t.life
             /\ Alive(s) => WithSession(t, s).override # "settled"
  <2>1. CASE Alive(s)
    <3>1. WithSession(t, s) = [Woken(t) EXCEPT !.session = s]
      BY <2>1 DEF WithSession, SessionIs
    <3>2. WithSession(t, s).override = Woken(t).override /\ WithSession(t, s).life = Woken(t).life
      BY <1>1, <3>1 DEF Thread
    <3>3. Woken(t).override \in {t.override, "none"}
      BY DEF Woken, Unsettled, Thread
    <3> QED
      BY <1>1, <3>2, <3>3
  <2>2. CASE ~Alive(s)
    BY <2>2 DEF WithSession, SessionIs, Thread
  <2> QED
    BY <2>1, <2>2
<1>4. \A why \in {"user", "activity"} :
         Unsettled(t, why).override # "settled" /\ Unsettled(t, why).life = t.life
  BY DEF Unsettled, Thread
<1>5. \A u \in {Snoozed(t), Unsnoozed(t), Unpinned(t)} : u.override = t.override /\ u.life = t.life
  BY DEF Snoozed, Unsnoozed, Unpinned, Thread
<1>6. Unsnoozed(Unpinned(Settled(t))).life = t.life
  BY DEF Snoozed, Unsnoozed, Unpinned, Settled, Thread
<1> QED
  BY <1>1, <1>2, <1>3, <1>4, <1>5, <1>6

(* Only a settlement settles, and a settled thread that stays settled      *)
(* started no turn and heard of no request or live session.                *)
LEMMA OverrideKept ==
    ASSUME IInv, [Next]_vars, ~ThreadSettle, ~ThreadAutoSettle, ~HistoryImport, thread'.override = "settled"
    PROVE  /\ thread.override = "settled"
           /\ ~ThreadTurnStart /\ \A r \in Requests : ~RequestArrives(r)
           /\ \A q \in Questions : UserInputRespond(q) => q \notin AsyncQuestions \cap asked
<1> USE DEF IInv, ParkedWell
<1>t. thread \in Thread
  OBVIOUS
<1>1. ~ThreadTurnStart /\ \A r \in Requests : ~RequestArrives(r)
  BY <1>t, ThreadEvents DEF ThreadTurnStart, TurnStartEvents, RequestArrives, Emit
<1>2. ASSUME NEW q \in Questions, UserInputRespond(q)
      PROVE  q \notin AsyncQuestions \cap asked /\ thread.override = "settled"
  BY <1>t, <1>2, ThreadEvents DEF UserInputRespond, TurnStartEvents, Emit
<1>3. ASSUME UNCHANGED thread PROVE thread.override = "settled"
  BY <1>3
<1>4. ASSUME \E s \in Statuses : thread' = WithSession(thread, s)
      PROVE  thread.override = "settled"
  BY <1>t, <1>4, ThreadEvents
<1>5. CASE ThreadCreate
  BY <1>5 DEF ThreadCreate, Fresh, Emit
<1>6. ASSUME ThreadDelete \/ ThreadArchive \/ ThreadUnarchive \/ ThreadSnooze \/ ThreadUnsnooze \/ ThreadUnpin
      PROVE  thread.override = "settled"
  <2>1. \/ thread' \in {Snoozed(thread), Unsnoozed(thread), Unpinned(thread)}
        \/ thread' = [thread EXCEPT !.life = "deleted"]
        \/ thread' = [thread EXCEPT !.archived = TRUE]
        \/ thread' = [thread EXCEPT !.archived = FALSE]
    BY <1>6 DEF ThreadDelete, ThreadArchive, ThreadUnarchive, ThreadSnooze, ThreadUnsnooze, ThreadUnpin, Emit
  <2>2. /\ [thread EXCEPT !.archived = TRUE].override = thread.override
        /\ [thread EXCEPT !.archived = FALSE].override = thread.override
    BY <1>t DEF Thread
  <2>3. [thread EXCEPT !.life = "deleted"].override = thread.override
    BY <1>t DEF Thread
  <2> QED
    BY <1>t, <2>1, <2>2, <2>3, ThreadEvents
<1>7. CASE ThreadUnsettle
  BY <1>t, <1>7, ThreadEvents DEF ThreadUnsettle, Emit
<1>8. CASE ThreadPin
  <2> DEFINE p == IF thread.override = "settled" THEN Unsettled(thread, "user") ELSE thread
  <2>1. p \in Thread /\ p.override # "settled"
    BY <1>t DEF Unsettled, Thread
  <2>2. thread' = Unsnoozed(Pinned(p))
    BY <1>8 DEF ThreadPin, Emit
  <2> HIDE DEF p
  <2>3. Pinned(p) \in Thread /\ Pinned(p).override = p.override
    BY <2>1 DEF Pinned, Thread
  <2> QED
    BY <2>1, <2>2, <2>3, ThreadEvents
<1>9. ASSUME MessageUserAppend \/ SessionStop \/ (\E r \in Approvals : ApprovalRespond(r))
             \/ (\E q \in AsyncQuestions : UserInputDismiss(q)) \/ (\E r \in Requests : RequestResolved(r))
             \/ OtherActivity \/ WindowRolls \/ RevertComplete \/ ThreadGone \/ CleanupAfterSettle
             \/ SessionStopFails \/ ReplyUnknown \/ ReplyAlreadyResolved \/ ReplyWithoutThread
             \/ ReplyWithoutSession \/ SendReply \/ ReplyTaken \/ ReplyStale \/ ReplyFails \/ ReplyLost
             \/ ScanForSettlement \/ GraceExpires \/ UNCHANGED vars
      PROVE  UNCHANGED thread
  BY <1>9 DEF MessageUserAppend, SessionStop, ApprovalRespond, UserInputDismiss, RequestResolved, OtherActivity,
     WindowRolls, RevertComplete, ThreadGone, CleanupAfterSettle, SessionStopFails, ReplyUnknown,
     ReplyAlreadyResolved, ReplyWithoutThread, ReplyWithoutSession, SendReply, ReplyTaken, ReplyStale, ReplyFails,
     ReplyLost, ScanForSettlement, GraceExpires, Emit, vars
<1>10. ASSUME SessionSet \/ TurnStartReaches \/ TurnStartFails \/ SessionStops \/ Restart
       PROVE  UNCHANGED thread \/ \E s \in Statuses : thread' = WithSession(thread, s)
  <2>1. {"starting", "stopped", "error"} \subseteq Statuses
    BY DEF Statuses
  <2>2. CASE SessionSet
    BY <2>2 DEF SessionSet, SetSession, Emit
  <2>3. CASE TurnStartReaches \/ SessionStops
    BY <2>1, <2>3 DEF TurnStartReaches, SessionStops, SetSession, Emit
  <2>4. CASE TurnStartFails
    BY <2>1, <2>4 DEF TurnStartFails, SetSession, Emit
  <2>5. CASE Restart
    BY <2>1, <2>5 DEF Restart, Emit
  <2> QED
    BY <1>10, <2>2, <2>3, <2>4, <2>5
<1>11. thread.override = "settled"
  BY <1>1, <1>2, <1>3, <1>4, <1>5, <1>6, <1>7, <1>8, <1>9, <1>10 DEF Next, Client, Provider, Reactor
<1> QED
  BY <1>1, <1>2, <1>11

(***************************************************************************)
(* The two accounts.  An answered question is closed for as long as SQL    *)
(* knows that it was asked; and what SQL counts open, or pending, the read *)
(* model holds open, unless it has forgotten it.                           *)
(***************************************************************************)
AnsweredIsClosed == past.answered \cap asked \subseteq closed /\ ~past.twice

MemorySees == (asked \ closed) \cup PendingApprovals \subseteq open \cup past.forgotten

Accounts == KnownSets /\ KnownReplies /\ AnsweredIsClosed /\ MemorySees

ledger == <<open, asked, closed, row, past.used, past.answered, past.forgotten, past.twice>>

(* The steps that write to neither account.                                *)
LEMMA QuietSteps ==
    ASSUME Typed,
           \/ ThreadDelete \/ ThreadArchive \/ ThreadUnarchive \/ ThreadUnsettle \/ ThreadSnooze
           \/ ThreadUnsnooze \/ ThreadPin \/ ThreadUnpin \/ ThreadTurnStart \/ MessageUserAppend
           \/ HistoryImport \/ SessionStop \/ SessionSet \/ OtherActivity \/ ThreadGone
           \/ TurnStartReaches \/ TurnStartFails \/ CleanupAfterSettle \/ SessionStops
           \/ SessionStopFails \/ ReplyWithoutThread \/ SendReply \/ ReplyTaken \/ ReplyLost
           \/ ScanForSettlement \/ GraceExpires \/ UNCHANGED vars
    PROVE  UNCHANGED ledger
<1>1. UNCHANGED <<open, asked, closed, row>>
  BY DEF ThreadDelete, ThreadArchive, ThreadUnarchive, ThreadUnsettle, ThreadSnooze, ThreadUnsnooze,
     ThreadPin, ThreadUnpin, ThreadTurnStart, MessageUserAppend, HistoryImport, SessionStop, SessionSet,
     OtherActivity, ThreadGone, TurnStartReaches, TurnStartFails, CleanupAfterSettle, SessionStops,
     SessionStopFails, ReplyWithoutThread, SendReply, ReplyTaken, ReplyLost, ScanForSettlement,
     GraceExpires, vars, memory, sql
<1>2. UNCHANGED past \/ \E b \in BOOLEAN : past' = [past EXCEPT !.engaged = b]
  <2>1. CASE TurnStartReaches
    BY <2>1 DEF TurnStartReaches
  <2>2. CASE ~TurnStartReaches
    BY <2>2 DEF ThreadDelete, ThreadArchive, ThreadUnarchive, ThreadUnsettle, ThreadSnooze, ThreadUnsnooze,
       ThreadPin, ThreadUnpin, ThreadTurnStart, MessageUserAppend, HistoryImport, SessionStop, SessionSet,
       OtherActivity, ThreadGone, TurnStartFails, CleanupAfterSettle, SessionStops,
       SessionStopFails, ReplyWithoutThread, SendReply, ReplyTaken, ReplyLost, ScanForSettlement,
       GraceExpires, vars
  <2> QED
    BY <2>1, <2>2
<1> QED
  BY <1>1, <1>2 DEF ledger, Typed, SetsOK

(* Clients: settling and answering close what they name in both accounts.  *)
LEMMA AccountsClient ==
    ASSUME Typed, Accounts, Client \/ ThreadAutoSettle
    PROVE  KnownSets' /\ AnsweredIsClosed' /\ MemorySees'
<1> USE DEF Typed, SetsOK, RowsOK, Accounts, KnownSets, AnsweredIsClosed, MemorySees, PendingApprovals
<1>1. CASE ThreadCreate
  BY <1>1 DEF ThreadCreate
<1>2. CASE ThreadSettle \/ ThreadAutoSettle
  <2>1. open' = {} /\ closed' = closed \cup open /\ UNCHANGED <<asked, row>> /\ open \subseteq AsyncQuestions
    BY <1>2 DEF ThreadSettle, ThreadAutoSettle, SettleEvents, Close
  <2>2. past' = [past EXCEPT !.engaged = FALSE]
    BY <1>2 DEF ThreadSettle, ThreadAutoSettle, SettleEvents
  <2>3. open \cap Approvals = {}
    BY <2>1, LifecycleBounds
  <2> QED
    BY <2>1, <2>2, <2>3
<1>3. CASE \E r \in Approvals : ApprovalRespond(r)
  <2>1. UNCHANGED <<open, asked, closed, past>>
    BY <1>3 DEF ApprovalRespond, memory
  <2>2. PendingApprovals' \subseteq PendingApprovals
    BY <1>3 DEF ApprovalRespond
  <2> QED
    BY <2>1, <2>2
<1>4. ASSUME NEW q \in Questions, UserInputRespond(q)
      PROVE  KnownSets' /\ AnsweredIsClosed' /\ MemorySees'
  <2>1. CASE q \in AsyncQuestions \cap asked
    <3>1. /\ q \notin closed /\ q \in past.used
          /\ open' = open \ {q} /\ closed' = closed \cup {q} /\ UNCHANGED <<asked, row>>
      BY <1>4, <2>1 DEF UserInputRespond, Close
    <3>2. past' = [past EXCEPT !.answered = @ \cup {q}, !.twice = @ \/ q \in past.answered]
      BY <1>4, <2>1 DEF UserInputRespond
    <3>3. /\ past'.used = past.used /\ past'.answered = past.answered \cup {q}
          /\ past'.forgotten = past.forgotten /\ past'.twice = (past.twice \/ q \in past.answered)
      BY <3>2
    <3>4. q \notin past.answered /\ q \notin Approvals
      BY <2>1, <3>1, LifecycleBounds
    <3> QED
      BY <3>1, <3>3, <3>4
  <2>2. CASE q \notin AsyncQuestions \cap asked
    BY <1>4, <2>2 DEF UserInputRespond, memory, sql
  <2> QED
    BY <2>1, <2>2
<1>5. ASSUME NEW q \in AsyncQuestions, UserInputDismiss(q)
      PROVE  KnownSets' /\ AnsweredIsClosed' /\ MemorySees'
  <2>1. q \notin Approvals
    BY LifecycleBounds
  <2> QED
    BY <1>5, <2>1 DEF UserInputDismiss, Close
<1>6. CASE UNCHANGED ledger
  BY <1>6 DEF ledger
<1> QED
  BY <1>1, <1>2, <1>3, <1>4, <1>5, <1>6, QuietSteps DEF Client

(* Provider events: a request enters both accounts, a resolution leaves    *)
(* both, a full window and a revert make the read model forget.            *)
LEMMA AccountsProvider ==
    ASSUME Typed, Accounts, Provider
    PROVE  KnownSets' /\ AnsweredIsClosed' /\ MemorySees'
<1> USE DEF Typed, SetsOK, RowsOK, Accounts, KnownSets, AnsweredIsClosed, MemorySees, PendingApprovals
<1>1. CASE \E r \in Requests : RequestArrives(r)
  BY <1>1 DEF RequestArrives
<1>2. CASE \E r \in Requests : RequestResolved(r)
  BY <1>2 DEF RequestResolved, Close
<1>3. CASE WindowRolls
  BY <1>3 DEF WindowRolls, Forget, sql
<1>4. CASE RevertComplete
  BY <1>4 DEF RevertComplete, Forget
<1>5. CASE UNCHANGED ledger
  BY <1>5 DEF ledger
<1> QED
  BY <1>1, <1>2, <1>3, <1>4, <1>5, QuietSteps DEF Provider

(* A stale failure ends the request in both accounts; any other failure    *)
(* gives back a row SQL still counts open, which the read model holds.     *)
LEMMA FailuresKeepAccounts ==
    ASSUME Typed, Accounts, NEW r \in past.used, past' = past, asked' = asked,
           StaleFailure(r) \/ ReplyFailure(r)
    PROVE  KnownSets' /\ AnsweredIsClosed' /\ MemorySees'
<1> USE DEF Typed, SetsOK, RowsOK, Accounts, KnownSets, AnsweredIsClosed, MemorySees, PendingApprovals
<1>1. CASE StaleFailure(r)
  BY <1>1 DEF StaleFailure, Close
<1>2. CASE ReplyFailure(r)
  BY <1>2 DEF ReplyFailure, Restores
<1> QED
  BY <1>1, <1>2

LEMMA AccountsReactor ==
    ASSUME Typed, Accounts, Reactor
    PROVE  KnownSets' /\ AnsweredIsClosed' /\ MemorySees'
<1> USE DEF Typed
<1>1. CASE ReplyUnknown \/ ReplyWithoutSession
  <2>1. intents # << >> /\ Head(intents).is \in {"approve", "answer"}
    BY <1>1 DEF ReplyUnknown, ReplyWithoutSession, Handles
  <2>2. Head(intents).req \in past.used
    BY <2>1, TailIntents, ReplyIntentFacts, QueueElements DEF QueueOK, Accounts, KnownReplies
  <2>3. past' = past /\ asked' = asked
        /\ (StaleFailure(Head(intents).req) \/ ReplyFailure(Head(intents).req))
    BY <1>1 DEF ReplyUnknown, ReplyWithoutSession
  <2> QED
    BY <2>2, <2>3, FailuresKeepAccounts
<1>2. CASE ReplyStale \/ ReplyFails
  <2>1. sending.req \in past.used
    BY <1>2 DEF ReplyStale, ReplyFails, Accounts, KnownReplies
  <2>2. past' = past /\ asked' = asked /\ (StaleFailure(sending.req) \/ ReplyFailure(sending.req))
    BY <1>2 DEF ReplyStale, ReplyFails
  <2> QED
    BY <2>1, <2>2, FailuresKeepAccounts
<1>3. CASE ReplyAlreadyResolved
  BY <1>3 DEF ReplyAlreadyResolved, Forget, sql, SetsOK, Accounts, KnownSets, AnsweredIsClosed, MemorySees,
     PendingApprovals
<1>4. CASE UNCHANGED ledger
  BY <1>4 DEF ledger, Accounts, KnownSets, AnsweredIsClosed, MemorySees, PendingApprovals
<1> QED
  BY <1>1, <1>2, <1>3, <1>4, QuietSteps DEF Reactor

(* Known requests stay known, so the replies to them stay good.            *)
LEMMA UsedGrows ==
    ASSUME Typed, [Next]_vars
    PROVE  past.used \subseteq past'.used
<1> USE DEF Typed, SetsOK
<1>1. CASE UNCHANGED ledger
  BY <1>1 DEF ledger
<1>2. CASE ThreadCreate \/ ThreadSettle \/ ThreadAutoSettle \/ Restart
  BY <1>2 DEF ThreadCreate, ThreadSettle, ThreadAutoSettle, SettleEvents, Restart
<1>3. CASE \/ (\E r \in Approvals : ApprovalRespond(r)) \/ (\E q \in AsyncQuestions : UserInputDismiss(q))
           \/ (\E r \in Requests : RequestResolved(r))
           \/ ReplyUnknown \/ ReplyWithoutSession \/ ReplyStale \/ ReplyFails
  BY <1>3 DEF ApprovalRespond, UserInputDismiss, RequestResolved, ReplyUnknown, ReplyWithoutSession,
     ReplyStale, ReplyFails
<1>4. CASE \E q \in Questions : UserInputRespond(q)
  BY <1>4 DEF UserInputRespond
<1>5. CASE \E r \in Requests : RequestArrives(r)
  BY <1>5 DEF RequestArrives
<1>6. CASE WindowRolls \/ RevertComplete \/ ReplyAlreadyResolved
  <2>1. \E rs : Forget(rs)
    BY <1>6 DEF WindowRolls, RevertComplete, ReplyAlreadyResolved
  <2> QED
    BY <2>1 DEF Forget
<1> QED
  BY <1>1, <1>2, <1>3, <1>4, <1>5, <1>6, QuietSteps DEF Next, Client, Provider, Reactor

LEMMA AccountsPreserved == Typed /\ Accounts /\ [Next]_vars => Accounts'
<1> SUFFICES ASSUME Typed, Accounts, [Next]_vars PROVE Accounts'
  OBVIOUS
<1>1. KnownReplies'
  BY UsedGrows, QueueGrowth, SendingComesFromQueue DEF Accounts, KnownReplies
<1>2. CASE Client \/ ThreadAutoSettle \/ Provider \/ Reactor
  BY <1>1, <1>2, AccountsClient, AccountsProvider, AccountsReactor DEF Accounts
<1>3. CASE Restart
  BY <1>1, <1>3 DEF Restart, sql, Typed, SetsOK, Accounts, KnownSets, AnsweredIsClosed, MemorySees,
     PendingApprovals
<1>4. CASE ScanForSettlement \/ GraceExpires \/ UNCHANGED vars
  <2>1. UNCHANGED ledger
    BY <1>4, QuietSteps
  <2> QED
    BY <1>1, <2>1 DEF ledger, Accounts, KnownSets, AnsweredIsClosed, MemorySees, PendingApprovals
<1> QED
  BY <1>2, <1>3, <1>4 DEF Next

(* The accounts hold in every reachable state.                             *)
LEMMA AccountsInductive == Spec => [](IInv /\ Typed /\ Accounts)
<1>1. Init => Typed /\ Accounts
  <2>1. Init => KnownSets /\ KnownReplies
    BY DEF Init, KnownSets, KnownReplies, InQueue
  <2>2. Init => AnsweredIsClosed /\ MemorySees
    BY DEF Init, AnsweredIsClosed, MemorySees, PendingApprovals
  <2> QED
    BY <2>1, <2>2, TypedInit DEF Accounts
<1>2. Typed /\ [Next]_vars => Typed'
  BY SetsPreserved, RowsPreserved, FlagsPreserved, QueuePreserved DEF Typed
<1> QED
  BY <1>1, <1>2, AccountsPreserved, Inductive, PTL DEF Spec

(* An async question starts at most one turn, whatever restarts, reverts,  *)
(* settlements, dismissals and new incarnations of the thread come between *)
(* it and its answers.                                                     *)
THEOREM AsyncQuestionsAnsweredOnce == Spec => []AsyncAnsweredOnce
<1>1. Accounts => AsyncAnsweredOnce
  BY DEF Accounts, AnsweredIsClosed, AsyncAnsweredOnce
<1> QED
  BY <1>1, AccountsInductive, PTL

-----------------------------------------------------------------------------
(* A settlement is refused for what the read model holds open, or closes   *)
(* it, and a new request ends the settlement: a settled thread has nothing *)
(* open in memory.                                                         *)
SettledHoldsNothing == thread.override = "settled" => open = {}

LEMMA SettledHoldsNothingPreserved ==
    IInv /\ Typed /\ SettledHoldsNothing /\ [Next]_vars => SettledHoldsNothing'
<1> SUFFICES ASSUME IInv, Typed, SettledHoldsNothing, [Next]_vars, thread'.override = "settled"
             PROVE  open' = {}
  BY DEF SettledHoldsNothing
<1>1. CASE ThreadSettle \/ ThreadAutoSettle
  BY <1>1 DEF ThreadSettle, ThreadAutoSettle, SettleEvents, Close
<1>2. CASE HistoryImport
  BY <1>2 DEF HistoryImport
<1>3. CASE ~ThreadSettle /\ ~ThreadAutoSettle /\ ~HistoryImport
  <2>1. open = {} /\ \A r \in Requests : ~RequestArrives(r)
    BY <1>3, OverrideKept DEF SettledHoldsNothing
  <2>2. CASE UNCHANGED ledger
    BY <2>1, <2>2 DEF ledger
  <2>3. CASE ThreadCreate \/ Restart
    BY <2>3 DEF ThreadCreate, Restart
  <2>4. CASE \/ (\E r \in Approvals : ApprovalRespond(r)) \/ (\E q \in Questions : UserInputRespond(q))
             \/ (\E q \in AsyncQuestions : UserInputDismiss(q)) \/ (\E r \in Requests : RequestResolved(r))
    BY <2>1, <2>4 DEF ApprovalRespond, UserInputRespond, UserInputDismiss, RequestResolved, Close, memory
  <2>5. CASE WindowRolls \/ RevertComplete \/ ReplyAlreadyResolved
    BY <2>1, <2>5 DEF WindowRolls, RevertComplete, ReplyAlreadyResolved, Forget
  <2>6. CASE ReplyUnknown \/ ReplyWithoutSession \/ ReplyStale \/ ReplyFails
    BY <2>1, <2>6 DEF ReplyUnknown, ReplyWithoutSession, ReplyStale, ReplyFails, StaleFailure, ReplyFailure,
       Close
  <2> QED
    BY <1>3, <2>1, <2>2, <2>3, <2>4, <2>5, <2>6, QuietSteps DEF Next, Client, Provider, Reactor
<1> QED
  BY <1>1, <1>2, <1>3

(* Whatever is hidden on a settled thread is a request the read model has  *)
(* forgotten, by a restart, a full window, a revert or the report that     *)
(* another reply came first: no interleaving of settlements, requests,     *)
(* replies and their failures hides one the decider could still see.       *)
THEOREM HidesNothingItSees == Spec => []HidesOnlyForgotten
<1>1. Init => SettledHoldsNothing
  BY DEF Init, SettledHoldsNothing
<1>2. Accounts /\ SettledHoldsNothing => HidesOnlyForgotten
  BY DEF Accounts, MemorySees, SettledHoldsNothing, HidesOnlyForgotten, Pending, PendingUserInput
<1> QED
  BY <1>1, <1>2, SettledHoldsNothingPreserved, AccountsInductive, PTL DEF Spec

(* Without a restart, a full window or a revert only approvals are         *)
(* forgotten, because only their replies can be reported already handled.  *)
ForgetsOnlyApprovals == past.forgotten \subseteq Approvals

LEMMA ForgetsOnlyApprovalsPreserved ==
    ASSUME Upsets \cap {"restart", "roll", "revert"} = {}, Typed, ForgetsOnlyApprovals, [Next]_vars
    PROVE  ForgetsOnlyApprovals'
<1> USE DEF Typed, SetsOK, ForgetsOnlyApprovals
<1>1. CASE UNCHANGED ledger
  BY <1>1 DEF ledger
<1>2. CASE ThreadCreate \/ ThreadSettle \/ ThreadAutoSettle
  BY <1>2 DEF ThreadCreate, ThreadSettle, ThreadAutoSettle, SettleEvents
<1>3. CASE \/ (\E r \in Approvals : ApprovalRespond(r)) \/ (\E q \in AsyncQuestions : UserInputDismiss(q))
           \/ (\E r \in Requests : RequestResolved(r))
           \/ ReplyUnknown \/ ReplyWithoutSession \/ ReplyStale \/ ReplyFails
  BY <1>3 DEF ApprovalRespond, UserInputDismiss, RequestResolved, ReplyUnknown, ReplyWithoutSession,
     ReplyStale, ReplyFails
<1>4. CASE \E q \in Questions : UserInputRespond(q)
  BY <1>4 DEF UserInputRespond
<1>5. CASE \E r \in Requests : RequestArrives(r)
  BY <1>5 DEF RequestArrives
<1>6. CASE ReplyAlreadyResolved
  <2>1. intents # << >> /\ Head(intents).is = "approve"
    BY <1>6 DEF ReplyAlreadyResolved, Handles
  <2>2. Head(intents).req \in Approvals
    BY <2>1, TailIntents, ReplyIntentFacts DEF QueueOK
  <2> QED
    BY <1>6, <2>2 DEF ReplyAlreadyResolved, Forget
<1>7. ~WindowRolls /\ ~RevertComplete /\ ~Restart
  BY DEF WindowRolls, RevertComplete, Restart, Upset
<1> QED
  BY <1>1, <1>2, <1>3, <1>4, <1>5, <1>6, <1>7, QuietSteps DEF Next, Client, Provider, Reactor

(* As long as the daemon does not restart, the window does not roll and no *)
(* checkpoint is reverted, a settled thread hides no question for the user.*)
THEOREM QuestionsStayVisible ==
    ASSUME Upsets \cap {"restart", "roll", "revert"} = {}
    PROVE  Spec => [](thread.override = "settled" => PendingUserInput = {})
<1>1. Init => SettledHoldsNothing /\ ForgetsOnlyApprovals
  BY DEF Init, SettledHoldsNothing, ForgetsOnlyApprovals
<1>2. Typed /\ ForgetsOnlyApprovals /\ [Next]_vars => ForgetsOnlyApprovals'
  BY ForgetsOnlyApprovalsPreserved
<1>3. Accounts /\ SettledHoldsNothing /\ ForgetsOnlyApprovals
         => (thread.override = "settled" => PendingUserInput = {})
  BY LifecycleBounds DEF Accounts, MemorySees, SettledHoldsNothing, ForgetsOnlyApprovals, PendingUserInput,
     Questions
<1> QED
  BY <1>1, <1>2, <1>3, SettledHoldsNothingPreserved, AccountsInductive, PTL DEF Spec

-----------------------------------------------------------------------------
(***************************************************************************)
(* The clean-up.  A start with no settlement behind it in the queue was    *)
(* requested after the last one: the thread is not settled, and no         *)
(* clean-up waits behind it.  So when such a start is handled, and from    *)
(* then on while its turn is engaged, no clean-up is waiting, and none is  *)
(* enqueued before the next settlement.                                    *)
(***************************************************************************)
Behind(s, i, kind) == \E j \in 1..Len(s) : j > i /\ s[j].is = kind

StartsUnsettle ==
    \A i \in 1..Len(intents) :
        intents[i].is = "start" /\ ~Behind(intents, i, "settled") =>
            thread.override # "settled" /\ ~Behind(intents, i, "cleanup")

EngagedIsSpared == past.engaged => thread.override # "settled" /\ ~Behind(intents, 0, "cleanup")

LEMMA BehindAppend ==
    ASSUME NEW s \in Seq(Intents), NEW x \in Intents, NEW kind
    PROVE  /\ \A i \in 0..Len(s) : Behind(Append(s, x), i, kind) <=> Behind(s, i, kind) \/ x.is = kind
           /\ ~Behind(Append(s, x), Len(s) + 1, kind)
  BY AppendIntent DEF Behind

LEMMA BehindTail ==
    ASSUME NEW s \in Seq(Intents), s # << >>, NEW kind, NEW i \in 0..Len(Tail(s))
    PROVE  Behind(Tail(s), i, kind) <=> Behind(s, i + 1, kind)
<1>1. ASSUME Behind(Tail(s), i, kind) PROVE Behind(s, i + 1, kind)
  <2>1. PICK j \in 1..Len(Tail(s)) : j > i /\ Tail(s)[j].is = kind
    BY <1>1 DEF Behind
  <2>2. j + 1 \in 1..Len(s) /\ j + 1 > i + 1 /\ s[j + 1].is = kind
    BY <2>1, TailIntents
  <2> QED
    BY <2>2 DEF Behind
<1>2. ASSUME Behind(s, i + 1, kind) PROVE Behind(Tail(s), i, kind)
  <2>1. PICK j \in 1..Len(s) : j > i + 1 /\ s[j].is = kind
    BY <1>2 DEF Behind
  <2>2. j - 1 \in 1..Len(Tail(s)) /\ j - 1 > i /\ Tail(s)[j - 1] = s[(j - 1) + 1] /\ (j - 1) + 1 = j
    BY <2>1, TailIntents
  <2> QED
    BY <2>1, <2>2 DEF Behind
<1> QED
  BY <1>1, <1>2

(* A step that settles the thread leaves its event in the queue.           *)
LEMMA SettlesOrKeeps ==
    ASSUME IInv, [Next]_vars, thread'.override = "settled"
    PROVE  \/ thread.override = "settled"
           \/ ThreadSettle \/ ThreadAutoSettle \/ HistoryImport
<1>1. CASE ThreadSettle \/ ThreadAutoSettle \/ HistoryImport
  BY <1>1
<1>2. CASE ~ThreadSettle /\ ~ThreadAutoSettle /\ ~HistoryImport
  BY <1>2, OverrideKept
<1> QED
  BY <1>1, <1>2

LEMMA SettlementStep ==
    ASSUME Typed, ThreadSettle \/ ThreadAutoSettle \/ HistoryImport
    PROVE  intents' = Append(intents, Intent("settled")) /\ ~past'.engaged
  BY DEF ThreadSettle, ThreadAutoSettle, SettleEvents, HistoryImport, Enqueue, Typed, SetsOK

(* What a step does to the queue, and who enqueues what.                   *)
EnqueuesMildly ==
    \E x \in Intents :
        /\ intents' = Append(intents, x)
        /\ x.is # "cleanup"
        /\ x.is = "start" => thread'.override # "settled"
        /\ x.is # "settled" => ~ThreadSettle /\ ~ThreadAutoSettle /\ ~HistoryImport

EnqueuesCleanup ==
    /\ intents # << >>
    /\ intents' = Append(Tail(intents), Intent("cleanup"))
    /\ thread' = thread /\ thread.override = "settled"

LEMMA QueueShapes ==
    ASSUME IInv, Typed, [Next]_vars
    PROVE  \/ intents' = intents \/ intents' = << >>
           \/ intents # << >> /\ intents' = Tail(intents)
           \/ EnqueuesMildly
           \/ EnqueuesCleanup
<1> USE DEF Typed, QueueOK
<1>t. thread \in Thread
  BY DEF IInv, ParkedWell
<1>1. CASE ThreadSettle \/ ThreadAutoSettle \/ HistoryImport
  <2>1. Intent("settled") \in Intents /\ Intent("settled").is = "settled"
    BY EnqueuedIntents
  <2> QED
    BY <1>1, <2>1, SettlementStep DEF EnqueuesMildly
<1>2. ASSUME ThreadTurnStart \/ \E q \in Questions : UserInputRespond(q) /\ q \in AsyncQuestions \cap asked
      PROVE  intents' = Append(intents, Intent("start")) /\ thread'.override # "settled"
  BY <1>2, <1>t, ThreadEvents DEF ThreadTurnStart, UserInputRespond, TurnStartEvents, Enqueue, Emit
<1>3. ASSUME ThreadTurnStart \/ \E q \in Questions : UserInputRespond(q) /\ q \in AsyncQuestions \cap asked
      PROVE  EnqueuesMildly
  <2>1. Intent("start") \in Intents /\ Intent("start").is = "start" /\ Intent("settled").is = "settled"
    BY EnqueuedIntents
  <2>2. ~ThreadSettle /\ ~ThreadAutoSettle /\ ~HistoryImport
    <3>1. ASSUME intents' = Append(intents, Intent("settled")) PROVE FALSE
      BY <1>2, <1>3, <2>1, <3>1, EnqueuedIntents, AppendIntent
    <3> QED
      BY <3>1, SettlementStep
  <2> QED
    BY <1>2, <1>3, <2>1, <2>2 DEF EnqueuesMildly
<1>4. ASSUME NEW x \in Intents, x.is \in {"stop", "approve", "answer"}, intents' = Append(intents, x)
      PROVE  EnqueuesMildly
  <2>1. ASSUME intents' = Append(intents, Intent("settled")) PROVE FALSE
    <3>1. Intent("settled") \in Intents /\ Intent("settled").is = "settled"
      BY EnqueuedIntents
    <3>2. x = Intent("settled")
      <4>1. Append(intents, x)[Len(intents) + 1] = x
        BY AppendIntent
      <4>2. Append(intents, Intent("settled"))[Len(intents) + 1] = Intent("settled")
        BY <3>1, AppendIntent
      <4> HIDE DEF Typed, QueueOK
      <4> QED
        BY <1>4, <2>1, <4>1, <4>2
    <3> QED
      BY <1>4, <3>1, <3>2
  <2> QED
    BY <1>4, <2>1, SettlementStep DEF EnqueuesMildly
<1>5. CASE SessionStop
  <2>1. intents' = Append(intents, Intent("stop")) /\ Intent("stop") \in Intents /\ Intent("stop").is = "stop"
    BY <1>5, EnqueuedIntents DEF SessionStop, Enqueue
  <2> QED
    BY <1>4, <2>1
<1>6. ASSUME NEW r \in Approvals, ApprovalRespond(r) PROVE EnqueuesMildly
  <2>1. /\ intents' = Append(intents, Approve(r, replies + 1))
        /\ Approve(r, replies + 1) \in Intents /\ Approve(r, replies + 1).is = "approve"
    BY <1>6, EnqueuedIntents DEF ApprovalRespond, Enqueue
  <2> QED
    BY <1>4, <2>1
<1>7. ASSUME NEW q \in Questions, UserInputRespond(q), q \notin AsyncQuestions \cap asked PROVE EnqueuesMildly
  <2>1. intents' = Append(intents, Answer(q, replies + 1))
    BY <1>7, Zenon DEF UserInputRespond, Enqueue
  <2>2. Answer(q, replies + 1) \in Intents /\ Answer(q, replies + 1).is = "answer"
    BY EnqueuedIntents
  <2> QED
    BY <1>4, <2>1, <2>2
<1>8. CASE CleanupAfterSettle
  <2>1. \/ intents # << >> /\ intents' = Tail(intents)
        \/ EnqueuesCleanup
    BY <1>8 DEF CleanupAfterSettle, EnqueuesCleanup, OnlyIfSettled, Handles, Handled, Emit
  <2> QED
    BY <2>1
<1>9. ASSUME \/ ThreadCreate \/ ThreadDelete \/ ThreadArchive \/ ThreadUnarchive \/ ThreadUnsettle \/ ThreadSnooze
             \/ ThreadUnsnooze \/ ThreadPin \/ ThreadUnpin \/ MessageUserAppend
             \/ (\E q \in AsyncQuestions : UserInputDismiss(q)) \/ Provider \/ ScanForSettlement \/ GraceExpires
             \/ Restart \/ UNCHANGED vars
      PROVE  intents' = intents \/ intents' = << >>
  BY <1>9 DEF ThreadCreate, ThreadDelete, ThreadArchive, ThreadUnarchive, ThreadUnsettle, ThreadSnooze,
     ThreadUnsnooze, ThreadPin, ThreadUnpin, MessageUserAppend, UserInputDismiss, Provider, SessionSet,
     RequestArrives, RequestResolved, OtherActivity, WindowRolls, RevertComplete, ScanForSettlement,
     GraceExpires, Restart, vars, agent
<1>10. ASSUME Reactor, ~CleanupAfterSettle
       PROVE  intents' = intents \/ (intents # << >> /\ intents' = Tail(intents))
  BY <1>10 DEF Reactor, ThreadGone, TurnStartReaches, TurnStartFails, SessionStops,
     SessionStopFails, ReplyUnknown, ReplyAlreadyResolved, ReplyWithoutThread, ReplyWithoutSession, SendReply,
     ReplyTaken, ReplyStale, ReplyFails, ReplyLost, Handles, Handled
<1> QED
  BY <1>1, <1>3, <1>5, <1>6, <1>7, <1>8, <1>9, <1>10 DEF Next, Client

LEMMA StartsUnsettlePreserved ==
    ASSUME IInv, Typed, StartsUnsettle, [Next]_vars
    PROVE  StartsUnsettle'
<1> USE DEF Typed, QueueOK
<1>c. Intent("cleanup") \in Intents /\ Intent("cleanup").is = "cleanup"
  BY EnqueuedIntents
<1>s. Intent("settled") \in Intents /\ Intent("settled").is = "settled"
  BY EnqueuedIntents
<1>n. ASSUME intents' = intents, ThreadSettle \/ ThreadAutoSettle \/ HistoryImport PROVE FALSE
  <2>1. intents' = Append(intents, Intent("settled"))
    BY <1>n, SettlementStep
  <2> QED
    BY <1>n, <1>s, <2>1, AppendIntent
<1>o. ASSUME intents # << >>, intents' = Tail(intents), ThreadSettle \/ ThreadAutoSettle \/ HistoryImport
      PROVE  FALSE
  <2>1. intents' = Append(intents, Intent("settled"))
    BY <1>o, SettlementStep
  <2>2. Len(intents') = Len(intents) - 1
    BY <1>o, TailIntents
  <2>3. Len(intents') = Len(intents) + 1
    BY <1>s, <2>1, AppendIntent
  <2>4. Len(intents) \in Nat
    BY <1>o, TailIntents
  <2> QED
    BY <2>2, <2>3, <2>4
<1>1. CASE intents' = intents
  <2>1. thread'.override = "settled" => thread.override = "settled"
    BY <1>1, <1>n, SettlesOrKeeps
  <2> QED
    BY <1>1, <2>1 DEF StartsUnsettle, Behind
<1>2. CASE intents' = << >>
  BY <1>2 DEF StartsUnsettle
<1>3. CASE intents # << >> /\ intents' = Tail(intents)
  <2>1. thread'.override = "settled" => thread.override = "settled"
    BY <1>3, <1>o, SettlesOrKeeps
  <2>2. SUFFICES ASSUME NEW i \in 1..Len(Tail(intents)), Tail(intents)[i].is = "start",
                        ~Behind(Tail(intents), i, "settled")
                 PROVE  thread'.override # "settled" /\ ~Behind(Tail(intents), i, "cleanup")
    BY <1>3 DEF StartsUnsettle, Behind
  <2>3. i + 1 \in 1..Len(intents) /\ intents[i + 1].is = "start" /\ i \in 0..Len(Tail(intents))
    BY <1>3, <2>2, TailIntents
  <2>4. ~Behind(intents, i + 1, "settled")
    BY <1>3, <2>2, <2>3, BehindTail
  <2>5. thread.override # "settled" /\ ~Behind(intents, i + 1, "cleanup")
    BY <2>3, <2>4 DEF StartsUnsettle
  <2> QED
    BY <1>3, <2>1, <2>3, <2>5, BehindTail
<1>4. CASE EnqueuesMildly
  <2>1. PICK x \in Intents :
           /\ intents' = Append(intents, x) /\ x.is # "cleanup"
           /\ x.is = "start" => thread'.override # "settled"
           /\ x.is # "settled" => ~ThreadSettle /\ ~ThreadAutoSettle /\ ~HistoryImport
    BY <1>4 DEF EnqueuesMildly
  <2>2. SUFFICES ASSUME NEW i \in 1..Len(intents'), intents'[i].is = "start",
                        ~Behind(intents', i, "settled")
                 PROVE  thread'.override # "settled" /\ ~Behind(intents', i, "cleanup")
    BY DEF StartsUnsettle, Behind
  <2>3. CASE i = Len(intents) + 1
    BY <2>1, <2>2, <2>3, AppendIntent, BehindAppend
  <2>4. CASE i # Len(intents) + 1
    <3>1. i \in 1..Len(intents) /\ i \in 0..Len(intents) /\ intents[i].is = "start"
      BY <2>1, <2>2, <2>4, AppendIntent
    <3>2. ~Behind(intents, i, "settled") /\ x.is # "settled"
      BY <2>1, <2>2, <3>1, BehindAppend
    <3>3. thread.override # "settled" /\ ~Behind(intents, i, "cleanup")
      BY <3>1, <3>2 DEF StartsUnsettle
    <3>4. thread'.override # "settled"
      BY <2>1, <3>2, <3>3, SettlesOrKeeps
    <3>5. ~Behind(intents', i, "cleanup")
      BY <2>1, <3>1, <3>3, BehindAppend
    <3> QED
      BY <3>4, <3>5
  <2> QED
    BY <2>3, <2>4
<1>5. CASE EnqueuesCleanup
  <2>1. /\ intents # << >> /\ intents' = Append(Tail(intents), Intent("cleanup"))
        /\ thread.override = "settled"
    BY <1>5 DEF EnqueuesCleanup
  <2>2. SUFFICES ASSUME NEW i \in 1..Len(intents'), intents'[i].is = "start",
                        ~Behind(intents', i, "settled")
                 PROVE  FALSE
    BY DEF StartsUnsettle, Behind
  <2>3. Tail(intents) \in Seq(Intents)
    BY <2>1, TailIntents
  <2>4. i # Len(Tail(intents)) + 1
    BY <1>c, <2>1, <2>2, <2>3, AppendIntent
  <2>5. i \in 1..Len(Tail(intents)) /\ i \in 0..Len(Tail(intents)) /\ Tail(intents)[i].is = "start"
    BY <1>c, <2>1, <2>2, <2>3, <2>4, AppendIntent
  <2>6. ~Behind(Tail(intents), i, "settled")
    BY <1>c, <2>1, <2>2, <2>3, <2>5, BehindAppend
  <2>7. i + 1 \in 1..Len(intents) /\ intents[i + 1].is = "start"
    BY <2>1, <2>5, TailIntents
  <2>8. ~Behind(intents, i + 1, "settled")
    BY <2>1, <2>5, <2>6, BehindTail
  <2> QED
    BY <2>1, <2>7, <2>8 DEF StartsUnsettle
<1> QED
  BY <1>1, <1>2, <1>3, <1>4, <1>5, QueueShapes

(* Only a turn whose start is handled engages the thread.                  *)
LEMMA EngagedBy ==
    ASSUME Typed, [Next]_vars, past'.engaged
    PROVE  past.engaged \/ TurnStartReaches
<1> USE DEF Typed, SetsOK
<1>1. CASE UNCHANGED vars
  BY <1>1 DEF vars
<1>2. ASSUME ThreadCreate \/ ThreadSettle \/ ThreadAutoSettle \/ HistoryImport \/ TurnStartFails \/ SessionStops
             \/ Restart
      PROVE  FALSE
  BY <1>2 DEF ThreadCreate, ThreadSettle, ThreadAutoSettle, SettleEvents, HistoryImport, TurnStartFails,
     SessionStops, Restart
<1>3. CASE \/ ThreadDelete \/ ThreadArchive \/ ThreadUnarchive \/ ThreadUnsettle \/ ThreadSnooze
           \/ ThreadUnsnooze \/ ThreadPin \/ ThreadUnpin \/ ThreadTurnStart \/ MessageUserAppend
           \/ SessionStop \/ (\E r \in Approvals : ApprovalRespond(r))
           \/ (\E q \in AsyncQuestions : UserInputDismiss(q))
           \/ ScanForSettlement \/ GraceExpires
  BY <1>3 DEF ThreadDelete, ThreadArchive, ThreadUnarchive, ThreadUnsettle, ThreadSnooze,
     ThreadUnsnooze, ThreadPin, ThreadUnpin, ThreadTurnStart, MessageUserAppend, SessionStop,
     ApprovalRespond, UserInputDismiss, ScanForSettlement, GraceExpires
<1>4. CASE \E q \in Questions : UserInputRespond(q)
  BY <1>4 DEF UserInputRespond
<1>5. CASE SessionSet \/ (\E r \in Requests : RequestArrives(r)) \/ (\E r \in Requests : RequestResolved(r))
           \/ OtherActivity
  BY <1>5 DEF SessionSet, RequestArrives, RequestResolved, OtherActivity
<1>6. CASE WindowRolls \/ RevertComplete \/ ReplyAlreadyResolved
  <2>1. \E rs : Forget(rs)
    BY <1>6 DEF WindowRolls, RevertComplete, ReplyAlreadyResolved
  <2> QED
    BY <2>1 DEF Forget
<1>7. CASE ThreadGone \/ CleanupAfterSettle \/ SessionStopFails \/ ReplyUnknown \/ ReplyWithoutThread
           \/ ReplyWithoutSession \/ SendReply \/ ReplyTaken \/ ReplyStale \/ ReplyFails \/ ReplyLost
  BY <1>7 DEF ThreadGone, CleanupAfterSettle, SessionStopFails, ReplyUnknown, ReplyWithoutThread,
     ReplyWithoutSession, SendReply, ReplyTaken, ReplyStale, ReplyFails, ReplyLost
<1> QED
  BY <1>1, <1>2, <1>3, <1>4, <1>5, <1>6, <1>7 DEF Next, Client, Provider, Reactor

LEMMA EngagedIsSparedPreserved ==
    ASSUME IInv, Typed, StartsUnsettle, EngagedIsSpared, [Next]_vars
    PROVE  EngagedIsSpared'
<1> USE DEF Typed, QueueOK
<1> SUFFICES ASSUME past'.engaged
             PROVE  thread'.override # "settled" /\ ~Behind(intents', 0, "cleanup")
  BY DEF EngagedIsSpared, Behind
<1>s. ~ThreadSettle /\ ~ThreadAutoSettle /\ ~HistoryImport
  BY SettlementStep
<1>1. CASE TurnStartReaches
  <2>1. /\ intents # << >> /\ Head(intents).is = "start" /\ intents' = Tail(intents)
        /\ past' = [past EXCEPT !.engaged = \A i \in 2..Len(intents) : intents[i].is # "settled"]
    BY <1>1 DEF TurnStartReaches, Handles, Handled
  <2>2. 1 \in 1..Len(intents) /\ intents[1].is = "start"
    BY <2>1, TailIntents
  <2>3. \A i \in 2..Len(intents) : intents[i].is # "settled"
    BY <2>1 DEF SetsOK
  <2>4. ~Behind(intents, 1, "settled")
    BY <2>3 DEF Behind
  <2>5. thread.override # "settled" /\ ~Behind(intents, 1, "cleanup")
    BY <2>2, <2>4 DEF StartsUnsettle
  <2>6. thread'.override # "settled"
    BY <1>s, <2>5, SettlesOrKeeps
  <2>7. 0 \in 0..Len(Tail(intents)) /\ 0 + 1 = 1
    BY <2>1, TailIntents
  <2> QED
    BY <2>1, <2>5, <2>6, <2>7, BehindTail
<1>2. CASE ~TurnStartReaches
  <2>1. thread.override # "settled" /\ ~Behind(intents, 0, "cleanup")
    BY <1>2, EngagedBy DEF EngagedIsSpared
  <2>2. thread'.override # "settled"
    BY <1>s, <2>1, SettlesOrKeeps
  <2>3. CASE intents' = intents \/ intents' = << >>
    BY <2>1, <2>2, <2>3 DEF Behind
  <2>4. CASE intents # << >> /\ intents' = Tail(intents)
    <3>1. 0 \in 0..Len(Tail(intents)) /\ 0 + 1 = 1
      BY <2>4, TailIntents
    <3>2. ~Behind(intents, 1, "cleanup")
      BY <2>1 DEF Behind
    <3> QED
      BY <2>2, <2>4, <3>1, <3>2, BehindTail
  <2>5. CASE EnqueuesMildly
    <3>1. PICK x \in Intents : intents' = Append(intents, x) /\ x.is # "cleanup"
      BY <2>5 DEF EnqueuesMildly
    <3>2. 0 \in 0..Len(intents)
      OBVIOUS
    <3> QED
      BY <2>1, <2>2, <3>1, <3>2, BehindAppend
  <2>6. ~EnqueuesCleanup
    BY <2>1 DEF EnqueuesCleanup
  <2> QED
    BY <2>3, <2>4, <2>5, <2>6, QueueShapes
<1> QED
  BY <1>1, <1>2

(* The clean-up after a settlement never stops the session of a turn that  *)
(* started after it, in whatever order clients, the reactor and the        *)
(* provider act between settlement, conditional stop and stop.             *)
THEOREM CleanupIsSafe == Spec => CleanupSparesLaterTurns
<1>1. Init => StartsUnsettle /\ EngagedIsSpared
  BY DEF Init, StartsUnsettle, EngagedIsSpared
<1>2. IInv /\ Typed /\ StartsUnsettle /\ EngagedIsSpared /\ [Next]_vars
         => StartsUnsettle' /\ EngagedIsSpared'
  BY StartsUnsettlePreserved, EngagedIsSparedPreserved
<1>3. Typed /\ EngagedIsSpared
         => (intents # << >> /\ Head(intents).is = "cleanup" => ~past.engaged)
  <2> SUFFICES ASSUME Typed, EngagedIsSpared, intents # << >>, Head(intents).is = "cleanup"
               PROVE  ~past.engaged
    OBVIOUS
  <2>1. 1 \in 1..Len(intents) /\ intents[1].is = "cleanup"
    BY TailIntents DEF Typed, QueueOK
  <2> QED
    BY <2>1 DEF EngagedIsSpared, Behind
<1>4. Typed /\ EngagedIsSpared
         => [intents # << >> /\ Head(intents).is = "cleanup" /\ SessionStops => ~past.engaged]_vars
  BY <1>3
<1> QED
  BY <1>1, <1>2, <1>4, AccountsInductive, PTL DEF Spec, CleanupSparesLaterTurns

-----------------------------------------------------------------------------
(***************************************************************************)
(* Blocked approvals.  The provider waits only for requests that SQL       *)
(* counts open, and on a live thread one whose row is resolved is so by a  *)
(* reply that is still under way: the very reply the row names, so that    *)
(* its end finds the row its own, and gives it back if it fails.           *)
(***************************************************************************)
IsOwner(i, r) == i.is = "approve" /\ i.req = r /\ i.reply = owner[r]

Held(r) ==
    /\ r \in asked \ closed
    /\ row[r] # "none"
    /\ thread.life = "live" /\ row[r] = "resolved" =>
          \E i \in InQueue(intents) \cup {sending} : IsOwner(i, r)

ApprovalsHeld == \A r \in waiting \cap Approvals : Held(r)

(* Deleting aside, only a new incarnation changes the life of a thread.    *)
LEMMA LifeKept ==
    ASSUME IInv, [Next]_vars, ~ThreadCreate, thread'.life = "live"
    PROVE  thread.life = "live"
<1>t. thread \in Thread
  BY DEF IInv, ParkedWell
<1>1. CASE UNCHANGED thread
  BY <1>1
<1>2. CASE \E s \in Statuses : thread' = WithSession(thread, s)
  BY <1>t, <1>2, ThreadEvents
<1>3. CASE ThreadTurnStart \/ (\E r \in Requests : RequestArrives(r)) \/ ThreadUnsettle
  BY <1>t, <1>3, ThreadEvents DEF ThreadTurnStart, TurnStartEvents, RequestArrives, ThreadUnsettle, Emit
<1>4. CASE \E q \in Questions : UserInputRespond(q)
  BY <1>t, <1>4, ThreadEvents DEF UserInputRespond, TurnStartEvents, Emit
<1>5. CASE ThreadDelete \/ ThreadArchive \/ ThreadUnarchive
  BY <1>t, <1>5 DEF ThreadDelete, ThreadArchive, ThreadUnarchive, Emit, Thread
<1>6. CASE ThreadSnooze \/ ThreadUnsnooze \/ ThreadUnpin
  <2>1. thread' \in {Snoozed(thread), Unsnoozed(thread), Unpinned(thread)}
    BY <1>6 DEF ThreadSnooze, ThreadUnsnooze, ThreadUnpin, Emit
  <2> QED
    BY <1>t, <2>1, ThreadEvents
<1>7. CASE ThreadPin
  <2> DEFINE p == IF thread.override = "settled" THEN Unsettled(thread, "user") ELSE thread
  <2>1. p \in Thread /\ p.life = thread.life
    BY <1>t DEF Unsettled, Thread
  <2>2. thread' = Unsnoozed(Pinned(p))
    BY <1>7 DEF ThreadPin, Emit
  <2> HIDE DEF p
  <2>3. Pinned(p) \in Thread /\ Pinned(p).life = p.life
    BY <2>1 DEF Pinned, Thread
  <2> QED
    BY <2>1, <2>2, <2>3, ThreadEvents
<1>8. CASE ThreadSettle \/ ThreadAutoSettle
  BY <1>t, <1>8, ThreadEvents DEF ThreadSettle, ThreadAutoSettle, SettleEvents, Emit
<1>9. CASE HistoryImport
  BY <1>9 DEF HistoryImport
<1>10. ASSUME MessageUserAppend \/ SessionStop \/ (\E r \in Approvals : ApprovalRespond(r))
             \/ (\E q \in AsyncQuestions : UserInputDismiss(q)) \/ (\E r \in Requests : RequestResolved(r))
             \/ OtherActivity \/ WindowRolls \/ RevertComplete \/ ThreadGone \/ CleanupAfterSettle
             \/ SessionStopFails \/ ReplyUnknown \/ ReplyAlreadyResolved \/ ReplyWithoutThread
             \/ ReplyWithoutSession \/ SendReply \/ ReplyTaken \/ ReplyStale \/ ReplyFails \/ ReplyLost
             \/ ScanForSettlement \/ GraceExpires \/ UNCHANGED vars
       PROVE  UNCHANGED thread
  BY <1>10 DEF MessageUserAppend, SessionStop, ApprovalRespond, UserInputDismiss, RequestResolved, OtherActivity,
     WindowRolls, RevertComplete, ThreadGone, CleanupAfterSettle, SessionStopFails, ReplyUnknown,
     ReplyAlreadyResolved, ReplyWithoutThread, ReplyWithoutSession, SendReply, ReplyTaken, ReplyStale, ReplyFails,
     ReplyLost, ScanForSettlement, GraceExpires, Emit, vars
<1>11. CASE SessionSet
  BY <1>t, <1>11, ThreadEvents DEF SessionSet, SetSession, Emit
<1>12. CASE TurnStartReaches \/ TurnStartFails \/ SessionStops
  BY <1>12 DEF TurnStartReaches, TurnStartFails, SessionStops
<1>13. CASE Restart
  <2>1. {"starting", "error"} \subseteq Statuses
    BY DEF Statuses
  <2> QED
    BY <1>2, <1>1, <1>13, <2>1 DEF Restart, Emit
<1> QED
  BY <1>1, <1>3, <1>4, <1>5, <1>6, <1>7, <1>8, <1>9, <1>10, <1>11, <1>12, <1>13 DEF Next, Client, Provider,
     Reactor

(* The steps that take no reply off its way.                               *)
ApprovesKept ==
    \A i \in InQueue(intents) \cup {sending} :
        i.is = "approve" => i \in InQueue(intents') \cup {sending'}

LEMMA RepliesStay ==
    ASSUME Typed,
           \/ Client \/ Provider \/ ThreadGone \/ TurnStartReaches \/ TurnStartFails \/ CleanupAfterSettle
           \/ SessionStops \/ SessionStopFails \/ SendReply \/ ScanForSettlement \/ ThreadAutoSettle
           \/ GraceExpires \/ UNCHANGED vars
    PROVE  ApprovesKept
<1> USE DEF Typed, QueueOK
<1>1. CASE SendReply
  <2>1. intents # << >> /\ intents' = Tail(intents) /\ sending = NoReply /\ sending' = Head(intents)
    BY <1>1 DEF SendReply, Handles, Handled
  <2> QED
    BY <2>1, QueueElements DEF ApprovesKept, NoReply
<1>2. ASSUME intents' = intents \/ (\E x \in Intents : intents' = Append(intents, x)), sending' = sending
      PROVE  ApprovesKept
  <2>1. InQueue(intents) \subseteq InQueue(intents')
    <3>1. CASE intents' = intents
      BY <3>1
    <3>2. ASSUME NEW x \in Intents, intents' = Append(intents, x)
          PROVE  InQueue(intents) \subseteq InQueue(intents')
      BY <3>2, QueueElements
    <3> QED
      BY <1>2, <3>1, <3>2
  <2> QED
    BY <1>2, <2>1 DEF ApprovesKept
<1>3. ASSUME Client \/ ThreadAutoSettle
      PROVE  /\ sending' = sending
             /\ intents' = intents \/ (\E x \in Intents : intents' = Append(intents, x))
  <2>1. CASE ThreadSettle \/ ThreadAutoSettle \/ HistoryImport \/ SessionStop \/ ThreadTurnStart
    BY <2>1, EnqueuedIntents DEF ThreadSettle, ThreadAutoSettle, SettleEvents, HistoryImport, SessionStop,
       ThreadTurnStart, TurnStartEvents, Enqueue
  <2>2. ASSUME NEW r \in Approvals, ApprovalRespond(r)
        PROVE  sending' = sending /\ intents' = Append(intents, Approve(r, replies + 1))
               /\ Approve(r, replies + 1) \in Intents
    BY <2>2, EnqueuedIntents DEF ApprovalRespond, Enqueue
  <2>3. ASSUME NEW q \in Questions, UserInputRespond(q)
        PROVE  /\ sending' = sending
               /\ \/ intents' = Append(intents, Intent("start"))
                  \/ intents' = Append(intents, Answer(q, replies + 1))
    BY <2>3, Zenon DEF UserInputRespond, TurnStartEvents, Enqueue
  <2>4. \A q \in Questions : Intent("start") \in Intents /\ Answer(q, replies + 1) \in Intents
    BY EnqueuedIntents
  <2>5. CASE \/ ThreadCreate \/ ThreadDelete \/ ThreadArchive \/ ThreadUnarchive \/ ThreadUnsettle
             \/ ThreadSnooze \/ ThreadUnsnooze \/ ThreadPin \/ ThreadUnpin \/ MessageUserAppend
             \/ (\E q \in AsyncQuestions : UserInputDismiss(q))
    BY <2>5 DEF ThreadCreate, ThreadDelete, ThreadArchive, ThreadUnarchive, ThreadUnsettle, ThreadSnooze,
       ThreadUnsnooze, ThreadPin, ThreadUnpin, MessageUserAppend, UserInputDismiss, agent
  <2> QED
    BY <1>3, <2>1, <2>2, <2>3, <2>4, <2>5 DEF Client
<1>4. ASSUME Provider \/ ScanForSettlement \/ GraceExpires \/ UNCHANGED vars
      PROVE  sending' = sending /\ intents' = intents
  BY <1>4 DEF Provider, SessionSet, RequestArrives, RequestResolved, OtherActivity, WindowRolls,
     RevertComplete, ScanForSettlement, GraceExpires, vars, agent
<1>5. ASSUME ThreadGone \/ TurnStartReaches \/ TurnStartFails \/ CleanupAfterSettle \/ SessionStops
             \/ SessionStopFails
      PROVE  ApprovesKept
  <2>1. /\ sending' = sending /\ intents # << >> /\ Head(intents).is # "approve"
        /\ intents' = Tail(intents) \/ intents' = Append(Tail(intents), Intent("cleanup"))
    BY <1>5 DEF ThreadGone, TurnStartReaches, TurnStartFails, CleanupAfterSettle, SessionStops,
       SessionStopFails, Handles, Handled
  <2>2. Tail(intents) \in Seq(Intents) /\ Intent("cleanup") \in Intents
    BY <2>1, TailIntents, EnqueuedIntents
  <2>3. InQueue(Tail(intents)) \subseteq InQueue(intents')
    <3>1. InQueue(Append(Tail(intents), Intent("cleanup"))) = InQueue(Tail(intents)) \cup {Intent("cleanup")}
      BY <2>2, QueueElements
    <3> QED
      BY <2>1, <3>1
  <2>4. InQueue(intents) = {Head(intents)} \cup InQueue(Tail(intents))
    BY <2>1, QueueElements
  <2> QED
    BY <2>1, <2>3, <2>4 DEF ApprovesKept
<1> QED
  BY <1>1, <1>2, <1>3, <1>4, <1>5

LEMMA HeldKept ==
    ASSUME IInv, [Next]_vars, ~ThreadCreate, NEW r \in Approvals, Held(r),
           r \in asked' \ closed', row'[r] = row[r], owner'[r] = owner[r],
           \A i \in InQueue(intents) \cup {sending} :
              IsOwner(i, r) => i \in InQueue(intents') \cup {sending'}
    PROVE  Held(r)'
<1>1. thread'.life = "live" => thread.life = "live"
  BY LifeKept
<1> QED
  BY <1>1 DEF Held, IsOwner

(* A reply that ends without effect on the row of r was not r's owner.     *)
LEMMA HeadDropped ==
    ASSUME Typed, intents # << >>, intents' = Tail(intents), sending' = sending, NEW r,
           ~IsOwner(Head(intents), r)
    PROVE  \A i \in InQueue(intents) \cup {sending} :
              IsOwner(i, r) => i \in InQueue(intents') \cup {sending'}
  BY QueueElements DEF Typed, QueueOK

LEMMA HeldByClient ==
    ASSUME IInv, Typed, Client \/ ThreadAutoSettle, ~ThreadCreate, NEW r \in Approvals, Held(r)
    PROVE  Held(r)'
<1> USE DEF Typed, RowsOK
<1>1. ApprovesKept
  BY RepliesStay
<1>2. \A i \in InQueue(intents) \cup {sending} : IsOwner(i, r) => i \in InQueue(intents') \cup {sending'}
  BY <1>1 DEF ApprovesKept, IsOwner
<1>3. [Next]_vars
  BY DEF Next
<1>4. ASSUME r \in asked' \ closed', row' = row, owner' = owner
      PROVE  Held(r)'
  BY <1>2, <1>3, <1>4, HeldKept
<1>5. r \in asked \ closed
  BY DEF Held
<1>6. CASE \/ ThreadDelete \/ ThreadArchive \/ ThreadUnarchive \/ ThreadUnsettle \/ ThreadSnooze \/ ThreadUnsnooze
           \/ ThreadPin \/ ThreadUnpin \/ ThreadTurnStart \/ MessageUserAppend \/ HistoryImport \/ SessionStop
  BY <1>4, <1>5, <1>6 DEF ThreadDelete, ThreadArchive, ThreadUnarchive, ThreadUnsettle, ThreadSnooze,
     ThreadUnsnooze, ThreadPin, ThreadUnpin, ThreadTurnStart, MessageUserAppend, HistoryImport, SessionStop, sql
<1>7. CASE ThreadSettle \/ ThreadAutoSettle
  <2>1. asked' = asked /\ closed' = closed \cup open /\ row' = row /\ owner' = owner /\ open \subseteq AsyncQuestions
    BY <1>7 DEF ThreadSettle, ThreadAutoSettle, SettleEvents, Close
  <2>2. r \notin open
    BY <2>1, LifecycleBounds
  <2> QED
    BY <1>4, <1>5, <2>1, <2>2
<1>8. ASSUME NEW q \in Questions, UserInputRespond(q) PROVE Held(r)'
  <2>1. asked' = asked /\ closed' \in {closed, closed \cup {q}} /\ row' = row /\ owner' = owner
    BY <1>8 DEF UserInputRespond, Close, sql
  <2>2. r # q
    BY LifecycleBounds DEF Questions
  <2> QED
    BY <1>4, <1>5, <2>1, <2>2
<1>9. ASSUME NEW q \in AsyncQuestions, UserInputDismiss(q) PROVE Held(r)'
  <2>1. asked' = asked /\ closed' = closed \cup {q} /\ row' = row /\ owner' = owner
    BY <1>9 DEF UserInputDismiss, Close
  <2>2. r # q
    BY LifecycleBounds
  <2> QED
    BY <1>4, <1>5, <2>1, <2>2
<1>10. ASSUME NEW a \in Approvals, ApprovalRespond(a) PROVE Held(r)'
  <2>1. /\ asked' = asked /\ closed' = closed /\ sending' = sending
        /\ intents' = Append(intents, Approve(a, replies + 1))
    BY <1>10 DEF ApprovalRespond, Enqueue
  <2>2. CASE row[a] = "pending" /\ a = r
    <3>1. row'[r] = "resolved" /\ owner'[r] = replies + 1
      BY <1>10, <2>2 DEF ApprovalRespond
    <3>2. /\ Approve(r, replies + 1) \in Intents /\ Approve(r, replies + 1).is = "approve"
          /\ Approve(r, replies + 1).req = r /\ Approve(r, replies + 1).reply = replies + 1
      BY EnqueuedIntents DEF QueueOK
    <3>3. Approve(r, replies + 1) \in InQueue(intents')
      BY <2>1, <2>2, <3>2, QueueElements DEF QueueOK
    <3>4. \E i \in InQueue(intents') : i.is = "approve" /\ i.req = r /\ i.reply = owner'[r]
      BY <3>1, <3>2, <3>3
    <3> QED
      BY <1>5, <2>1, <3>1, <3>4 DEF Held, IsOwner
  <2>3. CASE ~(row[a] = "pending" /\ a = r)
    <3>1. row'[r] = row[r] /\ owner'[r] = owner[r]
      BY <1>10, <2>3 DEF ApprovalRespond
    <3> QED
      BY <1>2, <1>3, <1>5, <2>1, <3>1, HeldKept
  <2> QED
    BY <2>2, <2>3
<1> QED
  BY <1>6, <1>7, <1>8, <1>9, <1>10 DEF Client

LEMMA HeldByProvider ==
    ASSUME Upsets \cap {"revert"} = {},
           IInv, Typed, Accounts, Provider, NEW r \in Approvals, r \in waiting',
           r \in waiting => Held(r)
    PROVE  Held(r)'
<1> USE DEF Typed, RowsOK
<1>1. ApprovesKept
  BY RepliesStay
<1>2. \A i \in InQueue(intents) \cup {sending} : IsOwner(i, r) => i \in InQueue(intents') \cup {sending'}
  BY <1>1 DEF ApprovesKept, IsOwner
<1>3. [Next]_vars
  BY DEF Next
<1>4. ASSUME ~ThreadCreate, r \in waiting, r \in asked' \ closed', row'[r] = row[r], owner' = owner
      PROVE  Held(r)'
  BY <1>2, <1>3, <1>4, HeldKept
<1>5. r \in waiting => r \in asked \ closed
  BY DEF Held
<1>6. ASSUME ThreadCreate PROVE FALSE
  BY <1>6 DEF ThreadCreate
<1>7. CASE SessionSet
  BY <1>4, <1>5, <1>6, <1>7 DEF SessionSet, SetSession
<1>8. CASE OtherActivity \/ WindowRolls
  BY <1>4, <1>5, <1>6, <1>8 DEF OtherActivity, WindowRolls, sql, agent
<1>9. ~RevertComplete
  BY DEF RevertComplete, Upset
<1>10. ASSUME NEW q \in Requests, RequestArrives(q) PROVE Held(r)'
  <2>1. /\ asked' = asked \cup {q} /\ closed' = closed /\ owner' = owner
        /\ row' = [a \in Approvals |-> IF a = q THEN "pending" ELSE row[a]]
        /\ q \notin past.used /\ waiting' \subseteq waiting \cup {q}
    BY <1>10 DEF RequestArrives
  <2>2. CASE r = q
    BY <2>1, <2>2 DEF Held, Accounts, KnownSets
  <2>3. CASE r # q
    BY <1>4, <1>5, <1>6, <2>1, <2>3
  <2> QED
    BY <2>2, <2>3
<1>11. ASSUME NEW q \in Requests, RequestResolved(q) PROVE Held(r)'
  <2>1. /\ asked' = asked /\ closed' = closed \cup {q} /\ owner' = owner
        /\ row' = [a \in Approvals |-> IF a = q THEN "resolved" ELSE row[a]]
        /\ waiting' = waiting \ {q}
    BY <1>11 DEF RequestResolved, Close
  <2> QED
    BY <1>4, <1>5, <1>6, <2>1
<1> QED
  BY <1>7, <1>8, <1>9, <1>10, <1>11 DEF Provider

LEMMA HeldByReactor ==
    ASSUME Upsets \cap {"loss"} = {},
           IInv, Typed, ApprovalsHeld, Reactor, NEW r \in Approvals, r \in waiting'
    PROVE  Held(r)'
<1> USE DEF Typed, RowsOK
<1>0. [Next]_vars /\ ~ThreadCreate
  BY DEF Next, ThreadCreate
<1>1. r \in waiting /\ Held(r)
  <2>1. waiting' \subseteq waiting
    BY DEF Reactor, ThreadGone, TurnStartReaches, TurnStartFails, CleanupAfterSettle, SessionStops,
       SessionStopFails, ReplyUnknown, ReplyAlreadyResolved, ReplyWithoutThread, ReplyWithoutSession, SendReply,
       ReplyTaken, ReplyStale, ReplyFails, ReplyLost, SetSession
  <2> QED
    BY <2>1 DEF ApprovalsHeld
<1>2. r \in asked \ closed
  BY <1>1 DEF Held
<1>d. ASSUME intents # << >>, intents' = Tail(intents), sending' = sending, ~IsOwner(Head(intents), r),
             r \in asked' \ closed', row'[r] = row[r], owner'[r] = owner[r]
      PROVE  Held(r)'
  BY <1>0, <1>1, <1>d, HeadDropped, HeldKept
<1>3. CASE ThreadGone \/ TurnStartReaches \/ TurnStartFails \/ CleanupAfterSettle \/ SessionStops
           \/ SessionStopFails \/ SendReply
  <2>1. UNCHANGED <<asked, closed, row, owner>>
    BY <1>3 DEF ThreadGone, TurnStartReaches, TurnStartFails, CleanupAfterSettle, SessionStops,
       SessionStopFails, SendReply, sql
  <2>2. \A i \in InQueue(intents) \cup {sending} : IsOwner(i, r) => i \in InQueue(intents') \cup {sending'}
    BY <1>3, RepliesStay DEF ApprovesKept, IsOwner
  <2> QED
    BY <1>0, <1>1, <1>2, <2>1, <2>2, HeldKept
<1>4. CASE ReplyUnknown
  <2>1. /\ intents # << >> /\ intents' = Tail(intents) /\ sending' = sending
        /\ row[Head(intents).req] = "none" /\ asked' = asked
        /\ StaleFailure(Head(intents).req)
    BY <1>4 DEF ReplyUnknown, Handles, Handled
  <2>2. Head(intents).req # r
    BY <1>1, <2>1 DEF Held
  <2> QED
    BY <1>2, <1>d, <2>1, <2>2 DEF StaleFailure, Close, IsOwner
<1>5. CASE ReplyAlreadyResolved
  <2>1. /\ intents # << >> /\ intents' = Tail(intents) /\ sending' = sending
        /\ owner[Head(intents).req] # Head(intents).reply
        /\ UNCHANGED <<asked, closed, row, owner>>
    BY <1>5 DEF ReplyAlreadyResolved, Handles, Handled, sql
  <2> QED
    BY <1>2, <1>d, <2>1 DEF IsOwner
<1>6. CASE ReplyWithoutThread
  BY <1>1, <1>6 DEF ReplyWithoutThread, Held, sql
<1>r. ASSUME NEW q, ReplyFailure(q), asked' = asked, q = r
      PROVE  Held(r)'
  <2>1. closed' = closed /\ row'[r] = "pending"
    BY <1>1, <1>2, <1>r DEF ReplyFailure, Restores, Held
  <2> QED
    BY <1>2, <1>r, <2>1 DEF Held
<1>7. CASE ReplyWithoutSession
  <2>1. /\ intents # << >> /\ intents' = Tail(intents) /\ sending' = sending /\ asked' = asked
        /\ ReplyFailure(Head(intents).req)
    BY <1>7 DEF ReplyWithoutSession, Handles, Handled
  <2>2. CASE Head(intents).req # r
    BY <1>2, <1>d, <2>1, <2>2 DEF ReplyFailure, IsOwner
  <2> QED
    BY <1>r, <2>1, <2>2
<1>e. ASSUME intents' = intents, ~IsOwner(sending, r),
             r \in asked' \ closed', row'[r] = row[r], owner'[r] = owner[r]
      PROVE  Held(r)'
  BY <1>0, <1>1, <1>e, HeldKept
<1>8. CASE ReplyTaken
  BY <1>2, <1>8, <1>e DEF ReplyTaken, IsOwner, sql
<1>9. CASE ReplyStale
  <2>1. /\ intents' = intents /\ sending.req # r /\ asked' = asked /\ StaleFailure(sending.req)
    BY <1>1, <1>9 DEF ReplyStale
  <2> QED
    BY <1>2, <1>e, <2>1 DEF StaleFailure, Close, IsOwner
<1>10. CASE ReplyFails
  <2>1. /\ intents' = intents /\ asked' = asked /\ ReplyFailure(sending.req)
    BY <1>10 DEF ReplyFails
  <2>2. CASE sending.req # r
    BY <1>2, <1>e, <2>1, <2>2 DEF ReplyFailure, IsOwner
  <2> QED
    BY <1>r, <2>1, <2>2
<1>11. ~ReplyLost
  BY DEF ReplyLost, Upset
<1> QED
  BY <1>3, <1>4, <1>5, <1>6, <1>7, <1>8, <1>9, <1>10, <1>11 DEF Reactor

LEMMA ApprovalsHeldPreserved ==
    ASSUME Upsets \cap {"revert", "loss"} = {}, IInv, Typed, Accounts, ApprovalsHeld, [Next]_vars
    PROVE  ApprovalsHeld'
<1> SUFFICES ASSUME NEW r \in Approvals, r \in waiting' PROVE Held(r)'
  BY DEF ApprovalsHeld
<1>1. CASE Client \/ ThreadAutoSettle
  <2>1. ~ThreadCreate
    BY DEF ThreadCreate
  <2>2. waiting' = waiting
    BY <1>1, <2>1 DEF Client, ThreadDelete, ThreadArchive, ThreadUnarchive, ThreadSettle, ThreadAutoSettle,
       SettleEvents, ThreadUnsettle, ThreadSnooze, ThreadUnsnooze, ThreadPin, ThreadUnpin, ThreadTurnStart,
       MessageUserAppend, HistoryImport, SessionStop, ApprovalRespond, UserInputRespond, UserInputDismiss,
       agent
  <2> QED
    BY <1>1, <2>1, <2>2, HeldByClient DEF ApprovalsHeld
<1>2. CASE Provider
  BY <1>2, HeldByProvider DEF ApprovalsHeld
<1>3. CASE Reactor
  BY <1>3, HeldByReactor
<1>4. ~Restart
  BY DEF Restart
<1>5. CASE ScanForSettlement \/ GraceExpires \/ UNCHANGED vars
  <2>1. UNCHANGED <<asked, closed, row, owner, waiting, intents, sending, thread>>
    BY <1>5 DEF ScanForSettlement, GraceExpires, vars, sql, agent
  <2> QED
    BY <2>1 DEF ApprovalsHeld, Held, IsOwner, InQueue
<1> QED
  BY <1>1, <1>2, <1>3, <1>4, <1>5 DEF Next

(* No request is lost, however many clients reply at once and in whatever  *)
(* way each reply ends: as long as the provider is blocked on an approval, *)
(* the shell shows it or a reply is under way.  The hypothesis leaves out  *)
(* the two events that do lose one: a revert drops the activities by which *)
(* a failed reply is given back, and the record of a failure may fail.     *)
THEOREM NoApprovalLost ==
    ASSUME Upsets \cap {"revert", "loss"} = {}
    PROVE  Spec => []NoRequestLost
<1>1. Init => ApprovalsHeld
  BY DEF Init, ApprovalsHeld
<1>2. IInv /\ Typed /\ Accounts /\ ApprovalsHeld /\ [Next]_vars => ApprovalsHeld'
  BY ApprovalsHeldPreserved
<1>3. Typed /\ ApprovalsHeld => NoRequestLost
  <2> SUFFICES ASSUME Typed, ApprovalsHeld, thread.life = "live", NEW r \in waiting \cap Approvals,
                      r \notin PendingApprovals
               PROVE  UnderWay(r)
    BY DEF NoRequestLost
  <2>1. row[r] = "resolved"
    BY DEF ApprovalsHeld, Held, PendingApprovals, Typed, RowsOK
  <2>2. PICK i \in InQueue(intents) \cup {sending} : IsOwner(i, r)
    BY <2>1 DEF ApprovalsHeld, Held
  <2>3. CASE i = sending
    BY <2>2, <2>3 DEF IsOwner, UnderWay, NoReply
  <2>4. CASE i \in InQueue(intents)
    BY <2>2, <2>4 DEF InQueue, IsOwner, UnderWay
  <2> QED
    BY <2>3, <2>4
<1> QED
  BY <1>1, <1>2, <1>3, AccountsInductive, PTL DEF Spec

=============================================================================
