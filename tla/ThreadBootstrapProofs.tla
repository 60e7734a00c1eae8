----------------------- MODULE ThreadBootstrapProofs -----------------------
(***************************************************************************)
(* Proofs about the bootstrap of a thread, for any number of attempts,     *)
(* resends, deletions, restarts and failing dispatches.                    *)
(*                                                                         *)
(* The fence needs the count of the worker to be exact: what is            *)
(* outstanding is what is queued and what is being processed.  Then a      *)
(* drained worker has nothing from before the creation, and what comes     *)
(* later has a larger sequence.                                            *)
(*                                                                         *)
(* What follows from the fence for the session and for the rollback needs  *)
(* in addition that a program still works on the incarnation it created:   *)
(* see OneOwner.                                                           *)
(***************************************************************************)
EXTENDS ThreadBootstrap, TLAPS

(* Where a program is that has created its thread and passed the fence.    *)
Late == Running \ {"fetch", "create", "fence", "drain"}

(* Where a program is that has created nothing yet.                        *)
Early == {"idle", "fetch", "create"}

ReactorExact ==
    /\ reactor.seen <= reactor.handed
    /\ reactor.handed <= Len(log)
    /\ reactor.processing <= reactor.handed
    /\ \A k \in 1..Len(reactor.queue) : reactor.queue[k] \in 1..reactor.handed
    /\ reactor.outstanding = Len(reactor.queue) + (IF reactor.processing = 0 THEN 0 ELSE 1)

FibersFenced ==
    \A i \in Attempts :
       /\ fiber[i].inc <= Len(log)
       /\ fiber[i].created => fiber[i].pc \in Late
       /\ fiber[i].pc = "drain" => fiber[i].inc <= reactor.handed
       /\ fiber[i].pc \in Early => fiber[i].answer # "deleted"

IInv == TypeOK /\ ReactorExact /\ FibersFenced /\ FencePassed /\ DispositionTrue

-----------------------------------------------------------------------------
LEMMA InitInv == Init => IInv
<1> SUFFICES ASSUME Init PROVE IInv
  OBVIOUS
<1>1. Untracked \in Entries
  BY DEF Untracked, Entries, Phases, AgentStages
<1>2. IdleFiber \in Fibers
  BY <1>1 DEF IdleFiber, Fibers, Answers
<1>3. NoThread \in Threads
  BY DEF NoThread, Threads, Phases, AgentStages
<1>4. TypeOK
  <2>1. reactor \in [handed : Nat, seen : Nat, queue : Seq(Nat), processing : Nat, outstanding : Nat]
    BY DEF Init, Subscribed
  <2>2. provider \in [launching : Nat, session : Nat] /\ upsets \in [client : Nat, crash : Nat, fault : Nat]
    BY DEF Init, NoSession
  <2>3. log \in Seq({"created", "deleted"}) /\ queued \in Seq(Commands)
    BY DEF Init
  <2>4. fiber \in [Attempts -> Fibers] /\ thread \in Threads /\ tracker \in Entries
        /\ up \in BOOLEAN /\ retention \in BOOLEAN
    BY <1>1, <1>2, <1>3 DEF Init
  <2> QED
    BY <2>1, <2>2, <2>3, <2>4 DEF TypeOK
<1>5. ReactorExact
  <2>1. reactor = Subscribed(0) /\ log = << >>
    BY DEF Init
  <2>2. /\ reactor.seen = 0 /\ reactor.handed = 0 /\ reactor.processing = 0
        /\ reactor.queue = << >> /\ reactor.outstanding = 0
    BY <2>1 DEF Subscribed
  <2> QED
    BY <2>1, <2>2 DEF ReactorExact
<1>6. \A i \in Attempts : fiber[i] = IdleFiber
  BY DEF Init
<1>7. FibersFenced /\ FencePassed /\ DispositionTrue
  BY <1>6 DEF Init, FibersFenced, FencePassed, DispositionTrue, IdleFiber
<1> QED
  BY <1>4, <1>5, <1>7 DEF IInv

(* finish keeps the tracker's entry an entry.                              *)
LEMMA FinishType ==
    ASSUME tracker \in Entries, NEW phase \in Phases
    PROVE  finish(phase) \in Entries
BY DEF finish, Untracked, Entries, Phases, AgentStages, StageOutcome

(***************************************************************************)
(* A step of fiber i that neither creates a thread nor passes the fence.   *)
(***************************************************************************)
Calm(i) ==
    /\ fiber' \in [Attempts -> Fibers]
    /\ \A j \in Attempts \ {i} : fiber'[j] = fiber[j]
    /\ fiber'[i].inc = fiber[i].inc
    /\ fiber'[i].created => fiber[i].created /\ fiber'[i].pc \in Late
    /\ fiber'[i].pc # "drain"
    /\ fiber'[i].pc \in Early => fiber'[i].answer # "deleted"
    /\ fiber'[i].answer = "deleted" => fiber[i].answer = "deleted" \/ ~thread'.live

Logged == log' = log \/ log' = Append(log, "deleted")

LEMMA CalmKeeps ==
    ASSUME IInv, NEW i \in Attempts, Calm(i), TypeOK', Logged, UNCHANGED reactor,
           thread'.inc = thread.inc, thread'.live => thread.live
    PROVE  IInv'
<1>1. Len(log') \in Nat /\ Len(log) \in Nat /\ Len(log') >= Len(log)
  <2>1. log \in Seq({"created", "deleted"})
    BY DEF IInv, TypeOK
  <2>2. CASE log' = log
    BY <2>1, <2>2
  <2>3. CASE log' = Append(log, "deleted")
    BY <2>1, <2>3
  <2> QED
    BY <2>2, <2>3 DEF Logged
<1>2. fiber \in [Attempts -> Fibers] /\ reactor.handed \in Nat
      /\ \A j \in Attempts : fiber[j].inc \in Nat
  BY DEF IInv, TypeOK, Fibers
<1>3. ReactorExact'
  <2>1. ReactorExact /\ reactor' = reactor
    BY DEF IInv
  <2>2. reactor.handed <= Len(log')
    BY <1>1, <1>2, <2>1 DEF ReactorExact
  <2> QED
    BY <2>1, <2>2, Zenon DEF ReactorExact
<1>4. FibersFenced'
  <2> SUFFICES ASSUME NEW j \in Attempts
               PROVE  /\ fiber'[j].inc <= Len(log')
                      /\ fiber'[j].created => fiber'[j].pc \in Late
                      /\ fiber'[j].pc = "drain" => fiber'[j].inc <= reactor.handed
                      /\ fiber'[j].pc \in Early => fiber'[j].answer # "deleted"
    BY DEF FibersFenced
  <2>1. fiber'[j].inc = fiber[j].inc /\ fiber[j].inc <= Len(log)
    BY DEF Calm, IInv, FibersFenced
  <2>2. fiber'[j].inc <= Len(log')
    BY <1>1, <1>2, <2>1
  <2>3. fiber'[j].created => fiber'[j].pc \in Late
    BY DEF Calm, IInv, FibersFenced
  <2>4. fiber'[j].pc = "drain" => fiber'[j].inc <= reactor.handed
    BY DEF Calm, IInv, FibersFenced
  <2>5. fiber'[j].pc \in Early => fiber'[j].answer # "deleted"
    BY DEF Calm, IInv, FibersFenced
  <2> QED
    BY <2>2, <2>3, <2>4, <2>5
<1>5. FencePassed'
  <2>1. \A j \in Attempts : fiber'[j].created => fiber[j].created /\ fiber'[j].inc = fiber[j].inc
    BY DEF Calm
  <2> QED
    BY <2>1 DEF IInv, FencePassed
<1>6. DispositionTrue'
  <2>1. \A j \in Attempts : fiber'[j].inc = fiber[j].inc
          /\ (fiber'[j].answer = "deleted" => fiber[j].answer = "deleted" \/ ~thread'.live)
    BY DEF Calm
  <2> QED
    BY <2>1 DEF IInv, DispositionTrue
<1> QED
  BY <1>3, <1>4, <1>5, <1>6 DEF IInv

Providers == [launching : Nat, session : Nat]
Upsets == [client : Nat, crash : Nat, fault : Nat]

(* What a step leaves of the variables that the fence is not about.        *)
Typed ==
    /\ thread' \in Threads
    /\ thread'.inc = thread.inc
    /\ thread'.live => thread.live
    /\ tracker' \in Entries
    /\ retention' \in BOOLEAN
    /\ provider' \in Providers
    /\ upsets' \in Upsets

LEMMA CalmStepKeeps ==
    ASSUME IInv, NEW i \in Attempts, Calm(i), Typed, Logged,
           queued' \in Seq(Commands), UNCHANGED <<up, reactor>>
    PROVE  IInv'
<1>1. log' \in Seq({"created", "deleted"})
  <2>1. log \in Seq({"created", "deleted"})
    BY DEF IInv, TypeOK
  <2>2. CASE log' = log
    BY <2>1, <2>2
  <2>3. CASE log' = Append(log, "deleted")
    BY <2>1, <2>3
  <2> QED
    BY <2>2, <2>3 DEF Logged
<1>2. TypeOK'
  BY <1>1 DEF IInv, TypeOK, Calm, Typed, Providers, Upsets
<1> QED
  BY <1>2, CalmKeeps DEF Typed

LEMMA Unwraps ==
    ASSUME IInv
    PROVE  /\ fiber \in [Attempts -> Fibers] /\ thread \in Threads /\ tracker \in Entries
           /\ retention \in BOOLEAN /\ provider \in Providers /\ upsets \in Upsets
           /\ queued \in Seq(Commands) /\ log \in Seq({"created", "deleted"})
           /\ Untracked \in Entries
           /\ \A i \in Attempts :
                 /\ fiber[i] \in Fibers
                 /\ fiber[i].created => fiber[i].pc \in Late
                 /\ fiber[i].pc \in Early => fiber[i].answer # "deleted"
BY DEF IInv, TypeOK, FibersFenced, Providers, Upsets, Untracked, Entries, Phases, AgentStages

LEMMA UpsetType ==
    ASSUME upsets \in Upsets, NEW kind \in {"client", "crash", "fault"}, Upset(kind)
    PROVE  upsets' \in Upsets
BY DEF Upsets, Upset

(* The fiber becomes g.                                                    *)
LEMMA Becomes ==
    ASSUME IInv, NEW i \in Attempts, NEW g \in Fibers, fiber' = [fiber EXCEPT ![i] = g],
           g.inc = fiber[i].inc,
           g.created => fiber[i].created /\ g.pc \in Late,
           g.pc # "drain",
           g.pc \in Early => g.answer # "deleted",
           g.answer = "deleted" => fiber[i].answer = "deleted" \/ ~thread'.live
    PROVE  Calm(i)
<1>1. fiber \in [Attempts -> Fibers]
  BY Unwraps
<1> QED
  BY <1>1 DEF Calm

(* Another place, everything else as it was.                               *)
LEMMA GotoCalm ==
    ASSUME IInv, NEW i \in Attempts, NEW pc \in Running \cup {"answered"},
           fiber[i].created => pc \in Late, pc # "drain",
           pc \in Early => fiber[i].pc \in Early, Goto(i, pc)
    PROVE  Calm(i)
<1> DEFINE g == [fiber[i] EXCEPT !.pc = pc]
<1>1. fiber[i] \in Fibers /\ fiber \in [Attempts -> Fibers]
      /\ (fiber[i].pc \in Early => fiber[i].answer # "deleted")
  BY Unwraps
<1>2. g \in Fibers /\ g.inc = fiber[i].inc /\ g.created = fiber[i].created /\ g.pc = pc
      /\ g.answer = fiber[i].answer
  BY <1>1 DEF Fibers
<1>3. fiber' = [fiber EXCEPT ![i] = g]
  BY <1>1 DEF Goto
<1> HIDE DEF g
<1> QED
  BY <1>1, <1>2, <1>3, Becomes

LEMMA AnswerCalm ==
    ASSUME IInv, NEW i \in Attempts, NEW answer \in Answers, Answer(i, answer),
           answer = "deleted" => ~thread'.live
    PROVE  Calm(i)
<1> DEFINE g == [IdleFiber EXCEPT !.pc = "answered", !.inc = fiber[i].inc,
                                  !.unheard = fiber[i].unheard, !.answer = answer]
<1>1. fiber[i] \in Fibers /\ Untracked \in Entries
  BY Unwraps
<1>2. g \in Fibers /\ g.inc = fiber[i].inc /\ ~g.created /\ g.pc = "answered" /\ g.answer = answer
  BY <1>1 DEF Fibers, IdleFiber
<1>3. fiber' = [fiber EXCEPT ![i] = g]
  BY DEF Answer
<1> HIDE DEF g
<1> QED
  BY <1>2, <1>3, Becomes DEF Early

LEMMA StopsCalm ==
    ASSUME IInv, NEW i \in Attempts, NEW pc \in {"failing", "cancelling"},
           NEW phase \in Phases, Stops(i, pc, phase)
    PROVE  Calm(i) /\ tracker' \in Entries /\ retention' \in BOOLEAN
<1> DEFINE g == [fiber[i] EXCEPT !.pc = pc, !.snapshot = finish(phase),
                                 !.unheard = unheard(i, phase)]
<1>1. fiber[i] \in Fibers /\ fiber \in [Attempts -> Fibers] /\ tracker \in Entries
      /\ retention \in BOOLEAN
  BY Unwraps
<1>2. finish(phase) \in Entries
  BY <1>1, FinishType
<1>3. pc \in Running /\ pc \in Late /\ pc \notin Early
  BY DEF Running, Unwinding, Interruptible, Late, Early
<1>4. g \in Fibers /\ g.inc = fiber[i].inc /\ g.created = fiber[i].created /\ g.pc = pc
      /\ g.answer = fiber[i].answer
  BY <1>1, <1>2, <1>3 DEF Fibers, unheard
<1>5. fiber' = [fiber EXCEPT ![i] = g]
  BY <1>1 DEF Stops
<1>6. Calm(i)
  <2> HIDE DEF g
  <2> QED
    BY <1>3, <1>4, <1>5, Becomes
<1> QED
  BY <1>1, <1>2, <1>6 DEF Stops, Finish

LEMMA RecordTyped ==
    ASSUME IInv, NEW t \in Entries, record(t)
    PROVE  /\ thread' \in Threads /\ thread'.inc = thread.inc /\ thread'.live = thread.live
           /\ upsets' \in Upsets
<1>1. thread \in Threads /\ upsets \in Upsets /\ t.phase \in Phases /\ t.agent \in AgentStages
  BY Unwraps DEF Entries
<1>2. CASE UNCHANGED <<thread, upsets>>
  BY <1>1, <1>2
<1>3. CASE thread' = [thread EXCEPT !.record = t.phase, !.agent = t.agent] /\ upsets' = upsets
  BY <1>1, <1>3 DEF Threads
<1>4. CASE Upset("fault") /\ thread' = thread
  BY <1>1, <1>4, UpsetType
<1> QED
  BY <1>2, <1>3, <1>4 DEF record

(* A step that leaves the fibers and the reactor alone.                    *)
LEMMA SteadyKeeps ==
    ASSUME IInv, UNCHANGED <<fiber, reactor>>, up' \in BOOLEAN, Typed, Logged,
           queued' \in Seq(Commands)
    PROVE  IInv'
<1>1. log \in Seq({"created", "deleted"}) /\ fiber \in [Attempts -> Fibers]
  BY Unwraps
<1>2. log' \in Seq({"created", "deleted"}) /\ Len(log') \in Nat /\ Len(log) \in Nat
      /\ Len(log') >= Len(log)
  <2>1. CASE log' = log
    BY <1>1, <2>1
  <2>2. CASE log' = Append(log, "deleted")
    BY <1>1, <2>2
  <2> QED
    BY <2>1, <2>2 DEF Logged
<1>3. TypeOK'
  BY <1>2 DEF IInv, TypeOK, Typed, Providers, Upsets
<1>4. reactor.handed \in Nat /\ \A j \in Attempts : fiber[j].inc \in Nat
  BY <1>1 DEF IInv, TypeOK, Fibers
<1>5. ReactorExact'
  <2>1. reactor.handed <= Len(log')
    BY <1>2, <1>4 DEF IInv, ReactorExact
  <2> QED
    BY <2>1, Zenon DEF IInv, ReactorExact
<1>6. FibersFenced'
  <2>1. \A j \in Attempts : fiber[j].inc <= Len(log')
    BY <1>2, <1>4 DEF IInv, FibersFenced
  <2> QED
    BY <2>1, Zenon DEF IInv, FibersFenced
<1>7. FencePassed'
  BY Zenon DEF IInv, FencePassed
<1>8. DispositionTrue'
  BY DEF IInv, DispositionTrue, Typed
<1> QED
  BY <1>3, <1>5, <1>6, <1>7, <1>8 DEF IInv

-----------------------------------------------------------------------------
(* The steps of a bootstrap other than its creation and its fence.         *)
ProgramStep(i) ==
    \/ Send(i) \/ Fetch(i) \/ AppendMessage(i) \/ CommitRecord(i) \/ CommitPreparing(i)
    \/ Checkout(i) \/ FinishCheckout(i) \/ RunSetup(i) \/ StartTurn(i) \/ Settle(i)
    \/ Unwind(i) \/ RemoveWorktree(i) \/ Rollback(i) \/ RollbackNothing(i)
    \/ MarkSessionFailed(i) \/ RollbackFails(i)
    \/ \E pc \in {"append", "submodules", "handoff"} : FailsAt(i, pc)

LEMMA CommandTyped ==
    ASSUME NEW i \in Attempts, NEW kind \in Waiting, NEW entry \in Entries
    PROVE  Command(i, kind, entry) \in Commands
BY DEF Command, Commands

(* The command decided next is taken off the queue.                        *)
LEMMA DecidingTyped ==
    ASSUME IInv, NEW i \in Attempts, NEW kind \in Waiting, Deciding(i, kind)
    PROVE  Tail(queued) \in Seq(Commands) /\ Head(queued).entry \in Entries
<1>1. queued \in Seq(Commands) /\ queued # << >>
  BY Unwraps DEF Deciding
<1>2. Head(queued) \in Commands /\ Tail(queued) \in Seq(Commands)
  BY <1>1
<1> QED
  BY <1>2 DEF Commands

LEMMA GoesOnCalm ==
    ASSUME IInv, NEW i \in Attempts, NEW q \in Seq(Commands), GoesOn(i, q),
           fiber[i].pc \in {"append", "record"}
    PROVE  Calm(i) /\ queued' \in Seq(Commands)
<1>1. PICK pc \in {"prepare", "script"} : Goto(i, pc)
  BY DEF GoesOn
<1>2. pc \in Running /\ pc \in Late /\ pc # "drain" /\ pc \notin Early
  BY DEF Running, Late, Interruptible, Early
<1>3. Calm(i)
  BY <1>1, <1>2, GotoCalm
<1>4. Command(i, "prepare", Untracked) \in Commands
  BY CommandTyped, Unwraps DEF Waiting
<1>5. queued' = q \/ queued' = Append(q, Command(i, "prepare", Untracked))
  BY DEF GoesOn
<1>6. queued' \in Seq(Commands)
  BY <1>4, <1>5
<1> QED
  BY <1>3, <1>6

LEMMA ProgramStepKeeps ==
    ASSUME IInv, NEW i \in Attempts, ProgramStep(i)
    PROVE  IInv'
<1>1. /\ fiber \in [Attempts -> Fibers] /\ thread \in Threads /\ tracker \in Entries
      /\ retention \in BOOLEAN /\ provider \in Providers /\ upsets \in Upsets
      /\ queued \in Seq(Commands) /\ log \in Seq({"created", "deleted"}) /\ Untracked \in Entries
      /\ fiber[i] \in Fibers /\ (fiber[i].created => fiber[i].pc \in Late)
      /\ (fiber[i].pc \in Early => fiber[i].answer # "deleted")
  BY Unwraps
<1>2. ASSUME UNCHANGED <<thread, tracker, retention, provider, upsets>> PROVE Typed
  BY <1>1, <1>2 DEF Typed
<1>3. ASSUME UNCHANGED log PROVE Logged
  BY <1>3 DEF Logged
<1>4. ASSUME UNCHANGED <<up, log, queued, reactor>>, Calm(i), Typed PROVE IInv'
  BY <1>1, <1>3, <1>4, CalmStepKeeps
<1>5. \A pc \in {"record", "prepare", "script", "checkout", "submodules", "handoff", "settle",
                 "failing", "cancelling", "unlink", "rollback", "apologise"} :
         pc \in Running /\ pc \in Late /\ pc # "drain" /\ pc \notin Early
  BY DEF Running, Late, Interruptible, Unwinding, Early
<1>6. ASSUME Fails(i), UNCHANGED <<up, log, queued, reactor, thread, provider>>, upsets' \in Upsets
      PROVE  IInv'
  <2>1. Calm(i) /\ tracker' \in Entries /\ retention' \in BOOLEAN
    BY <1>6, StopsCalm DEF Fails, Phases
  <2>2. Typed
    BY <1>1, <1>6, <2>1 DEF Typed
  <2> QED
    BY <1>4, <1>6, <2>1, <2>2
<1>7. CASE Send(i)
  <2>1. ~fiber[i].created
    BY <1>1, <1>7 DEF Send, Late, Running, Interruptible, Unwinding
  <2>2. Calm(i)
    BY <1>7, <2>1, GotoCalm DEF Send, Running, Interruptible, Early
  <2>3. upsets' \in Upsets
    BY <1>1, <1>7, UpsetType DEF Send
  <2>4. tracker' \in Entries /\ retention' \in BOOLEAN
    BY <1>7 DEF Send, begin, Entries, Phases, AgentStages
  <2>5. Typed
    BY <1>1, <1>7, <2>3, <2>4 DEF Send, Typed
  <2> QED
    BY <1>4, <1>7, <2>2, <2>5 DEF Send
<1>8. CASE Fetch(i)
  <2>1. ~fiber[i].created
    BY <1>1, <1>8 DEF Fetch, At, Late
  <2>2. CASE Fails(i) /\ queued' = queued
    BY <1>1, <1>6, <1>8, <2>2 DEF Fetch
  <2>3. ASSUME NEW repo \in BOOLEAN,
               fiber' = [fiber EXCEPT ![i].pc = "create", ![i].prepare = repo],
               queued' = Append(queued, Command(i, "create", Untracked)),
               UNCHANGED <<tracker, retention>>
        PROVE  IInv'
    <3> DEFINE g == [fiber[i] EXCEPT !.pc = "create", !.prepare = repo]
    <3>1. g \in Fibers /\ g.inc = fiber[i].inc /\ ~g.created /\ g.pc = "create"
          /\ g.answer = fiber[i].answer /\ g.answer # "deleted"
      BY <1>1, <1>8, <2>1 DEF Fibers, Running, Interruptible, Fetch, At, Early
    <3>2. fiber' = [fiber EXCEPT ![i] = g]
      BY <1>1, <2>3
    <3>3. Calm(i)
      <4> HIDE DEF g
      <4> QED
        BY <3>1, <3>2, Becomes
    <3>4. queued' \in Seq(Commands)
      <4>1. Command(i, "create", Untracked) \in Commands
        BY <1>1, CommandTyped DEF Waiting
      <4> QED
        BY <1>1, <2>3, <4>1
    <3>5. UNCHANGED <<up, log, thread, reactor, provider, upsets>>
      BY <1>8 DEF Fetch
    <3> QED
      BY <1>2, <1>3, <2>3, <3>3, <3>4, <3>5, CalmStepKeeps
  <2> QED
    BY <1>8, <2>2, <2>3 DEF Fetch
<1>9. CASE AppendMessage(i)
  <2>0. fiber[i].pc = "append" /\ UNCHANGED <<up, log, thread, tracker, retention, reactor, provider, upsets>>
    BY <1>9 DEF AppendMessage, DispatchAt, At
  <2>1. Calm(i) /\ queued' \in Seq(Commands)
    <3>1. CASE GoesOn(i, queued)
      BY <1>1, <2>0, <3>1, GoesOnCalm
    <3>2. CASE Goto(i, "record") /\ queued' = Append(queued, Command(i, "record", tracker))
      <4>1. Calm(i)
        BY <1>5, <3>2, GotoCalm
      <4>2. Command(i, "record", tracker) \in Commands
        BY <1>1, CommandTyped DEF Waiting
      <4>3. queued' \in Seq(Commands)
        BY <1>1, <3>2, <4>2
      <4> QED
        BY <4>1, <4>3
    <3> QED
      BY <1>9, <3>1, <3>2 DEF AppendMessage
  <2> QED
    BY <1>2, <1>3, <2>0, <2>1, CalmStepKeeps
<1>10. CASE CommitRecord(i)
  <2>1. Tail(queued) \in Seq(Commands) /\ Head(queued).entry \in Entries
    BY <1>10, DecidingTyped DEF CommitRecord, Waiting
  <2>2. Typed
    BY <1>1, <1>10, <2>1, RecordTyped DEF CommitRecord, Typed
  <2>3. UNCHANGED <<up, log, reactor>>
    BY <1>10 DEF CommitRecord
  <2>4. CASE fiber[i].pc = "record" /\ GoesOn(i, Tail(queued))
    <3>1. Calm(i) /\ queued' \in Seq(Commands)
      BY <2>1, <2>4, GoesOnCalm
    <3> QED
      BY <1>3, <2>2, <2>3, <3>1, CalmStepKeeps
  <2>5. CASE fiber' = fiber /\ queued' = Tail(queued)
    <3>1. up' \in BOOLEAN
      BY <2>3 DEF IInv, TypeOK
    <3> QED
      BY <1>3, <2>1, <2>2, <2>3, <2>5, <3>1, SteadyKeeps
  <2> QED
    BY <1>10, <2>4, <2>5 DEF CommitRecord
<1>11. CASE CommitPreparing(i)
  <2>1. queued' \in Seq(Commands) /\ UNCHANGED <<up, log, reactor, provider>>
    BY <1>11, DecidingTyped DEF CommitPreparing, Waiting
  <2>2. thread' \in Threads /\ thread'.inc = thread.inc /\ thread'.live = thread.live
    BY <1>1, <1>11 DEF CommitPreparing, Threads
  <2>3. upsets' \in Upsets
    BY <1>1, <1>11, UpsetType DEF CommitPreparing
  <2>4. up' \in BOOLEAN
    BY <2>1 DEF IInv, TypeOK
  <2>5. CASE UNCHANGED <<fiber, tracker, retention>>
    <3>1. Typed
      BY <1>1, <2>1, <2>2, <2>3, <2>5 DEF Typed
    <3> QED
      BY <1>3, <2>1, <2>4, <2>5, <3>1, SteadyKeeps
  <2>6. CASE Fails(i)
    <3>1. Calm(i) /\ tracker' \in Entries /\ retention' \in BOOLEAN
      BY <2>6, StopsCalm DEF Fails, Phases
    <3>2. Typed
      BY <1>1, <2>1, <2>2, <2>3, <3>1 DEF Typed
    <3> QED
      BY <1>3, <2>1, <3>1, <3>2, CalmStepKeeps
  <2>7. CASE /\ fiber' = [fiber EXCEPT ![i].pc = "checkout", ![i].preparing = TRUE]
             /\ fiber[i].pc = "prepare" /\ UNCHANGED <<tracker, retention>>
    <3> DEFINE g == [fiber[i] EXCEPT !.pc = "checkout", !.preparing = TRUE]
    <3>1. g \in Fibers /\ g.inc = fiber[i].inc /\ g.created = fiber[i].created
          /\ g.pc = "checkout" /\ g.answer = fiber[i].answer
      BY <1>1, <1>5 DEF Fibers
    <3>2. fiber' = [fiber EXCEPT ![i] = g]
      BY <1>1, <2>7
    <3>3. Calm(i)
      <4> HIDE DEF g
      <4> QED
        BY <1>5, <3>1, <3>2, Becomes
    <3>4. Typed
      BY <1>1, <2>1, <2>2, <2>3, <2>7 DEF Typed
    <3> QED
      BY <1>3, <2>1, <3>3, <3>4, CalmStepKeeps
  <2> QED
    BY <1>11, <2>5, <2>6, <2>7 DEF CommitPreparing
<1>12. ASSUME NEW g \in Fibers, fiber' = [fiber EXCEPT ![i] = g],
              g.inc = fiber[i].inc, g.created = fiber[i].created, g.pc \in Late,
              g.answer = fiber[i].answer \/ g.answer # "deleted"
       PROVE  Calm(i)
  <2>1. g.pc \notin Early /\ g.pc # "drain"
    BY <1>12 DEF Late, Running, Interruptible, Unwinding, Early
  <2> QED
    BY <1>12, <2>1, Becomes
<1>13. CASE Checkout(i)
  <2>1. CASE Fails(i)
    BY <1>1, <1>6, <1>13, <2>1 DEF Checkout
  <2>2. CASE fiber' = [fiber EXCEPT ![i].pc = "submodules", ![i].worktree = TRUE]
             /\ UNCHANGED <<tracker, retention>>
    <3> DEFINE g == [fiber[i] EXCEPT !.pc = "submodules", !.worktree = TRUE]
    <3>1. g \in Fibers /\ g.inc = fiber[i].inc /\ g.created = fiber[i].created
          /\ g.pc = "submodules" /\ g.answer = fiber[i].answer
      BY <1>1, <1>5 DEF Fibers
    <3>2. fiber' = [fiber EXCEPT ![i] = g]
      BY <1>1, <2>2
    <3>3. Calm(i)
      <4> HIDE DEF g
      <4> QED
        BY <1>5, <1>12, <3>1, <3>2
    <3> QED
      BY <1>2, <1>4, <1>13, <2>2, <3>3 DEF Checkout
  <2> QED
    BY <1>13, <2>1, <2>2 DEF Checkout
<1>14. CASE FinishCheckout(i)
  <2>1. CASE Fails(i)
    BY <1>1, <1>6, <1>14, <2>1 DEF FinishCheckout
  <2>2. CASE Goto(i, "script") /\ UNCHANGED <<tracker, retention>>
    <3>1. Calm(i)
      BY <1>5, <2>2, GotoCalm
    <3> QED
      BY <1>2, <1>4, <1>14, <2>2, <3>1 DEF FinishCheckout
  <2> QED
    BY <1>14, <2>1, <2>2 DEF FinishCheckout
<1>15. CASE RunSetup(i)
  <2>1. PICK async \in BOOLEAN : fiber' = [fiber EXCEPT ![i].pc = "handoff", ![i].async = async]
    BY <1>15 DEF RunSetup
  <2> DEFINE g == [fiber[i] EXCEPT !.pc = "handoff", !.async = async]
  <2>2. g \in Fibers /\ g.inc = fiber[i].inc /\ g.created = fiber[i].created
        /\ g.pc = "handoff" /\ g.answer = fiber[i].answer
    BY <1>1, <1>5 DEF Fibers
  <2>3. fiber' = [fiber EXCEPT ![i] = g]
    BY <1>1, <2>1
  <2>4. Calm(i)
    <3> HIDE DEF g
    <3> QED
      BY <1>5, <1>12, <2>2, <2>3
  <2>5. Typed
    BY <1>1, <1>15 DEF RunSetup, Typed, Entries, AgentStages
  <2> QED
    BY <1>4, <1>15, <2>4, <2>5 DEF RunSetup
<1>16. CASE StartTurn(i)
  <2> DEFINE g == [fiber[i] EXCEPT !.pc = "settle",
                                   !.answer = IF fiber[i].async THEN "started" ELSE "none"]
  <2>1. g \in Fibers /\ g.inc = fiber[i].inc /\ g.created = fiber[i].created
        /\ g.pc = "settle" /\ g.answer # "deleted"
    BY <1>1, <1>5 DEF Fibers, Answers
  <2>2. fiber' = [fiber EXCEPT ![i] = g]
    BY <1>1, <1>16 DEF StartTurn
  <2>3. Calm(i)
    <3> HIDE DEF g
    <3> QED
      BY <1>5, <1>12, <2>1, <2>2
  <2>4. thread' \in Threads /\ thread'.inc = thread.inc /\ thread'.live = thread.live
    BY <1>1, <1>16 DEF StartTurn, TurnRequested, Threads
  <2>5. tracker' \in Entries
    BY <1>1, <1>16 DEF StartTurn, Entries, AgentStages
  <2>6. Typed
    BY <1>1, <1>16, <2>4, <2>5 DEF StartTurn, Typed
  <2> QED
    BY <1>4, <1>16, <2>3, <2>6 DEF StartTurn
<1>17. CASE Settle(i)
  <2>1. Calm(i)
    BY <1>17, AnswerCalm DEF Settle, Answers
  <2>2. finish("done") \in Entries
    BY <1>1, FinishType DEF Phases
  <2>3. thread' \in Threads /\ thread'.inc = thread.inc /\ thread'.live = thread.live
        /\ upsets' \in Upsets
    BY <1>17, <2>2, RecordTyped DEF Settle
  <2>4. Typed
    BY <1>1, <1>17, <2>2, <2>3 DEF Settle, Finish, Typed
  <2> QED
    BY <1>4, <1>17, <2>1, <2>4 DEF Settle
<1>18. CASE Unwind(i)
  <2>1. PICK pc \in {"unlink", "rollback"} :
           fiber' = [fiber EXCEPT ![i].snapshot = Untracked, ![i].pc = pc]
    BY <1>18 DEF Unwind
  <2> DEFINE g == [fiber[i] EXCEPT !.snapshot = Untracked, !.pc = pc]
  <2>2. g \in Fibers /\ g.inc = fiber[i].inc /\ g.created = fiber[i].created
        /\ g.pc = pc /\ g.answer = fiber[i].answer
    BY <1>1, <1>5 DEF Fibers
  <2>3. fiber' = [fiber EXCEPT ![i] = g]
    BY <1>1, <2>1
  <2>4. Calm(i)
    <3> HIDE DEF g
    <3> QED
      BY <1>5, <1>12, <2>2, <2>3
  <2>5. fiber[i].snapshot \in Entries
    BY <1>1 DEF Fibers
  <2>6. Typed
    BY <1>1, <1>18, <2>5, RecordTyped DEF Unwind, Typed
  <2> QED
    BY <1>4, <1>18, <2>4, <2>6 DEF Unwind
<1>19. CASE RemoveWorktree(i)
  <2>1. PICK removed \in BOOLEAN :
           fiber' = [fiber EXCEPT ![i].pc = "rollback", ![i].worktree = ~removed]
    BY <1>19 DEF RemoveWorktree
  <2> DEFINE g == [fiber[i] EXCEPT !.pc = "rollback", !.worktree = ~removed]
  <2>2. g \in Fibers /\ g.inc = fiber[i].inc /\ g.created = fiber[i].created
        /\ g.pc = "rollback" /\ g.answer = fiber[i].answer
    BY <1>1, <1>5 DEF Fibers
  <2>3. fiber' = [fiber EXCEPT ![i] = g]
    BY <1>1, <2>1
  <2>4. Calm(i)
    <3> HIDE DEF g
    <3> QED
      BY <1>5, <1>12, <2>2, <2>3
  <2> QED
    BY <1>2, <1>4, <1>19, <2>4 DEF RemoveWorktree
<1>20. CASE Rollback(i)
  <2>1. thread' \in Threads /\ thread'.inc = thread.inc /\ ~thread'.live
    BY <1>1, <1>20 DEF Rollback, Deleted, Threads
  <2>2. Calm(i)
    BY <1>20, <2>1, AnswerCalm DEF Rollback, Answers
  <2>3. Typed /\ Logged
    BY <1>1, <1>20, <2>1 DEF Rollback, Deleted, Typed, Logged
  <2> QED
    BY <1>1, <1>20, <2>2, <2>3, CalmStepKeeps DEF Rollback
<1>21. CASE RollbackNothing(i)
  <2>1. Calm(i)
    BY <1>21, AnswerCalm DEF RollbackNothing, Answers
  <2> QED
    BY <1>2, <1>4, <1>21, <2>1 DEF RollbackNothing
<1>22. CASE MarkSessionFailed(i)
  <2>1. Calm(i)
    BY <1>22, AnswerCalm DEF MarkSessionFailed, Answers
  <2>2. thread' \in Threads /\ thread'.inc = thread.inc /\ thread'.live = thread.live
    BY <1>1, <1>22 DEF MarkSessionFailed, Threads
  <2>3. upsets' \in Upsets
    BY <1>1, <1>22, UpsetType DEF MarkSessionFailed
  <2>4. Typed
    BY <1>1, <1>22, <2>2, <2>3 DEF MarkSessionFailed, Typed
  <2> QED
    BY <1>4, <1>22, <2>1, <2>4 DEF MarkSessionFailed
<1>23. CASE RollbackFails(i)
  <2>1. Calm(i)
    BY <1>5, <1>23, AnswerCalm, GotoCalm DEF RollbackFails, Answers
  <2>2. upsets' \in Upsets
    BY <1>1, <1>23, UpsetType DEF RollbackFails
  <2>3. thread' \in Threads /\ thread'.inc = thread.inc /\ (thread'.live => thread.live) /\ Logged
    BY <1>1, <1>23 DEF RollbackFails, Deleted, Threads, Logged
  <2>4. Typed
    BY <1>1, <1>23, <2>2, <2>3 DEF RollbackFails, Typed
  <2> QED
    BY <1>1, <1>23, <2>1, <2>3, <2>4, CalmStepKeeps DEF RollbackFails
<1>24. ASSUME NEW pc \in {"append", "submodules", "handoff"}, FailsAt(i, pc)
       PROVE  IInv'
  <2>1. Calm(i) /\ tracker' \in Entries /\ retention' \in BOOLEAN
    BY <1>24, StopsCalm DEF FailsAt, Fails, Phases
  <2>2. thread' \in Threads /\ thread'.inc = thread.inc /\ thread'.live = thread.live
    BY <1>1, <1>24 DEF FailsAt, TurnRequested, Threads
  <2>3. upsets' \in Upsets
    BY <1>1, <1>24, UpsetType DEF FailsAt
  <2>4. Typed
    BY <1>1, <1>24, <2>1, <2>2, <2>3 DEF FailsAt, Typed
  <2> QED
    BY <1>4, <1>24, <2>1, <2>4 DEF FailsAt
<1> QED
  BY <1>7, <1>8, <1>9, <1>10, <1>11, <1>13, <1>14, <1>15, <1>16, <1>17, <1>18, <1>19, <1>20,
     <1>21, <1>22, <1>23, <1>24 DEF ProgramStep

-----------------------------------------------------------------------------
(* The engine decides a thread.create: the new incarnation is later than   *)
(* every one that a fiber knows.                                           *)
LEMMA CreatedKeeps ==
    ASSUME IInv, Created, TypeOK', UNCHANGED reactor,
           \A j \in Attempts :
              /\ \/ fiber'[j].inc = fiber[j].inc
                 \/ fiber'[j].inc = Len(log) + 1 /\ fiber'[j].answer # "deleted"
              /\ fiber'[j].created => /\ fiber[j].created /\ fiber'[j].pc \in Late
                                     /\ fiber'[j].inc = fiber[j].inc
              /\ fiber'[j].pc = "drain" => fiber'[j].inc <= reactor.handed
              /\ fiber'[j].pc \in Early => fiber'[j].answer # "deleted"
              /\ fiber'[j].answer = "deleted" => fiber[j].answer = "deleted"
    PROVE  IInv'
<1>1. /\ fiber \in [Attempts -> Fibers] /\ log \in Seq({"created", "deleted"})
      /\ reactor.handed \in Nat
  BY Unwraps DEF IInv, TypeOK
<1>2. PICK n \in Nat : n = Len(log)
  BY <1>1
<1>3. Len(log') = n + 1 /\ thread'.inc = n + 1
  BY <1>1, <1>2 DEF Created, NoThread
<1>4. \A j \in Attempts : fiber[j].inc \in Nat /\ fiber[j].inc <= n
  BY <1>1, <1>2 DEF IInv, FibersFenced, Fibers
<1>5. ReactorExact'
  <2>1. reactor.handed <= Len(log')
    BY <1>1, <1>2, <1>3 DEF IInv, ReactorExact
  <2> QED
    BY <2>1, Zenon DEF IInv, ReactorExact
<1>6. FibersFenced'
  <2>1. \A j \in Attempts : fiber'[j].inc <= Len(log')
    BY <1>2, <1>3, <1>4
  <2> QED
    BY <2>1 DEF FibersFenced
<1>7. FencePassed'
  BY DEF IInv, FencePassed
<1>8. DispositionTrue'
  <2> SUFFICES ASSUME NEW j \in Attempts, fiber'[j].answer = "deleted"
               PROVE  thread'.inc # fiber'[j].inc
    BY DEF DispositionTrue
  <2>1. fiber'[j].inc = fiber[j].inc
    OBVIOUS
  <2> QED
    BY <1>3, <1>4, <2>1
<1> QED
  BY <1>5, <1>6, <1>7, <1>8 DEF IInv

LEMMA CommitCreateKeeps ==
    ASSUME IInv, NEW i \in Attempts, CommitCreate(i)
    PROVE  IInv'
<1>1. /\ fiber \in [Attempts -> Fibers] /\ thread \in Threads /\ tracker \in Entries
      /\ retention \in BOOLEAN /\ provider \in Providers /\ upsets \in Upsets
      /\ queued \in Seq(Commands) /\ log \in Seq({"created", "deleted"})
      /\ \A j \in Attempts : /\ fiber[j].created => fiber[j].pc \in Late
                             /\ fiber[j].pc \in Early => fiber[j].answer # "deleted"
  BY Unwraps
<1>2. queued' \in Seq(Commands) /\ UNCHANGED <<up, reactor, provider>>
  BY DecidingTyped DEF CommitCreate, Waiting
<1>3. upsets' \in Upsets
  BY <1>1, UpsetType DEF CommitCreate
<1>4. up' \in BOOLEAN
  BY <1>2 DEF IInv, TypeOK
<1>5. CASE /\ IF fiber[i].pc = "create" THEN Fails(i) ELSE UNCHANGED <<fiber, tracker, retention>>
           /\ UNCHANGED <<log, thread>>
  <2>1. Logged
    BY <1>5 DEF Logged
  <2>2. CASE Fails(i)
    <3>1. Calm(i) /\ tracker' \in Entries /\ retention' \in BOOLEAN
      BY <2>2, StopsCalm DEF Fails, Phases
    <3>2. Typed
      BY <1>1, <1>2, <1>3, <1>5, <3>1 DEF Typed
    <3> QED
      BY <1>2, <2>1, <3>1, <3>2, CalmStepKeeps
  <2>3. CASE UNCHANGED <<fiber, tracker, retention>>
    <3>1. Typed
      BY <1>1, <1>2, <1>3, <1>5, <2>3 DEF Typed
    <3> QED
      BY <1>2, <1>4, <2>1, <2>3, <3>1, SteadyKeeps
  <2> QED
    BY <1>5, <2>2, <2>3
<1>6. ASSUME Created PROVE /\ log' \in Seq({"created", "deleted"}) /\ thread' \in Threads
                           /\ Len(log) + 1 \in Nat
  <2>1. PICK n \in Nat : n = Len(log) + 1
    BY <1>1
  <2>2. thread' = [NoThread EXCEPT !.inc = n, !.live = TRUE] /\ log' = Append(log, "created")
    BY <1>6, <2>1 DEF Created
  <2>3. thread' \in Threads
    BY <2>2 DEF NoThread, Threads, Phases, AgentStages
  <2> QED
    BY <1>1, <2>1, <2>2, <2>3
<1>7. CASE Created /\ Fails(i)
  <2>1. Calm(i) /\ tracker' \in Entries /\ retention' \in BOOLEAN
    BY <1>7, StopsCalm DEF Fails, Phases
  <2>2. TypeOK'
    BY <1>1, <1>2, <1>3, <1>4, <1>6, <1>7, <2>1 DEF TypeOK, Calm, IInv, Providers, Upsets
  <2>3. fiber'[i].pc = "failing" /\ fiber'[i].answer = fiber[i].answer
    BY <1>1, <1>7 DEF Fails, Stops, Fibers
  <2>4. \A j \in Attempts :
           /\ fiber'[j].inc = fiber[j].inc
           /\ fiber'[j].created => fiber[j].created /\ fiber'[j].pc \in Late
           /\ fiber'[j].pc = "drain" => fiber'[j].inc <= reactor.handed
           /\ fiber'[j].pc \in Early => fiber'[j].answer # "deleted"
           /\ fiber'[j].answer = "deleted" => fiber[j].answer = "deleted"
    BY <1>1, <2>1, <2>3 DEF Calm, IInv, FibersFenced
  <2> QED
    BY <1>2, <1>7, <2>2, <2>4, CreatedKeeps
<1>8. CASE Created /\ UNCHANGED <<fiber, tracker, retention>>
  <2>1. TypeOK'
    BY <1>1, <1>2, <1>3, <1>4, <1>6, <1>8 DEF IInv, TypeOK, Providers, Upsets
  <2>2. \A j \in Attempts :
           /\ fiber'[j].inc = fiber[j].inc
           /\ fiber'[j].created => fiber[j].created /\ fiber'[j].pc \in Late
           /\ fiber'[j].pc = "drain" => fiber'[j].inc <= reactor.handed
           /\ fiber'[j].pc \in Early => fiber'[j].answer # "deleted"
           /\ fiber'[j].answer = "deleted" => fiber[j].answer = "deleted"
    BY <1>1, <1>8 DEF IInv, FibersFenced
  <2> QED
    BY <1>2, <1>8, <2>1, <2>2, CreatedKeeps
<1>9. CASE /\ Created /\ fiber[i].pc = "create" /\ UNCHANGED <<tracker, retention>>
           /\ fiber' = [fiber EXCEPT ![i].pc = "fence", ![i].inc = Len(log) + 1]
  <2>0. PICK n \in Nat : n = Len(log) + 1
    BY <1>6, <1>9
  <2> DEFINE g == [fiber[i] EXCEPT !.pc = "fence", !.inc = n]
  <2>1. g \in Fibers /\ g.inc = n /\ g.pc = "fence" /\ g.created = fiber[i].created
        /\ g.answer = fiber[i].answer
    <3>1. "fence" \in Running
      BY DEF Running, Interruptible
    <3> QED
      BY <1>1, <3>1, ZenonT(40) DEF Fibers
  <2>2. fiber' = [fiber EXCEPT ![i] = g]
    <3>1. fiber' = [fiber EXCEPT ![i].pc = "fence", ![i].inc = n]
      BY <1>9, <2>0
    <3> QED
      BY <1>1, <3>1
  <2>3. ~g.created /\ g.answer # "deleted"
    BY <1>1, <1>9, <2>1 DEF Late, Early
  <2> HIDE DEF g
  <2>4. fiber' \in [Attempts -> Fibers] /\ fiber'[i] = g
        /\ \A j \in Attempts \ {i} : fiber'[j] = fiber[j]
    BY <1>1, <2>1, <2>2
  <2>5. TypeOK'
    BY <1>1, <1>2, <1>3, <1>4, <1>6, <1>9, <2>4 DEF IInv, TypeOK, Providers, Upsets
  <2>6. "fence" \notin Early
    BY DEF Early
  <2>7. ASSUME NEW j \in Attempts
        PROVE  /\ \/ fiber'[j].inc = fiber[j].inc
                  \/ fiber'[j].inc = Len(log) + 1 /\ fiber'[j].answer # "deleted"
               /\ fiber'[j].created => /\ fiber[j].created /\ fiber'[j].pc \in Late
                                      /\ fiber'[j].inc = fiber[j].inc
               /\ fiber'[j].pc = "drain" => fiber'[j].inc <= reactor.handed
               /\ fiber'[j].pc \in Early => fiber'[j].answer # "deleted"
               /\ fiber'[j].answer = "deleted" => fiber[j].answer = "deleted"
    <3>1. CASE j = i
      BY <2>0, <2>1, <2>3, <2>4, <2>6, <3>1
    <3>2. CASE j # i
      BY <1>1, <2>4, <3>2 DEF IInv, FibersFenced
    <3> QED
      BY <3>1, <3>2
  <2> QED
    BY <1>2, <1>9, <2>5, <2>7, CreatedKeeps
<1> QED
  BY <1>5, <1>7, <1>8, <1>9 DEF CommitCreate

(* drainThrough: what was seen was handed over, and what is drained is     *)
(* neither queued nor being processed.                                     *)
LEMMA FenceKeeps ==
    ASSUME IInv, NEW i \in Attempts, AwaitSeen(i) \/ Drained(i)
    PROVE  IInv'
<1>1. /\ fiber \in [Attempts -> Fibers] /\ thread \in Threads
      /\ fiber[i] \in Fibers /\ (fiber[i].created => fiber[i].pc \in Late)
  BY Unwraps
<1>2. UNCHANGED <<up, log, thread, queued, tracker, retention, reactor, provider, upsets>>
  BY DEF AwaitSeen, Drained
<1>3. PICK g \in Fibers :
         /\ fiber' = [fiber EXCEPT ![i] = g]
         /\ g.inc = fiber[i].inc /\ g.answer = fiber[i].answer /\ g.pc \in {"drain", "append"}
         /\ g.pc = "drain" => g.created = fiber[i].created /\ AwaitSeen(i)
         /\ g.pc = "append" => g.created /\ Drained(i)
  <2>1. CASE AwaitSeen(i)
    <3> DEFINE g == [fiber[i] EXCEPT !.pc = "drain"]
    <3>1. /\ g \in Fibers /\ g.inc = fiber[i].inc /\ g.answer = fiber[i].answer /\ g.pc = "drain"
          /\ g.created = fiber[i].created
      BY <1>1 DEF Fibers, Running, Interruptible
    <3>2. fiber' = [fiber EXCEPT ![i] = g]
      BY <1>1, <2>1 DEF AwaitSeen, Goto
    <3> HIDE DEF g
    <3> QED
      BY <2>1, <3>1, <3>2
  <2>2. CASE Drained(i)
    <3> DEFINE g == [fiber[i] EXCEPT !.pc = "append", !.created = TRUE]
    <3>1. /\ g \in Fibers /\ g.inc = fiber[i].inc /\ g.answer = fiber[i].answer
          /\ g.pc = "append" /\ g.created
      BY <1>1 DEF Fibers, Running, Interruptible
    <3>2. fiber' = [fiber EXCEPT ![i] = g]
      BY <1>1, <2>2 DEF Drained
    <3> HIDE DEF g
    <3> QED
      BY <2>2, <3>1, <3>2
  <2> QED
    BY <2>1, <2>2
<1>4. fiber' \in [Attempts -> Fibers] /\ fiber'[i] = g
      /\ \A j \in Attempts \ {i} : fiber'[j] = fiber[j]
  BY <1>1, <1>3
<1>5. TypeOK' /\ ReactorExact'
  BY <1>2, <1>4, Zenon DEF IInv, TypeOK, ReactorExact
<1>6. g.pc = "drain" => ~g.created /\ g.inc <= reactor.handed
  <2> SUFFICES ASSUME g.pc = "drain" PROVE ~g.created /\ g.inc <= reactor.handed
    OBVIOUS
  <2>1. fiber[i].pc = "fence" /\ reactor.seen >= fiber[i].inc
    BY <1>3 DEF AwaitSeen, At
  <2>2. reactor.seen \in Nat /\ reactor.handed \in Nat /\ fiber[i].inc \in Nat
        /\ reactor.seen <= reactor.handed
    BY <1>1 DEF IInv, TypeOK, Fibers, ReactorExact
  <2>3. g.inc <= reactor.handed
    BY <1>3, <2>1, <2>2
  <2>4. ~fiber[i].created
    BY <1>1, <2>1 DEF Late
  <2> QED
    BY <1>3, <2>3, <2>4
<1>7. g.pc = "append" =>
         g.inc <= reactor.handed /\ Len(reactor.queue) = 0 /\ reactor.processing = 0
  <2> SUFFICES ASSUME g.pc = "append"
               PROVE  g.inc <= reactor.handed /\ Len(reactor.queue) = 0 /\ reactor.processing = 0
    OBVIOUS
  <2>1. fiber[i].pc = "drain" /\ reactor.outstanding = 0
    BY <1>3 DEF Drained, At
  <2>2. Len(reactor.queue) \in Nat
    <3>1. reactor.queue \in Seq(Nat)
      BY DEF IInv, TypeOK
    <3> QED
      BY <3>1
  <2>3. reactor.outstanding = Len(reactor.queue) + (IF reactor.processing = 0 THEN 0 ELSE 1)
    BY DEF IInv, ReactorExact
  <2>4. Len(reactor.queue) = 0 /\ reactor.processing = 0
    <3>1. CASE reactor.processing = 0
      BY <2>1, <2>2, <2>3, <3>1
    <3>2. CASE reactor.processing # 0
      <4>1. Len(reactor.queue) + 1 = 0
        BY <2>1, <2>3, <3>2
      <4> QED
        BY <2>2, <4>1
    <3> QED
      BY <3>1, <3>2
  <2>5. g.inc <= reactor.handed
    BY <1>3, <2>1 DEF IInv, FibersFenced
  <2> QED
    BY <2>4, <2>5
<1>8. FibersFenced'
  <2> SUFFICES ASSUME NEW j \in Attempts
               PROVE  /\ fiber'[j].inc <= Len(log)
                      /\ fiber'[j].created => fiber'[j].pc \in Late
                      /\ fiber'[j].pc = "drain" => fiber'[j].inc <= reactor.handed
                      /\ fiber'[j].pc \in Early => fiber'[j].answer # "deleted"
    BY <1>2 DEF FibersFenced
  <2>1. CASE j = i
    <3>1. g.inc <= Len(log)
      BY <1>3 DEF IInv, FibersFenced
    <3>2. g.pc \notin Early /\ (g.pc = "append" => g.pc \in Late)
      BY <1>3 DEF Early, Late, Running, Interruptible
    <3> QED
      BY <1>3, <1>4, <1>6, <2>1, <3>1, <3>2
  <2>2. CASE j # i
    BY <1>4, <2>2 DEF IInv, FibersFenced
  <2> QED
    BY <2>1, <2>2
<1>9. FencePassed'
  <2> SUFFICES ASSUME NEW j \in Attempts, fiber'[j].created
               PROVE  /\ fiber'[j].inc <= reactor.handed
                      /\ \A k \in 1..Len(reactor.queue) : fiber'[j].inc < reactor.queue[k]
                      /\ reactor.processing # 0 => fiber'[j].inc < reactor.processing
    BY <1>2 DEF FencePassed
  <2>1. CASE j = i
    BY <1>3, <1>4, <1>6, <1>7, <2>1
  <2>2. CASE j # i
    BY <1>4, <2>2 DEF IInv, FencePassed
  <2> QED
    BY <2>1, <2>2
<1>10. DispositionTrue'
  <2>1. \A j \in Attempts : fiber'[j].inc = fiber[j].inc /\ fiber'[j].answer = fiber[j].answer
    BY <1>3, <1>4
  <2> QED
    BY <1>2, <2>1 DEF IInv, DispositionTrue
<1> QED
  BY <1>5, <1>8, <1>9, <1>10 DEF IInv

Reactors == [handed : Nat, seen : Nat, queue : Seq(Nat), processing : Nat, outstanding : Nat]

(* A step of the reactor: what it puts in the queue or takes from it was   *)
(* there, or was handed over just now.                                     *)
LEMMA ReactorKeeps ==
    ASSUME IInv, UNCHANGED <<up, log, thread, queued, fiber, tracker, retention, upsets>>,
           provider' \in Providers, reactor' \in Reactors, ReactorExact',
           reactor'.handed >= reactor.handed,
           \A n \in Nat : n <= reactor.handed
              /\ (\A k \in 1..Len(reactor.queue) : n < reactor.queue[k])
              /\ (reactor.processing # 0 => n < reactor.processing)
              => /\ \A k \in 1..Len(reactor'.queue) : n < reactor'.queue[k]
                 /\ reactor'.processing # 0 => n < reactor'.processing
    PROVE  IInv'
<1>1. TypeOK'
  BY DEF IInv, TypeOK, Providers, Reactors
<1>2. fiber' = fiber /\ reactor.handed \in Nat /\ reactor'.handed \in Nat
      /\ \A j \in Attempts : fiber[j].inc \in Nat
  BY DEF IInv, TypeOK, Reactors, Fibers
<1>3. FibersFenced'
  <2>1. \A j \in Attempts : fiber[j].pc = "drain" => fiber[j].inc <= reactor'.handed
    BY <1>2 DEF IInv, FibersFenced
  <2> QED
    BY <1>2, <2>1, Zenon DEF IInv, FibersFenced
<1>4. FencePassed'
  <2> SUFFICES ASSUME NEW j \in Attempts, fiber[j].created
               PROVE  /\ fiber[j].inc <= reactor'.handed
                      /\ \A k \in 1..Len(reactor'.queue) : fiber[j].inc < reactor'.queue[k]
                      /\ reactor'.processing # 0 => fiber[j].inc < reactor'.processing
    BY <1>2 DEF FencePassed
  <2>1. /\ fiber[j].inc <= reactor.handed
        /\ \A k \in 1..Len(reactor.queue) : fiber[j].inc < reactor.queue[k]
        /\ reactor.processing # 0 => fiber[j].inc < reactor.processing
    BY DEF IInv, FencePassed
  <2>2. fiber[j].inc <= reactor'.handed
    BY <1>2, <2>1
  <2> QED
    BY <1>2, <2>1, <2>2
<1>5. DispositionTrue'
  BY DEF IInv, DispositionTrue
<1> QED
  BY <1>1, <1>3, <1>4, <1>5 DEF IInv

(* The reactor and its worker.                                             *)
LEMMA CleaningKeeps == ASSUME IInv, Cleaning PROVE IInv'
<1> DEFINE h == reactor.handed
           q == reactor.queue
           p == reactor.processing
           o == reactor.outstanding
<1>1. /\ reactor \in Reactors /\ provider \in Providers
      /\ h \in Nat /\ reactor.seen \in Nat /\ q \in Seq(Nat) /\ p \in Nat /\ o \in Nat
      /\ Len(q) \in Nat /\ Len(log) \in Nat
  BY DEF IInv, TypeOK, Reactors, Providers
<1>2. /\ reactor.seen <= h /\ h <= Len(log) /\ p <= h
      /\ \A k \in 1..Len(q) : q[k] \in 1..h
      /\ o = Len(q) + (IF p = 0 THEN 0 ELSE 1)
  BY DEF IInv, ReactorExact
<1>3. UNCHANGED <<up, log, thread, queued, fiber, tracker, retention, upsets>>
  BY DEF Cleaning, HandOver, NoteSeen, Take, ProcessDeleted
<1>4. CASE HandOver
  <2>1. h < Len(log) /\ reactor.seen = h /\ provider' = provider
    BY <1>4 DEF HandOver
  <2>2. h + 1 \in Nat /\ h + 1 <= Len(log) /\ o + 1 \in Nat
    BY <1>1, <2>1
  <2>3. CASE reactor' = [reactor EXCEPT !.handed = h + 1, !.queue = Append(q, h + 1),
                                        !.outstanding = o + 1]
    <3>1. /\ reactor'.handed = h + 1 /\ reactor'.seen = reactor.seen
          /\ reactor'.queue = Append(q, h + 1) /\ reactor'.processing = p
          /\ reactor'.outstanding = o + 1
      BY <1>1, <2>3 DEF Reactors
    <3>2. /\ Append(q, h + 1) \in Seq(Nat) /\ Len(Append(q, h + 1)) = Len(q) + 1
          /\ \A k \in 1..Len(q) + 1 : Append(q, h + 1)[k] = IF k = Len(q) + 1 THEN h + 1 ELSE q[k]
      BY <1>1, <2>2
    <3>3. reactor' \in Reactors
      BY <1>1, <2>2, <2>3, <3>2, ZenonT(40) DEF Reactors
    <3>4. ReactorExact'
      <4>1. \A k \in 1..Len(Append(q, h + 1)) : Append(q, h + 1)[k] \in 1..(h + 1)
        <5>1. SUFFICES ASSUME NEW k \in 1..(Len(q) + 1)
                       PROVE  Append(q, h + 1)[k] \in 1..(h + 1)
          BY <3>2
        <5>2. CASE k = Len(q) + 1
          BY <1>1, <2>2, <3>2, <5>2
        <5>3. CASE k # Len(q) + 1
          <6>1. k \in 1..Len(q)
            BY <1>1, <5>3
          <6>2. Append(q, h + 1)[k] = q[k]
            BY <3>2, <5>3
          <6> QED
            BY <1>1, <1>2, <6>1, <6>2
        <5> QED
          BY <5>2, <5>3
      <4>2. reactor.seen <= h + 1 /\ p <= h + 1
        BY <1>1, <1>2
      <4>3. o + 1 = Len(Append(q, h + 1)) + (IF p = 0 THEN 0 ELSE 1)
        <5>1. CASE p = 0
          <6>1. o = Len(q) + 0
            BY <1>2, <5>1
          <6>2. o + 1 = Len(Append(q, h + 1)) + 0
            BY <1>1, <3>2, <6>1
          <6> QED
            BY <5>1, <6>2
        <5>2. CASE p # 0
          <6>1. o = Len(q) + 1
            BY <1>2, <5>2
          <6>2. o + 1 = Len(Append(q, h + 1)) + 1
            BY <1>1, <3>2, <6>1
          <6> QED
            BY <5>2, <6>2
        <5> QED
          BY <5>1, <5>2
      <4> HIDE DEF h, q, p, o
      <4> QED
        BY <1>3, <2>2, <3>1, <4>1, <4>2, <4>3 DEF ReactorExact
    <3>5. ASSUME NEW n \in Nat, n <= h, \A k \in 1..Len(q) : n < q[k]
          PROVE  \A k \in 1..Len(reactor'.queue) : n < reactor'.queue[k]
      <4>1. SUFFICES ASSUME NEW k \in 1..(Len(q) + 1) PROVE n < Append(q, h + 1)[k]
        BY <3>1, <3>2
      <4>2. CASE k = Len(q) + 1
        BY <1>1, <3>2, <3>5, <4>2
      <4>3. CASE k # Len(q) + 1
        <5>1. k \in 1..Len(q)
          BY <1>1, <4>3
        <5>2. Append(q, h + 1)[k] = q[k]
          BY <3>2, <4>3
        <5> QED
          BY <3>5, <5>1, <5>2
      <4> QED
        BY <4>2, <4>3
    <3>6. reactor'.handed >= h
      BY <1>1, <3>1
    <3> QED
      BY <1>1, <1>3, <2>1, <3>1, <3>3, <3>4, <3>5, <3>6, ReactorKeeps
  <2>4. CASE reactor' = [reactor EXCEPT !.handed = h + 1]
    <3>1. /\ reactor'.handed = h + 1 /\ reactor'.seen = reactor.seen /\ reactor'.queue = q
          /\ reactor'.processing = p /\ reactor'.outstanding = o
      BY <1>1, <2>4 DEF Reactors
    <3>2. reactor' \in Reactors
      BY <1>1, <2>2, <2>4 DEF Reactors
    <3>3. ReactorExact'
      <4>1. \A k \in 1..Len(q) : q[k] \in 1..(h + 1)
        BY <1>1, <1>2
      <4>2. reactor.seen <= h + 1 /\ p <= h + 1
        BY <1>1, <1>2
      <4> HIDE DEF h, q, p, o
      <4> QED
        BY <1>2, <1>3, <2>2, <3>1, <4>1, <4>2 DEF ReactorExact
    <3>4. reactor'.handed >= h
      BY <1>1, <3>1
    <3> QED
      BY <1>1, <1>3, <2>1, <3>1, <3>2, <3>3, <3>4, ReactorKeeps
  <2> QED
    BY <1>4, <2>3, <2>4 DEF HandOver
<1>5. CASE NoteSeen
  <2>1. reactor' = [reactor EXCEPT !.seen = h] /\ provider' = provider
    BY <1>5 DEF NoteSeen
  <2>2. /\ reactor'.handed = h /\ reactor'.seen = h /\ reactor'.queue = q
        /\ reactor'.processing = p /\ reactor'.outstanding = o /\ reactor' \in Reactors
    BY <1>1, <2>1 DEF Reactors
  <2>3. h <= h
    BY <1>1
  <2>4. ReactorExact'
    <3> HIDE DEF h, q, p, o
    <3> QED
      BY <1>2, <1>3, <2>2, <2>3 DEF ReactorExact
  <2> QED
    BY <1>1, <1>3, <2>1, <2>2, <2>3, <2>4, ReactorKeeps
<1>6. CASE Take
  <2>1. /\ p = 0 /\ q # << >> /\ provider' = provider
        /\ reactor' = [reactor EXCEPT !.processing = Head(q), !.queue = Tail(q)]
    BY <1>6 DEF Take
  <2>2. /\ Len(q) >= 1 /\ Tail(q) \in Seq(Nat) /\ Len(Tail(q)) = Len(q) - 1 /\ Head(q) = q[1]
        /\ \A k \in 1..Len(q) - 1 : Tail(q)[k] = q[k + 1]
    BY <1>1, <2>1
  <2>3. Head(q) \in 1..h /\ Head(q) \in Nat
    BY <1>1, <1>2, <2>2
  <2>4. /\ reactor'.handed = h /\ reactor'.seen = reactor.seen /\ reactor'.queue = Tail(q)
        /\ reactor'.processing = Head(q) /\ reactor'.outstanding = o /\ reactor' \in Reactors
    BY <1>1, <2>1, <2>2, <2>3 DEF Reactors
  <2>5. ReactorExact'
    <3>1. \A k \in 1..Len(Tail(q)) : Tail(q)[k] \in 1..h
      BY <1>1, <1>2, <2>2
    <3>2. Head(q) # 0 /\ Head(q) <= h
      BY <1>1, <2>3
    <3>3. o = Len(Tail(q)) + 1
      BY <1>1, <1>2, <2>1, <2>2
    <3> HIDE DEF h, q, p, o
    <3> QED
      BY <1>2, <1>3, <2>4, <3>1, <3>2, <3>3 DEF ReactorExact
  <2>6. ASSUME NEW n \in Nat, \A k \in 1..Len(q) : n < q[k]
        PROVE  n < Head(q) /\ \A k \in 1..Len(Tail(q)) : n < Tail(q)[k]
    BY <1>1, <2>2, <2>6
  <2>7. h >= h
    BY <1>1
  <2> QED
    BY <1>1, <1>3, <2>1, <2>4, <2>5, <2>6, <2>7, ReactorKeeps
<1>7. CASE ProcessDeleted
  <2>1. p # 0 /\ reactor' = [reactor EXCEPT !.processing = 0, !.outstanding = o - 1]
    BY <1>7 DEF ProcessDeleted
  <2>2. provider' \in Providers
    BY <1>1, <1>7 DEF ProcessDeleted, Providers
  <2>3. o - 1 = Len(q) /\ o - 1 \in Nat
    BY <1>1, <1>2, <2>1
  <2>4. /\ reactor'.handed = h /\ reactor'.seen = reactor.seen /\ reactor'.queue = q
        /\ reactor'.processing = 0 /\ reactor'.outstanding = Len(q) /\ reactor' \in Reactors
    BY <1>1, <2>1, <2>3 DEF Reactors
  <2>5. ReactorExact'
    <3>1. Len(q) = Len(q) + 0 /\ 0 <= h
      BY <1>1
    <3> HIDE DEF h, q, p, o
    <3> QED
      BY <1>2, <1>3, <2>4, <3>1 DEF ReactorExact
  <2>6. h >= h
    BY <1>1
  <2> QED
    BY <1>1, <1>3, <2>2, <2>4, <2>5, <2>6, ReactorKeeps
<1> QED
  BY <1>4, <1>5, <1>6, <1>7 DEF Cleaning

(* A crash ends every running fiber, so none has passed a fence.           *)
LEMMA CrashKeeps == ASSUME IInv, Crash PROVE IInv'
<1> DEFINE lost == [IdleFiber EXCEPT !.pc = "lost"]
<1>1. /\ fiber \in [Attempts -> Fibers] /\ upsets \in Upsets /\ Untracked \in Entries
      /\ \A i \in Attempts : fiber[i].created => fiber[i].pc \in Late
  BY Unwraps
<1>2. lost \in Fibers /\ lost.inc = 0 /\ ~lost.created /\ lost.pc = "lost" /\ lost.answer = "none"
  BY <1>1 DEF IdleFiber, Fibers, Answers
<1>3. fiber' = [i \in Attempts |-> IF fiber[i].pc \in Running THEN lost ELSE fiber[i]]
  BY DEF Crash
<1> HIDE DEF lost
<1>4. fiber' \in [Attempts -> Fibers]
  BY <1>1, <1>2, <1>3
<1>5. ASSUME NEW i \in Attempts
      PROVE  /\ fiber'[i] = lost \/ fiber'[i] = fiber[i]
             /\ ~fiber'[i].created
  BY <1>1, <1>2, <1>3 DEF Late
<1>6. upsets' \in Upsets
  BY <1>1, UpsetType DEF Crash
<1>7. provider' \in Providers
  BY DEF Crash, NoSession, Providers
<1>8. queued' \in Seq(Commands) /\ up' \in BOOLEAN /\ retention' \in BOOLEAN
  <2>1. queued' = << >>
    BY DEF Crash
  <2>2. queued' \in Seq(Commands)
    BY <2>1
  <2>3. up' = FALSE /\ retention' = FALSE
    BY Zenon DEF Crash
  <2>4. up' \in BOOLEAN /\ retention' \in BOOLEAN
    BY <2>3, Zenon
  <2> QED
    BY <2>2, <2>4
<1>9. TypeOK'
  BY <1>1, <1>4, <1>6, <1>7, <1>8 DEF IInv, TypeOK, Crash, Providers, Upsets
<1>10. UNCHANGED <<log, thread, reactor>> /\ Len(log) \in Nat
  BY DEF Crash, IInv, TypeOK
<1>11. ReactorExact'
  BY <1>10, Zenon DEF IInv, ReactorExact
<1>12. FibersFenced'
  <2> SUFFICES ASSUME NEW i \in Attempts
               PROVE  /\ fiber'[i].inc <= Len(log)
                      /\ fiber'[i].created => fiber'[i].pc \in Late
                      /\ fiber'[i].pc = "drain" => fiber'[i].inc <= reactor.handed
                      /\ fiber'[i].pc \in Early => fiber'[i].answer # "deleted"
    BY <1>10 DEF FibersFenced
  <2>1. CASE fiber'[i] = lost
    BY <1>2, <1>10, <2>1
  <2>2. CASE fiber'[i] = fiber[i]
    BY <2>2 DEF IInv, FibersFenced
  <2> QED
    BY <1>5, <2>1, <2>2
<1>13. FencePassed'
  BY <1>5 DEF FencePassed
<1>14. DispositionTrue'
  <2>1. \A i \in Attempts : fiber'[i].answer = "deleted" => fiber'[i] = fiber[i]
    BY <1>2, <1>5
  <2> QED
    BY <1>10, <2>1 DEF IInv, DispositionTrue
<1> QED
  BY <1>9, <1>11, <1>12, <1>13, <1>14 DEF IInv

(* The reactor that subscribes anew starts at the head of the log.         *)
LEMMA RestartKeeps == ASSUME IInv, Restart PROVE IInv'
<1>1. /\ fiber \in [Attempts -> Fibers] /\ thread \in Threads
      /\ log \in Seq({"created", "deleted"}) /\ Len(log) \in Nat
      /\ \A i \in Attempts : fiber[i].inc \in Nat
  BY Unwraps DEF Fibers
<1>2. UNCHANGED <<log, queued, fiber, tracker, retention, provider, upsets>>
  BY DEF Restart
<1>3. PICK n \in Nat : n = Len(log)
  BY <1>1
<1>4. reactor' = Subscribed(n)
  BY <1>3 DEF Restart
<1>5. /\ reactor'.handed = n /\ reactor'.seen = n /\ reactor'.queue = << >>
      /\ reactor'.processing = 0 /\ reactor'.outstanding = 0
      /\ reactor' \in Reactors
  BY <1>4 DEF Subscribed, Reactors
<1>6. thread' \in Threads /\ thread'.inc = thread.inc /\ thread'.live = thread.live
  <2> DEFINE t == reconcileProviderSessions(thread)
  <2>1. t \in Threads /\ t.inc = thread.inc /\ t.live = thread.live
    BY <1>1 DEF reconcileProviderSessions, Threads
  <2>2. thread' = reconcileWorktreeSetups(t)
    BY DEF Restart
  <2> HIDE DEF t
  <2> QED
    BY <2>1, <2>2 DEF reconcileWorktreeSetups, Threads, Phases
<1>7. TypeOK'
  BY <1>2, <1>5, <1>6 DEF IInv, TypeOK, Restart, Reactors
<1>8. ReactorExact'
  BY <1>2, <1>3, <1>5 DEF ReactorExact
<1>9. FibersFenced'
  BY <1>1, <1>2, <1>3, <1>5 DEF IInv, FibersFenced
<1>10. FencePassed'
  BY <1>1, <1>2, <1>3, <1>5 DEF IInv, FibersFenced, FencePassed
<1>11. DispositionTrue'
  BY <1>2, <1>6 DEF IInv, DispositionTrue
<1> QED
  BY <1>7, <1>8, <1>9, <1>10, <1>11 DEF IInv

(* The steps of the environment: cancel, retention, provider and client.   *)
LEMMA OthersKeep ==
    ASSUME IInv, cancel \/ Retire \/ ResolveTurn \/ Launched \/ ClientDelete
    PROVE  IInv'
<1>1. /\ thread \in Threads /\ tracker \in Entries /\ retention \in BOOLEAN
      /\ provider \in Providers /\ upsets \in Upsets /\ queued \in Seq(Commands)
      /\ Untracked \in Entries
  BY Unwraps
<1>2. up \in BOOLEAN
  BY DEF IInv, TypeOK
<1>3. CASE cancel
  <2>1. tracker.handle \in Attempts
    BY <1>1, <1>3 DEF cancel, Entries
  <2>2. Calm(tracker.handle) /\ tracker' \in Entries /\ retention' \in BOOLEAN
    BY <1>3, <2>1, StopsCalm DEF cancel, Phases
  <2>3. Typed /\ Logged
    BY <1>1, <1>3, <2>2 DEF cancel, Typed, Logged
  <2> QED
    BY <1>1, <1>3, <2>1, <2>2, <2>3, CalmStepKeeps DEF cancel
<1>4. CASE Retire
  <2>1. Typed /\ Logged
    BY <1>1, <1>4 DEF Retire, Typed, Logged
  <2> QED
    BY <1>1, <1>2, <1>4, <2>1, SteadyKeeps DEF Retire
<1>5. CASE ResolveTurn
  <2>1. thread' \in Threads /\ thread'.inc = thread.inc /\ thread'.live = thread.live
    BY <1>1, <1>5 DEF ResolveTurn, Threads
  <2>2. provider' \in Providers
    BY <1>1, <1>5 DEF ResolveTurn, Providers, Threads
  <2>3. Typed /\ Logged
    BY <1>1, <1>5, <2>1, <2>2 DEF ResolveTurn, Typed, Logged
  <2> QED
    BY <1>1, <1>2, <1>5, <2>3, SteadyKeeps DEF ResolveTurn
<1>6. CASE Launched
  <2>1. provider' \in Providers
    BY <1>1, <1>6 DEF Launched, Providers
  <2>2. Typed /\ Logged
    BY <1>1, <1>6, <2>1 DEF Launched, Typed, Logged
  <2> QED
    BY <1>1, <1>2, <1>6, <2>2, SteadyKeeps DEF Launched
<1>7. CASE ClientDelete
  <2>1. thread' \in Threads /\ thread'.inc = thread.inc /\ ~thread'.live
    BY <1>1, <1>7 DEF ClientDelete, Deleted, Threads
  <2>2. upsets' \in Upsets
    BY <1>1, <1>7, UpsetType DEF ClientDelete
  <2>3. Typed /\ Logged
    BY <1>1, <1>7, <2>1, <2>2 DEF ClientDelete, Deleted, Typed, Logged
  <2> QED
    BY <1>1, <1>2, <1>7, <2>3, SteadyKeeps DEF ClientDelete
<1> QED
  BY <1>3, <1>4, <1>5, <1>6, <1>7

-----------------------------------------------------------------------------
LEMMA NextInv == IInv /\ [Next]_vars => IInv'
<1> SUFFICES ASSUME IInv, [Next]_vars PROVE IInv'
  OBVIOUS
<1>1. ASSUME NEW i \in Attempts, Send(i) \/ Step(i) \/ Fault(i) PROVE IInv'
  <2>1. ProgramStep(i) \/ CommitCreate(i) \/ AwaitSeen(i) \/ Drained(i)
    BY <1>1, Zenon DEF Step, Fault, ProgramStep
  <2> QED
    BY <2>1, ProgramStepKeeps, CommitCreateKeeps, FenceKeeps
<1>2. CASE UNCHANGED vars
  BY <1>2, Zenon DEF vars, IInv, TypeOK, ReactorExact, FibersFenced, FencePassed, DispositionTrue
<1> QED
  BY <1>1, <1>2, OthersKeep, CleaningKeeps, CrashKeeps, RestartKeeps, Zenon DEF Next

(* The bootstrap's variables keep their shape.  In particular the worker's *)
(* count of outstanding items never goes below zero, so drain waits for    *)
(* exactly what was enqueued.                                              *)
THEOREM TypeCorrect == Spec => []TypeOK
<1>1. IInv => TypeOK
  BY DEF IInv
<1> QED
  BY <1>1, InitInv, NextInv, PTL DEF Spec

(* Once drainThrough has returned for a bootstrap, no deletion that came   *)
(* before its thread's creation is still on its way to the worker, queued  *)
(* or being cleaned up, whatever was resent, deleted or restarted.         *)
THEOREM FenceHolds == Spec => []FencePassed
<1>1. IInv => FencePassed
  BY DEF IInv
<1> QED
  BY <1>1, InitInv, NextInv, PTL DEF Spec

(* An answer that says the created thread was deleted is true when it is   *)
(* given and stays true: later incarnations of the thread id are others.   *)
THEOREM DeletedIsTrue == Spec => []DispositionTrue
<1>1. IInv => DispositionTrue
  BY DEF IInv
<1> QED
  BY <1>1, InitInv, NextInv, PTL DEF Spec

-----------------------------------------------------------------------------
(***************************************************************************)
(* Where the locals of a program stand: what comes after the fence has     *)
(* created the thread, only a program before the handoff can be cancelled. *)
(***************************************************************************)
Program ==
    {"append", "record", "prepare", "checkout", "submodules", "script", "handoff", "settle"}

Placed ==
    /\ \A i \in Attempts :
          /\ fiber[i].pc \in Program => fiber[i].created
          /\ fiber[i].preparing => fiber[i].created
          /\ fiber[i].created \/ fiber[i].pc \in {"fence", "drain"} => fiber[i].inc # 0
          /\ fiber[i].pc \in Early => fiber[i].inc = 0
          /\ fiber[i].unheard # "none" => fiber[i].pc \in Unwinding \cup {"answered"}
    /\ tracker.phase = "none" => tracker.handle = 0
    /\ tracker.handle # 0 => fiber[tracker.handle].pc \in Interruptible

LEMMA StopsPlaced ==
    ASSUME IInv, Placed, NEW i \in Attempts, NEW pc \in {"failing", "cancelling"},
           NEW phase \in Phases, Stops(i, pc, phase)
    PROVE  Placed'
<1>1. fiber \in [Attempts -> Fibers] /\ tracker \in Entries
  BY Unwraps
<1> QED
  BY <1>1 DEF Stops, Finish, finish, Untracked, Placed, Fibers, Program, Early, Entries, Unwinding

LEMMA ProgramStepPlaced == ASSUME IInv, Placed, NEW i \in Attempts, ProgramStep(i) PROVE Placed'
<1>1. fiber \in [Attempts -> Fibers] /\ tracker \in Entries
  BY Unwraps
<1>2. ASSUME Fails(i) PROVE Placed'
  BY <1>2, StopsPlaced DEF Fails, Phases
<1>3. CASE Send(i)
  BY <1>1, <1>3 DEF Send, Goto, begin, Placed, Fibers, Program, Early, Interruptible, Unwinding
<1>4. CASE Fetch(i)
  <2>1. ASSUME NEW repo \in BOOLEAN, UNCHANGED tracker,
               fiber' = [fiber EXCEPT ![i].pc = "create", ![i].prepare = repo]
        PROVE  Placed'
    <3> DEFINE g == [fiber[i] EXCEPT !.pc = "create", !.prepare = repo]
    <3>1. fiber' = [fiber EXCEPT ![i] = g] /\ g.pc = "create" /\ g.inc = fiber[i].inc
          /\ g.created = fiber[i].created /\ g.preparing = fiber[i].preparing
          /\ g.unheard = fiber[i].unheard
      BY <1>1, <2>1 DEF Fibers
    <3>2. fiber[i].pc = "fetch"
      BY <1>4 DEF Fetch, At
    <3> HIDE DEF g
    <3> QED
      BY <1>1, <2>1, <3>1, <3>2 DEF Placed, Program, Early, Interruptible, Entries, Unwinding
  <2> QED
    BY <1>2, <1>4, <2>1, Zenon DEF Fetch
<1>5. ASSUME NEW pc \in {"record", "prepare", "script"}, Goto(i, pc), tracker' = tracker,
             fiber[i].pc \in {"append", "record"}
      PROVE  Placed'
  BY <1>1, <1>5 DEF Goto, Placed, Fibers, Program, Early, Interruptible, Entries, Unwinding
<1>6. CASE AppendMessage(i)
  BY <1>5, <1>6 DEF AppendMessage, GoesOn, DispatchAt, At
<1>7. CASE CommitRecord(i)
  <2>1. CASE fiber[i].pc = "record"
    BY <1>5, <1>7, <2>1 DEF CommitRecord, GoesOn
  <2>2. CASE fiber[i].pc # "record"
    BY <1>7, <2>2, Zenon DEF CommitRecord, Placed
  <2> QED
    BY <2>1, <2>2
<1>20. CASE CommitPreparing(i)
  <2>1. CASE UNCHANGED <<fiber, tracker>>
    BY <2>1, Zenon DEF Placed
  <2>2. CASE /\ fiber' = [fiber EXCEPT ![i].pc = "checkout", ![i].preparing = TRUE]
             /\ fiber[i].pc = "prepare" /\ tracker' = tracker
    BY <1>1, <2>2 DEF Placed, Fibers, Program, Early, Interruptible, Entries, Unwinding
  <2> QED
    BY <1>2, <1>20, <2>1, <2>2 DEF CommitPreparing
<1>8. CASE Checkout(i)
  <2>1. CASE ~Fails(i)
    BY <1>1, <1>8, <2>1 DEF Checkout, At, Placed, Fibers, Program, Early, Interruptible, Entries, Unwinding
  <2> QED
    BY <1>2, <2>1
<1>9. CASE FinishCheckout(i)
  <2>1. CASE ~Fails(i)
    BY <1>1, <1>9, <2>1 DEF FinishCheckout, DispatchAt, At, Goto, Placed, Fibers, Program,
       Early,
       Interruptible, Entries, Unwinding
  <2> QED
    BY <1>2, <2>1
<1>10. CASE RunSetup(i)
  BY <1>1, <1>10 DEF RunSetup, At, Placed, Fibers, Program, Early, Interruptible, Entries, Unwinding
<1>11. CASE StartTurn(i)
  BY <1>1, <1>11 DEF StartTurn, DispatchAt, At, Placed, Fibers, Program, Early, Interruptible,
     Entries, Unwinding
<1>12. CASE Settle(i)
  BY <1>1, <1>12 DEF Settle, DispatchAt, At, Answer, IdleFiber, Finish, finish, Untracked,
     Placed,
     Fibers, Program, Early, Interruptible, Entries, Unwinding
<1>13. CASE Unwind(i)
  BY <1>1, <1>13 DEF Unwind, DispatchAt, At, Placed, Fibers, Program, Early, Interruptible,
     Entries
<1>14. CASE RemoveWorktree(i)
  BY <1>1, <1>14 DEF RemoveWorktree, At, Placed, Fibers, Program, Early, Interruptible, Entries, Unwinding
<1>15. CASE Rollback(i)
  BY <1>1, <1>15 DEF Rollback, DispatchAt, At, Answer, IdleFiber, Placed, Fibers, Program,
     Early, Interruptible, Entries, Unwinding
<1>16. CASE RollbackNothing(i)
  BY <1>1, <1>16 DEF RollbackNothing, DispatchAt, At, Answer, IdleFiber, Placed, Fibers,
     Program,
     Early, Interruptible, Entries, Unwinding
<1>17. CASE MarkSessionFailed(i)
  BY <1>1, <1>17 DEF MarkSessionFailed, DispatchAt, At, Answer, IdleFiber, Placed, Fibers,
     Program,
     Early, Interruptible, Entries, Unwinding
<1>18. CASE RollbackFails(i)
  <2>1. CASE Goto(i, "apologise")
    BY <1>1, <1>18, <2>1 DEF RollbackFails, DispatchAt, At, Goto, Placed, Fibers, Program,
       Early,
       Interruptible, Entries, Unwinding
  <2>2. CASE Answer(i, "failed")
    BY <1>1, <1>18, <2>2 DEF RollbackFails, DispatchAt, At, Answer, IdleFiber, Placed, Fibers,
       Program, Early, Interruptible, Entries, Unwinding
  <2> QED
    BY <1>18, <2>1, <2>2 DEF RollbackFails
<1>19. CASE \E pc \in {"append", "submodules", "handoff"} : FailsAt(i, pc)
  BY <1>2, <1>19 DEF FailsAt
<1> QED
  BY <1>3, <1>4, <1>5, <1>6, <1>7, <1>8, <1>9, <1>10, <1>11, <1>12, <1>13, <1>14, <1>15, <1>16,
     <1>17, <1>18, <1>19, <1>20 DEF ProgramStep

LEMMA NextPlaced == IInv /\ Placed /\ [Next]_vars => Placed'
<1> SUFFICES ASSUME IInv, Placed, [Next]_vars PROVE Placed'
  OBVIOUS
<1>1. fiber \in [Attempts -> Fibers] /\ tracker \in Entries /\ Len(log) \in Nat
  BY Unwraps
<1>2. ASSUME NEW i \in Attempts, Send(i) \/ Step(i) \/ Fault(i) PROVE Placed'
  <2>1. ProgramStep(i) \/ CommitCreate(i) \/ AwaitSeen(i) \/ Drained(i)
    BY <1>2, Zenon DEF Step, Fault, ProgramStep
  <2>2. CASE CommitCreate(i)
    <3>1. CASE Fails(i)
      BY <3>1, StopsPlaced DEF Fails, Phases
    <3>2. CASE UNCHANGED <<fiber, tracker>>
      BY <3>2, Zenon DEF Placed
    <3>3. CASE /\ fiber[i].pc = "create" /\ tracker' = tracker
               /\ fiber' = [fiber EXCEPT ![i].pc = "fence", ![i].inc = Len(log) + 1]
      <4> DEFINE g == [fiber[i] EXCEPT !.pc = "fence", !.inc = Len(log) + 1]
      <4>1. fiber' = [fiber EXCEPT ![i] = g] /\ g.pc = "fence" /\ g.inc # 0
            /\ g.created = fiber[i].created /\ g.preparing = fiber[i].preparing
            /\ g.unheard = fiber[i].unheard
        <5>1. PICK n \in Nat \ {0} : n = Len(log) + 1
          BY <1>1
        <5> QED
          BY <1>1, <3>3, <5>1 DEF Fibers
      <4> HIDE DEF g
      <4> QED
        BY <1>1, <3>3, <4>1 DEF Placed, Program, Early, Interruptible, Entries, Unwinding
    <3> QED
      BY <2>2, <3>1, <3>2, <3>3 DEF CommitCreate
  <2>3. CASE AwaitSeen(i)
    BY <1>1, <2>3 DEF AwaitSeen, At, Goto, Placed, Fibers, Program, Early, Interruptible,
       Entries, Unwinding
  <2>4. CASE Drained(i)
    BY <1>1, <2>4 DEF Drained, At, Placed, Fibers, Program, Early, Interruptible, Entries, Unwinding
  <2> QED
    BY <2>1, <2>2, <2>3, <2>4, ProgramStepPlaced
<1>3. CASE cancel
  BY <1>1, <1>3, StopsPlaced DEF cancel, Phases, Entries
<1>4. CASE Retire
  BY <1>1, <1>4 DEF Retire, Untracked, Placed
<1>5. CASE Cleaning \/ ResolveTurn \/ Launched \/ ClientDelete \/ Restart \/ UNCHANGED vars
  <2>1. UNCHANGED <<fiber, tracker>>
    BY <1>5, Zenon DEF Cleaning, HandOver, NoteSeen, Take, ProcessDeleted, ResolveTurn,
       Launched,
       ClientDelete, Restart, vars
  <2> QED
    BY <2>1, Zenon DEF Placed
<1>6. CASE Crash
  BY <1>1, <1>6 DEF Crash, IdleFiber, Untracked, Placed, Program, Early, Running, Interruptible,
     Unwinding, Fibers
<1> QED
  BY <1>2, <1>3, <1>4, <1>5, <1>6, Zenon DEF Next

-----------------------------------------------------------------------------
(***************************************************************************)
(* Incarnations are told apart, and the queue holds one command of a       *)
(* program at most: the one it waits for, or waited for when cancelled.    *)
(***************************************************************************)
Distinct ==
    \A i, j \in Attempts : i # j /\ fiber[i].inc # 0 => fiber[i].inc # fiber[j].inc

Waits(c) ==
    /\ \/ fiber[c.from].pc = c.kind
       \/ /\ fiber[c.from].pc = "cancelling"
          /\ c.kind = "prepare" => fiber[c.from].unheard = "session"
    /\ c.kind = "create" => fiber[c.from].inc = 0

QueueOnce ==
    /\ \A k \in 1..Len(queued) : Waits(queued[k])
    /\ \A k, l \in 1..Len(queued) : queued[k].from = queued[l].from => k = l

(***************************************************************************)
(* What a step of fiber i does to the queue: its command is decided, or it *)
(* has none there; then it may queue the next.  Or it is cancelled.        *)
(***************************************************************************)
Blocked == Waiting \cup {"cancelling"}

Without(i, q) ==
    \/ q = queued /\ (queued = << >> \/ fiber[i].pc \notin Blocked)
    \/ queued # << >> /\ Head(queued).from = i /\ q = Tail(queued)

QueueMoves(i) ==
    \/ \E q \in Seq(Commands) :
          /\ Without(i, q)
          /\ \/ queued' = q
             \/ \E c \in Commands :
                   /\ c.from = i /\ fiber'[i].pc = c.kind
                   /\ c.kind = "create" => fiber'[i].inc = 0
                   /\ queued' = Append(q, c)
    \/ /\ queued' = queued
       /\ fiber'[i].pc = "cancelling" /\ fiber[i].pc # "cancelling"
       /\ fiber[i].pc = "prepare" => fiber'[i].unheard = "session"
       /\ fiber'[i].inc = fiber[i].inc

(* What it does to its incarnation and its place besides, unless it is the *)
(* engine's decision on its creation.                                      *)
Walks(i) ==
    /\ fiber' \in [Attempts -> Fibers]
    /\ \A j \in Attempts \ {i} : fiber'[j] = fiber[j]
    /\ fiber'[i].inc = fiber[i].inc
    /\ fiber'[i].pc \in Running => fiber[i].pc \in Running \cup {"idle"}
    /\ fiber'[i].pc \in Running => fiber[i].pc \notin {"settle", "apologise"}
    /\ fiber'[i].pc \in Running /\ fiber[i].pc \in Unwinding => fiber'[i].unheard = fiber[i].unheard
    /\ QueueMoves(i)

(* The command decided next is one that its program waits for, or waited   *)
(* for.                                                                    *)
LEMMA DecidingWaits ==
    ASSUME IInv, QueueOnce, NEW i \in Attempts, NEW kind \in Waiting, Deciding(i, kind)
    PROVE  /\ \/ fiber[i].pc = kind
              \/ fiber[i].pc = "cancelling" /\ (kind = "prepare" => fiber[i].unheard = "session")
           /\ kind = "create" => fiber[i].inc = 0
<1>1. queued \in Seq(Commands) /\ queued # << >>
  BY Unwraps DEF Deciding
<1>2. 1 \in 1..Len(queued) /\ Head(queued) = queued[1]
  BY <1>1
<1>3. Waits(Head(queued))
  BY <1>2 DEF QueueOnce
<1> QED
  BY <1>3 DEF Waits, Deciding

LEMMA Stays ==
    ASSUME IInv, NEW i \in Attempts, queued' = queued,
           queued = << >> \/ fiber[i].pc \notin Blocked
    PROVE  QueueMoves(i)
<1>1. queued \in Seq(Commands)
  BY Unwraps
<1> QED
  BY <1>1 DEF QueueMoves, Without

LEMMA ProgramStepWalks ==
    ASSUME IInv, Placed, QueueOnce, NEW i \in Attempts, ProgramStep(i) PROVE Walks(i)
<1> USE DEF Fibers, Running, Unwinding, Interruptible, Waiting, Blocked
<1>1. fiber \in [Attempts -> Fibers] /\ fiber[i] \in Fibers /\ queued \in Seq(Commands)
      /\ tracker \in Entries /\ Untracked \in Entries
  BY Unwraps
<1>2. fiber' \in [Attempts -> Fibers]
  <2>1. TypeOK'
    BY ProgramStepKeeps DEF IInv
  <2> QED
    BY <2>1 DEF TypeOK
<1> DEFINE Moves ==
       /\ \A j \in Attempts \ {i} : fiber'[j] = fiber[j]
       /\ fiber'[i].inc = fiber[i].inc
       /\ fiber'[i].pc \in Running => fiber[i].pc \in Running \cup {"idle"}
       /\ fiber'[i].pc \in Running => fiber[i].pc \notin {"settle", "apologise"}
       /\ fiber'[i].pc \in Running /\ fiber[i].pc \in Unwinding
             => fiber'[i].unheard = fiber[i].unheard
<1>3. ASSUME Moves, queued' = queued, queued = << >> \/ fiber[i].pc \notin Blocked PROVE Walks(i)
  <2>1. QueueMoves(i)
    BY <1>3, Stays
  <2> QED
    BY <1>2, <1>3, <2>1 DEF Walks
<1>4. ASSUME NEW q \in Seq(Commands), Without(i, q), GoesOn(i, q), fiber[i].pc \in {"append", "record"}
      PROVE  Walks(i)
  <2>1. Moves
    BY <1>1, <1>4 DEF GoesOn, Goto
  <2>2. QueueMoves(i)
    <3>1. CASE fiber'[i].pc = "prepare" /\ queued' = Append(q, Command(i, "prepare", Untracked))
      <4>1. Command(i, "prepare", Untracked) \in Commands
        BY <1>1, CommandTyped
      <4> QED
        BY <1>4, <3>1, <4>1 DEF QueueMoves, Command
    <3>2. CASE queued' = q
      BY <1>4, <3>2 DEF QueueMoves
    <3> QED
      BY <1>1, <1>4, <3>1, <3>2 DEF GoesOn, Goto
  <2> QED
    BY <1>2, <2>1, <2>2 DEF Walks
<1>5. CASE Send(i)
  BY <1>1, <1>3, <1>5 DEF Send, Goto
<1>6. CASE AppendMessage(i)
  <2>1. queued = << >> /\ fiber[i].pc = "append"
    BY <1>6 DEF AppendMessage, DispatchAt, At
  <2>2. Without(i, queued)
    BY <2>1 DEF Without
  <2>3. CASE Goto(i, "record") /\ queued' = Append(queued, Command(i, "record", tracker))
    <3>1. Command(i, "record", tracker) \in Commands
      BY <1>1, CommandTyped
    <3>2. Moves /\ fiber'[i].pc = "record"
      BY <1>1, <2>1, <2>3 DEF Goto
    <3>3. QueueMoves(i)
      BY <1>1, <2>2, <2>3, <3>1, <3>2 DEF QueueMoves, Command
    <3> QED
      BY <1>2, <3>2, <3>3 DEF Walks
  <2> QED
    BY <1>1, <1>4, <1>6, <2>1, <2>2, <2>3 DEF AppendMessage
<1>7. ASSUME NEW kind \in Waiting, Deciding(i, kind)
      PROVE  /\ Tail(queued) \in Seq(Commands) /\ Without(i, Tail(queued))
             /\ fiber[i].pc \in {kind, "cancelling"}
  BY <1>7, DecidingTyped, DecidingWaits DEF Without, Deciding
<1>8. CASE CommitRecord(i)
  <2>1. /\ Tail(queued) \in Seq(Commands) /\ Without(i, Tail(queued))
        /\ fiber[i].pc \in {"record", "cancelling"}
    BY <1>7, <1>8 DEF CommitRecord
  <2>2. CASE fiber[i].pc = "record"
    BY <1>4, <1>8, <2>1, <2>2 DEF CommitRecord
  <2>3. CASE fiber[i].pc = "cancelling"
    <3>1. fiber' = fiber /\ queued' = Tail(queued)
      BY <1>8, <2>3 DEF CommitRecord
    <3>2. QueueMoves(i)
      BY <2>1, <3>1 DEF QueueMoves
    <3> QED
      BY <1>2, <2>3, <3>1, <3>2 DEF Walks
  <2> QED
    BY <2>1, <2>2, <2>3
<1>9. CASE CommitPreparing(i)
  <2>1. /\ Tail(queued) \in Seq(Commands) /\ Without(i, Tail(queued))
        /\ fiber[i].pc \in {"prepare", "cancelling"}
    BY <1>7, <1>9 DEF CommitPreparing
  <2>2. queued' = Tail(queued)
    BY <1>9 DEF CommitPreparing
  <2>3. QueueMoves(i)
    BY <2>1, <2>2 DEF QueueMoves
  <2>4. Moves
    BY <1>1, <1>9, <2>1 DEF CommitPreparing, Fails, Stops
  <2> QED
    BY <1>2, <2>3, <2>4 DEF Walks
<1>10. CASE Fetch(i)
  <2>1. fiber[i].pc = "fetch" /\ fiber[i].inc = 0 /\ Moves
    BY <1>1, <1>10 DEF Fetch, At, Fails, Stops, Placed, Early
  <2>2. CASE queued' = queued
    BY <1>3, <2>1, <2>2
  <2>3. CASE fiber'[i].pc = "create" /\ queued' = Append(queued, Command(i, "create", Untracked))
    <3>1. Command(i, "create", Untracked) \in Commands
      BY <1>1, CommandTyped
    <3>2. Without(i, queued)
      BY <2>1 DEF Without
    <3>3. QueueMoves(i)
      BY <1>1, <2>1, <2>3, <3>1, <3>2 DEF QueueMoves, Command
    <3> QED
      BY <1>2, <2>1, <3>3 DEF Walks
  <2>4. \/ queued' = queued
        \/ /\ fiber'[i].pc = "create"
           /\ queued' = Append(queued, Command(i, "create", Untracked))
    BY <1>1, <1>10 DEF Fetch
  <2> QED
    BY <2>2, <2>3, <2>4
<1>11. CASE Checkout(i)
  BY <1>1, <1>3, <1>11 DEF Checkout, At, Fails, Stops
<1>12. CASE FinishCheckout(i)
  BY <1>1, <1>3, <1>12 DEF FinishCheckout, DispatchAt, At, Goto, Fails, Stops
<1>13. CASE RunSetup(i)
  BY <1>1, <1>3, <1>13 DEF RunSetup, At
<1>14. CASE StartTurn(i)
  BY <1>1, <1>3, <1>14 DEF StartTurn, DispatchAt, At
<1>15. CASE Settle(i)
  BY <1>1, <1>3, <1>15 DEF Settle, DispatchAt, At, Answer
<1>16. CASE Unwind(i)
  BY <1>1, <1>3, <1>16 DEF Unwind, DispatchAt, At
<1>17. CASE RemoveWorktree(i)
  BY <1>1, <1>3, <1>17 DEF RemoveWorktree, At
<1>18. CASE Rollback(i)
  BY <1>1, <1>3, <1>18 DEF Rollback, DispatchAt, At, Answer
<1>19. CASE RollbackNothing(i)
  BY <1>1, <1>3, <1>19 DEF RollbackNothing, DispatchAt, At, Answer
<1>20. CASE MarkSessionFailed(i)
  BY <1>1, <1>3, <1>20 DEF MarkSessionFailed, DispatchAt, At, Answer
<1>21. CASE RollbackFails(i)
  <2>1. fiber[i].pc = "rollback" /\ queued' = queued /\ queued = << >>
    BY <1>21 DEF RollbackFails, DispatchAt, At
  <2>2. CASE Goto(i, "apologise")
    BY <1>1, <1>3, <2>1, <2>2 DEF Goto
  <2>3. CASE Answer(i, "failed")
    BY <1>1, <1>3, <2>1, <2>3 DEF Answer
  <2> QED
    BY <1>21, <2>2, <2>3 DEF RollbackFails
<1>22. CASE \E pc \in {"append", "submodules", "handoff"} : FailsAt(i, pc)
  BY <1>1, <1>3, <1>22 DEF FailsAt, DispatchAt, At, Fails, Stops
<1> QED
  BY <1>5, <1>6, <1>8, <1>9, <1>10, <1>11, <1>12, <1>13, <1>14, <1>15, <1>16, <1>17, <1>18,
     <1>19, <1>20, <1>21, <1>22 DEF ProgramStep

LEMMA FenceWalks ==
    ASSUME IInv, Placed, NEW i \in Attempts, AwaitSeen(i) \/ Drained(i) PROVE Walks(i)
<1>1. fiber \in [Attempts -> Fibers] /\ fiber[i] \in Fibers
  BY Unwraps
<1>2. fiber' \in [Attempts -> Fibers]
  <2>1. TypeOK'
    BY FenceKeeps DEF IInv
  <2> QED
    BY <2>1 DEF TypeOK
<1>3. QueueMoves(i)
  BY Stays DEF AwaitSeen, Drained, At, Blocked, Waiting
<1> QED
  BY <1>1, <1>2, <1>3 DEF AwaitSeen, Drained, At, Goto, Walks, Fibers, Running, Unwinding,
     Interruptible

LEMMA CancelWalks == ASSUME IInv, Placed, cancel PROVE \E i \in Attempts : Walks(i)
<1>1. PICK i \in Attempts : i = tracker.handle
  BY Unwraps DEF cancel, Entries
<1>2. fiber \in [Attempts -> Fibers] /\ fiber[i] \in Fibers /\ fiber[i].pc \in Interruptible
  BY <1>1, Unwraps DEF cancel, Placed
<1>3. fiber' \in [Attempts -> Fibers]
  <2>1. TypeOK'
    BY OthersKeep DEF IInv
  <2> QED
    BY <2>1 DEF TypeOK
<1>4. /\ fiber'[i].pc = "cancelling" /\ fiber'[i].inc = fiber[i].inc /\ queued' = queued
      /\ fiber[i].pc = "prepare" => fiber'[i].unheard = "session"
      /\ \A j \in Attempts \ {i} : fiber'[j] = fiber[j]
  BY <1>1, <1>2 DEF cancel, Stops, unheard, Fibers
<1>5. QueueMoves(i)
  BY <1>2, <1>4 DEF QueueMoves, Interruptible
<1>6. Walks(i)
  BY <1>2, <1>3, <1>4, <1>5 DEF Walks, Running, Unwinding, Interruptible
<1> QED
  BY <1>6

(* The queue keeps to that.                                                *)
LEMMA QueueApart ==
    ASSUME IInv, QueueOnce, NEW i \in Attempts, QueueMoves(i),
           \A j \in Attempts \ {i} : fiber'[j] = fiber[j]
    PROVE  QueueOnce'
<1>1. /\ queued \in Seq(Commands)
      /\ \A k \in 1..Len(queued) : queued[k].from \in Attempts /\ queued[k].kind \in Waiting
  <2>1. queued \in Seq(Commands)
    BY Unwraps
  <2>2. \A k \in 1..Len(queued) : queued[k] \in Commands
    BY <2>1
  <2> QED
    BY <2>1, <2>2 DEF Commands
<1>2. ASSUME NEW q \in Seq(Commands), Without(i, q)
      PROVE  /\ \A k \in 1..Len(q) : q[k].from # i /\ Waits(q[k])'
             /\ \A k, l \in 1..Len(q) : q[k].from = q[l].from => k = l
  <2>1. CASE q = queued /\ (queued = << >> \/ fiber[i].pc \notin Blocked)
    <3>1. \A k \in 1..Len(q) : q[k].from # i /\ q[k].from \in Attempts /\ Waits(q[k])
      <4>1. CASE queued = << >>
        BY <2>1, <4>1
      <4>2. CASE fiber[i].pc \notin Blocked
        <5>1. \A k \in 1..Len(queued) : queued[k].kind \in Waiting /\ Waits(queued[k])
          BY <1>1 DEF QueueOnce
        <5> QED
          BY <1>1, <2>1, <4>2, <5>1 DEF Waits, Blocked
      <4> QED
        BY <2>1, <4>1, <4>2
    <3>2. \A k \in 1..Len(q) : Waits(q[k])'
      BY <3>1 DEF Waits
    <3> QED
      BY <2>1, <3>1, <3>2 DEF QueueOnce
  <2>2. CASE queued # << >> /\ Head(queued).from = i /\ q = Tail(queued)
    <3>1. /\ Len(q) = Len(queued) - 1 /\ Len(queued) \in Nat /\ Len(queued) >= 1
          /\ queued[1].from = i
          /\ \A k \in 1..Len(q) : q[k] = queued[k + 1] /\ k + 1 \in 1..Len(queued) /\ k \in Nat
      BY <1>1, <2>2
    <3>2. 1 \in 1..Len(queued)
      BY <3>1
    <3>3. \A k \in 1..Len(q) : q[k].from # i
      <4>1. ASSUME NEW k \in 1..Len(q), q[k].from = i PROVE FALSE
        <5>1. k + 1 = 1
          BY <3>1, <3>2, <4>1 DEF QueueOnce
        <5> QED
          BY <3>1, <5>1
      <4> QED
        BY <4>1
    <3>4. \A k \in 1..Len(q) : Waits(q[k]) /\ q[k].from \in Attempts
      BY <1>1, <3>1 DEF QueueOnce
    <3>5. \A k \in 1..Len(q) : Waits(q[k])'
      BY <3>3, <3>4 DEF Waits
    <3>6. ASSUME NEW k \in 1..Len(q), NEW l \in 1..Len(q), q[k].from = q[l].from PROVE k = l
      <4>1. /\ k + 1 \in 1..Len(queued) /\ l + 1 \in 1..Len(queued)
            /\ queued[k + 1].from = queued[l + 1].from /\ k \in Nat /\ l \in Nat
        BY <3>1, <3>6
      <4>2. k + 1 = l + 1
        BY <4>1 DEF QueueOnce
      <4> QED
        BY <4>1, <4>2
    <3> QED
      BY <3>3, <3>5, <3>6
  <2> QED
    BY <1>2, <2>1, <2>2 DEF Without
<1>3. ASSUME NEW q \in Seq(Commands), Without(i, q), queued' = q PROVE QueueOnce'
  BY <1>2, <1>3 DEF QueueOnce
<1>4. ASSUME NEW q \in Seq(Commands), Without(i, q), NEW c \in Commands, c.from = i,
             fiber'[i].pc = c.kind, c.kind = "create" => fiber'[i].inc = 0,
             queued' = Append(q, c)
      PROVE  QueueOnce'
  <2>1. /\ \A k \in 1..Len(q) : q[k].from # i /\ Waits(q[k])'
        /\ \A k, l \in 1..Len(q) : q[k].from = q[l].from => k = l
    BY <1>2, <1>4
  <2>2. Waits(c)'
    BY <1>4 DEF Waits
  <2>3. /\ Len(queued') = Len(q) + 1 /\ Len(q) \in Nat /\ queued'[Len(q) + 1] = c
        /\ \A k \in 1..Len(q) : queued'[k] = q[k]
        /\ \A k \in 1..Len(queued') : k \in 1..Len(q) \/ k = Len(q) + 1
    BY <1>4
  <2>4. (\A k \in 1..Len(queued) : Waits(queued[k]))'
    BY <2>1, <2>2, <2>3 DEF Waits
  <2>5. ASSUME NEW k \in 1..Len(queued'), NEW l \in 1..Len(queued'),
               queued'[k].from = queued'[l].from
        PROVE  k = l
    BY <1>4, <2>1, <2>3, <2>5
  <2> QED
    BY <2>4, <2>5 DEF QueueOnce
<1>5. CASE /\ queued' = queued
           /\ fiber'[i].pc = "cancelling" /\ fiber[i].pc # "cancelling"
           /\ fiber[i].pc = "prepare" => fiber'[i].unheard = "session"
           /\ fiber'[i].inc = fiber[i].inc
  <2>1. ASSUME NEW k \in 1..Len(queued) PROVE Waits(queued[k])'
    <3>1. Waits(queued[k]) /\ queued[k].from \in Attempts
      BY <1>1 DEF QueueOnce
    <3>2. CASE queued[k].from = i
      BY <1>5, <3>1, <3>2 DEF Waits
    <3>3. CASE queued[k].from # i
      BY <1>5, <3>1, <3>3 DEF Waits
    <3> QED
      BY <3>2, <3>3
  <2> QED
    BY <1>5, <2>1 DEF QueueOnce
<1> QED
  BY <1>3, <1>4, <1>5 DEF QueueMoves

LEMMA WalksApart ==
    ASSUME IInv, Distinct, QueueOnce, NEW i \in Attempts, Walks(i)
    PROVE  Distinct' /\ QueueOnce'
<1>1. Distinct'
  <2>1. \A j \in Attempts : fiber'[j].inc = fiber[j].inc
    BY DEF Walks
  <2> QED
    BY <2>1 DEF Distinct
<1>2. QueueOnce'
  BY QueueApart DEF Walks
<1> QED
  BY <1>1, <1>2

LEMMA CommitCreateApart ==
    ASSUME IInv, Distinct, QueueOnce, NEW i \in Attempts, CommitCreate(i)
    PROVE  Distinct' /\ QueueOnce'
<1>1. /\ fiber \in [Attempts -> Fibers] /\ Len(log) \in Nat
      /\ \A j \in Attempts : fiber[j] \in Fibers /\ fiber[j].inc \in Nat /\ fiber[j].inc <= Len(log)
  BY Unwraps DEF IInv, FibersFenced, Fibers
<1>3. \A j \in Attempts \ {i} : fiber'[j] = fiber[j]
  BY <1>1 DEF CommitCreate, Fails, Stops
<1>4. QueueOnce'
  <2>1. Tail(queued) \in Seq(Commands) /\ queued' = Tail(queued) /\ queued # << >>
        /\ Head(queued).from = i
    BY DecidingTyped DEF CommitCreate, Deciding, Waiting
  <2>2. QueueMoves(i)
    BY <2>1 DEF QueueMoves, Without
  <2> QED
    BY <1>3, <2>2, QueueApart
<1>5. fiber'[i].inc = fiber[i].inc \/ fiber'[i].inc = Len(log) + 1
  BY <1>1 DEF CommitCreate, Fails, Stops, Fibers
<1>6. Distinct'
  <2>1. CASE fiber'[i].inc = fiber[i].inc
    <3>1. \A j \in Attempts : fiber'[j].inc = fiber[j].inc
      BY <1>3, <2>1
    <3> QED
      BY <3>1 DEF Distinct
  <2>2. CASE fiber'[i].inc = Len(log) + 1
    <3>1. \A j \in Attempts \ {i} : fiber'[j].inc = fiber[j].inc /\ fiber[j].inc # Len(log) + 1
      BY <1>1, <1>3
    <3> QED
      BY <2>2, <3>1 DEF Distinct
  <2> QED
    BY <1>5, <2>1, <2>2
<1> QED
  BY <1>4, <1>6

LEMMA NextApart ==
    IInv /\ Placed /\ Distinct /\ QueueOnce /\ [Next]_vars => Distinct' /\ QueueOnce'
<1> SUFFICES ASSUME IInv, Placed, Distinct, QueueOnce, [Next]_vars PROVE Distinct' /\ QueueOnce'
  OBVIOUS
<1>1. ASSUME NEW i \in Attempts, Send(i) \/ Step(i) \/ Fault(i) PROVE Distinct' /\ QueueOnce'
  <2>1. ProgramStep(i) \/ CommitCreate(i) \/ AwaitSeen(i) \/ Drained(i)
    BY <1>1, Zenon DEF Step, Fault, ProgramStep
  <2> QED
    BY <2>1, ProgramStepWalks, FenceWalks, WalksApart, CommitCreateApart
<1>2. CASE cancel
  BY <1>2, CancelWalks, WalksApart
<1>3. CASE Retire \/ Cleaning \/ ResolveTurn \/ Launched \/ ClientDelete \/ Restart \/ UNCHANGED vars
  <2>1. UNCHANGED <<fiber, queued>>
    BY <1>3, Zenon DEF Retire, Cleaning, HandOver, NoteSeen, Take, ProcessDeleted, ResolveTurn,
       Launched,
       ClientDelete, Restart, vars
  <2> QED
    BY <2>1, Zenon DEF Distinct, QueueOnce, Waits
<1>4. CASE Crash
  <2>1. \A i \in Attempts : fiber'[i].inc = 0 \/ fiber'[i].inc = fiber[i].inc
    BY <1>4, Unwraps DEF Crash, IdleFiber
  <2>2. queued' = << >>
    BY <1>4 DEF Crash
  <2> QED
    BY <2>1, <2>2 DEF Distinct, QueueOnce
<1> QED
  BY <1>1, <1>2, <1>3, <1>4, Zenon DEF Next

Base == IInv /\ Placed /\ Distinct /\ QueueOnce

LEMMA Based == Spec => []Base
<1>1. Init => Base
  <2>1. Init => Placed
    BY DEF Init, IdleFiber, Untracked, Placed, Program, Early
  <2>2. Init => Distinct /\ QueueOnce
    BY DEF Init, IdleFiber, Distinct, QueueOnce
  <2> QED
    BY <2>1, <2>2, InitInv DEF Base
<1>2. Base /\ [Next]_vars => Base'
  BY NextInv, NextPlaced, NextApart DEF Base
<1> QED
  BY <1>1, <1>2, PTL DEF Spec

-----------------------------------------------------------------------------
(***************************************************************************)
(* A bootstrap that will end with the session it prepared: it starts the   *)
(* turn, deletes the thread or marks the session.  One that apologises has *)
(* used up the one failing dispatch.  And one that stopped before it was   *)
(* told that the session is set.                                           *)
(***************************************************************************)
Attending(i) ==
    \/ /\ fiber[i].preparing
       /\ fiber[i].pc \in Running \ {"settle"}
       /\ fiber[i].pc = "apologise" => upsets.fault >= 1
    \/ /\ fiber[i].unheard = "session"
       /\ fiber[i].pc \in Running \/ fiber[i].answer = "failed"

Starting ==
    up /\ thread.live /\ thread.session = "starting" /\ thread.turn = "none" /\ upsets.fault <= 1

Attended == Starting => \E i \in Attempts : Attending(i)

(* The program steps along: it goes on attending if it was, and nothing    *)
(* begins to be shown as starting.                                         *)
LEMMA AttenderGoesOn ==
    ASSUME Attended, NEW i \in Attempts, \A j \in Attempts \ {i} : fiber'[j] = fiber[j],
           upsets.fault \in Nat, upsets'.fault \in Nat, upsets'.fault >= upsets.fault,
           Starting' => Starting,
           Starting' /\ Attending(i) => Attending(i)'
    PROVE  Attended'
<1> SUFFICES ASSUME Starting' PROVE \E j \in Attempts : Attending(j)'
  BY DEF Attended
<1>1. PICK j \in Attempts : Attending(j)
  BY DEF Attended
<1>2. CASE j = i
  BY <1>1, <1>2
<1>3. CASE j # i
  <2>1. Attending(j)'
    BY <1>1, <1>3 DEF Attending
  <2> QED
    BY <2>1
<1> QED
  BY <1>2, <1>3

LEMMA FaultGrows ==
    ASSUME IInv, upsets' = upsets \/ (\E kind \in {"client", "crash", "fault"} : Upset(kind))
    PROVE  upsets.fault \in Nat /\ upsets'.fault \in Nat /\ upsets'.fault >= upsets.fault
<1>1. upsets \in Upsets
  BY Unwraps
<1> QED
  BY <1>1 DEF Upset, Upsets

LEMMA ProgramStepAttended ==
    ASSUME IInv, Placed, QueueOnce, Attended, NEW i \in Attempts, ProgramStep(i) PROVE Attended'
<1>1. fiber \in [Attempts -> Fibers] /\ thread \in Threads /\ upsets \in Upsets
      /\ fiber[i] \in Fibers
  BY Unwraps
<1> USE DEF Starting, Attending, Placed, Threads, Fibers, Upsets, Running, Unwinding,
       Interruptible, Late, Upset
<1> DEFINE Same  == \A j \in Attempts \ {i} : fiber'[j] = fiber[j]
           Keeps == (Starting' => Starting) /\ (Starting' /\ Attending(i) => Attending(i)')
<1>2. ASSUME Same, Keeps, upsets' = upsets \/ (\E kind \in {"client", "crash", "fault"} : Upset(kind))
      PROVE  Attended'
  BY <1>2, AttenderGoesOn, FaultGrows
<1>3. upsets' = upsets \/ (\E kind \in {"client", "crash", "fault"} : Upset(kind))
  BY DEF ProgramStep, Send, Fetch, AppendMessage, CommitRecord, record, CommitPreparing,
     Checkout,
     FinishCheckout, RunSetup, StartTurn, Settle, Unwind, RemoveWorktree, Rollback, RollbackNothing,
     MarkSessionFailed, RollbackFails, FailsAt
<1>a. /\ upsets.fault \in Nat /\ upsets'.fault \in Nat /\ upsets'.fault >= upsets.fault
      /\ \A n \in {upsets'.fault} : n <= 1 => upsets.fault <= 1
      /\ \A n \in {upsets.fault} : n >= 1 => upsets'.fault >= 1
  BY <1>3, FaultGrows
<1>4. CASE Send(i)
  <2>1. Same
    BY <1>1, <1>4 DEF Send, Goto
  <2>2. Keeps
    BY <1>1, <1>a, <1>4 DEF Send, Goto
  <2> QED
    BY <1>2, <1>3, <2>1, <2>2
<1>5. CASE Fetch(i)
  <2>1. Same
    BY <1>1, <1>5 DEF Fetch, Fails, Stops
  <2>2. ~fiber[i].preparing /\ fiber[i].unheard # "session"
    BY <1>1, <1>5, Unwraps DEF Fetch, At, Placed, Early
  <2>3. Keeps
    BY <1>5, <2>2 DEF Fetch
  <2> QED
    BY <1>2, <1>3, <2>1, <2>3
<1>6. CASE AppendMessage(i)
  <2>1. Same
    BY <1>1, <1>6 DEF AppendMessage, GoesOn, Goto
  <2>2. Keeps
    BY <1>1, <1>6 DEF AppendMessage, GoesOn, DispatchAt, At, Goto
  <2> QED
    BY <1>2, <1>3, <2>1, <2>2
<1>7. CASE CommitRecord(i)
  <2>1. thread'.session = thread.session /\ thread'.live = thread.live
        /\ thread'.turn = thread.turn /\ up' = up
    BY <1>1, <1>7 DEF CommitRecord, record
  <2>2. CASE fiber[i].pc # "record"
    <3>1. fiber' = fiber
      BY <1>7, <2>2 DEF CommitRecord
    <3>2. Same /\ Keeps
      BY <1>a, <2>1, <3>1
    <3> QED
      BY <1>2, <1>3, <3>2
  <2>3. CASE fiber[i].pc = "record"
    <3>1. Same
      BY <1>1, <1>7, <2>3 DEF CommitRecord, GoesOn, Goto
    <3>2. /\ fiber'[i].pc \in {"prepare", "script"} /\ fiber[i].unheard # "session"
          /\ fiber'[i].preparing = fiber[i].preparing
      BY <1>1, <1>7, <2>3 DEF CommitRecord, GoesOn, Goto
    <3>3. Starting' => Starting
      BY <1>a, <2>1
    <3>4. Keeps
      BY <3>2, <3>3
    <3> QED
      BY <1>2, <1>3, <3>1, <3>4
  <2> QED
    BY <2>2, <2>3
<1>8. CASE CommitPreparing(i)
  <2>1. \/ fiber[i].pc = "prepare"
        \/ fiber[i].pc = "cancelling" /\ fiber[i].unheard = "session"
    BY <1>8, DecidingWaits DEF CommitPreparing, Waiting
  <2>2. Attending(i)'
    BY <1>1, <1>8, <2>1 DEF CommitPreparing, Fails, Stops, unheard
  <2> QED
    BY <2>2 DEF Attended
<1>9. CASE Checkout(i)
  <2>1. Same
    BY <1>1, <1>9 DEF Checkout, Fails, Stops
  <2>2. Keeps
    BY <1>1, <1>9 DEF Checkout, At, Fails, Stops
  <2> QED
    BY <1>2, <1>3, <2>1, <2>2
<1>10. CASE FinishCheckout(i)
  <2>1. Same
    BY <1>1, <1>10 DEF FinishCheckout, Goto, Fails, Stops
  <2>2. Keeps
    BY <1>1, <1>10 DEF FinishCheckout, DispatchAt, At, Goto, Fails, Stops
  <2> QED
    BY <1>2, <1>3, <2>1, <2>2
<1>11. CASE RunSetup(i)
  <2>1. Same
    BY <1>1, <1>11 DEF RunSetup, Goto
  <2>2. Keeps
    BY <1>1, <1>11 DEF RunSetup, At
  <2> QED
    BY <1>2, <1>3, <2>1, <2>2
<1>12. CASE StartTurn(i)
  <2>1. Same
    BY <1>1, <1>12 DEF StartTurn, Goto
  <2>2. Keeps
    BY <1>1, <1>12 DEF StartTurn, TurnRequested, DispatchAt, At
  <2> QED
    BY <1>2, <1>3, <2>1, <2>2
<1>13. CASE Settle(i)
  <2>1. Same
    BY <1>1, <1>13 DEF Settle, Answer
  <2>2. Keeps
    BY <1>1, <1>a, <1>13 DEF Settle, DispatchAt, At, Answer, record
  <2> QED
    BY <1>2, <1>3, <2>1, <2>2
<1>14. CASE Unwind(i)
  <2>1. Same
    BY <1>1, <1>14 DEF Unwind, record
  <2>2. Keeps
    BY <1>1, <1>14 DEF Unwind, DispatchAt, At, record, Upset
  <2> QED
    BY <1>2, <1>3, <2>1, <2>2
<1>15. CASE RemoveWorktree(i)
  <2>1. Same
    BY <1>1, <1>15 DEF RemoveWorktree, Goto
  <2>2. Keeps
    BY <1>1, <1>15 DEF RemoveWorktree, At
  <2> QED
    BY <1>2, <1>3, <2>1, <2>2
<1>16. CASE Rollback(i)
  <2>1. Same
    BY <1>1, <1>16 DEF Rollback, Answer
  <2>2. Keeps
    BY <1>1, <1>16 DEF Rollback, Deleted, DispatchAt, At, Answer
  <2> QED
    BY <1>2, <1>3, <2>1, <2>2
<1>17. CASE RollbackNothing(i)
  <2>1. Same
    BY <1>1, <1>17 DEF RollbackNothing, Answer
  <2>2. Keeps
    BY <1>1, <1>17 DEF RollbackNothing, DispatchAt, At, Answer, IdleFiber
  <2> QED
    BY <1>2, <1>3, <2>1, <2>2
<1>18. CASE MarkSessionFailed(i)
  <2>1. Same
    BY <1>1, <1>18 DEF MarkSessionFailed, Answer
  <2>2. Keeps
    BY <1>1, <1>a, <1>18 DEF MarkSessionFailed, DispatchAt, At, Answer, IdleFiber
  <2> QED
    BY <1>2, <1>3, <2>1, <2>2
<1>19. CASE RollbackFails(i)
  <2>1. Same
    BY <1>1, <1>19 DEF RollbackFails, Goto, Answer
  <2>2. Keeps
    <3>1. CASE Deleted
      BY <1>1, <3>1 DEF Deleted
    <3>2. CASE thread' = thread
      <4>1. upsets'.fault = upsets.fault + 1 /\ up' = up
        BY <1>1, <1>19 DEF RollbackFails
      <4>2. Starting' => Starting
        BY <1>a, <3>2, <4>1
      <4>3. CASE fiber[i].preparing /\ Goto(i, "apologise")
        <5>1. fiber'[i].pc = "apologise" /\ fiber'[i].preparing
          BY <1>1, <4>3 DEF Goto
        <5> QED
          BY <1>1, <4>1, <4>2, <5>1
      <4>4. CASE ~fiber[i].preparing /\ Answer(i, "failed")
        <5>1. fiber'[i].answer = "failed" /\ fiber'[i].unheard = fiber[i].unheard
          BY <1>1, <4>4 DEF Answer
        <5> QED
          BY <4>2, <4>4, <5>1
      <4> QED
        BY <1>19, <4>3, <4>4 DEF RollbackFails
    <3> QED
      BY <1>19, <3>1, <3>2 DEF RollbackFails
  <2> QED
    BY <1>2, <1>3, <2>1, <2>2
<1>20. CASE \E pc \in {"append", "submodules", "handoff"} : FailsAt(i, pc)
  <2>1. Same
    BY <1>1, <1>20 DEF FailsAt, Fails, Stops
  <2>2. Keeps
    <3>1. CASE thread' = TurnRequested
      BY <1>1, <3>1 DEF TurnRequested
    <3>2. CASE thread' = thread
      BY <1>1, <1>a, <1>20, <3>2 DEF FailsAt, DispatchAt, At, Fails, Stops
    <3> QED
      BY <1>20, <3>1, <3>2 DEF FailsAt
  <2> QED
    BY <1>2, <1>3, <2>1, <2>2
<1> QED
  BY <1>4, <1>5, <1>6, <1>7, <1>8, <1>9, <1>10, <1>11, <1>12, <1>13, <1>14, <1>15, <1>16,
     <1>17, <1>18, <1>19, <1>20 DEF ProgramStep

LEMMA NextAttended == IInv /\ Placed /\ QueueOnce /\ Attended /\ [Next]_vars => Attended'
<1> SUFFICES ASSUME IInv, Placed, QueueOnce, Attended, [Next]_vars PROVE Attended'
  OBVIOUS
<1>1. fiber \in [Attempts -> Fibers] /\ thread \in Threads /\ upsets \in Upsets
      /\ tracker \in Entries
  BY Unwraps
<1>2. ASSUME UNCHANGED <<fiber, upsets>>, Starting' => Starting PROVE Attended'
  BY <1>2 DEF Attended, Attending
<1>3. ASSUME NEW i \in Attempts, Send(i) \/ Step(i) \/ Fault(i) PROVE Attended'
  <2>1. ProgramStep(i) \/ CommitCreate(i) \/ AwaitSeen(i) \/ Drained(i)
    BY <1>3, Zenon DEF Step, Fault, ProgramStep
  <2>2. CASE CommitCreate(i)
    <3>1. CASE Created
      <4>1. thread'.session # "starting"
        BY <3>1 DEF Created, NoThread
      <4> QED
        BY <4>1 DEF Attended, Starting
    <3>2. CASE thread' = thread /\ (upsets' = upsets \/ Upset("fault"))
      <4>1. /\ upsets.fault \in Nat /\ upsets'.fault \in Nat /\ upsets'.fault >= upsets.fault
        BY <3>2, FaultGrows
      <4>2. Starting' => Starting
        BY <2>2, <3>2, <4>1 DEF CommitCreate, Starting
      <4>3. \A j \in Attempts \ {i} : fiber'[j] = fiber[j]
        BY <1>1, <2>2 DEF CommitCreate, Fails, Stops
      <4>4. Attending(i) => Attending(i)'
        <5>1. CASE fiber' = fiber
          BY <4>1, <5>1 DEF Attending
        <5>2. CASE fiber[i].pc = "create"
          <6>1. ~fiber[i].preparing /\ fiber[i].unheard = "none"
            BY <1>1, <5>2, Unwraps DEF Placed, Early, Late, Unwinding
          <6> QED
            BY <6>1 DEF Attending
        <5> QED
          BY <2>2, <3>2, <5>1, <5>2 DEF CommitCreate
      <4> QED
        BY <4>1, <4>2, <4>3, <4>4, AttenderGoesOn
    <3> QED
      BY <2>2, <3>1, <3>2 DEF CommitCreate
  <2>3. CASE AwaitSeen(i) \/ Drained(i)
    <3>1. \A j \in Attempts \ {i} : fiber'[j] = fiber[j]
      BY <1>1, <2>3 DEF AwaitSeen, Drained, Goto
    <3>2. ~fiber[i].preparing /\ fiber[i].unheard # "session"
      <4>1. fiber[i].pc \in {"fence", "drain"} /\ (fiber[i].created => fiber[i].pc \in Late)
        BY <2>3, Unwraps DEF AwaitSeen, Drained, At
      <4> QED
        BY <4>1 DEF Placed, Late, Unwinding
    <3>3. upsets' = upsets /\ (Starting' => Starting)
      BY <2>3 DEF AwaitSeen, Drained, Starting
    <3> QED
      BY <3>1, <3>2, <3>3, AttenderGoesOn, FaultGrows DEF Attending
  <2> QED
    BY <2>1, <2>2, <2>3, ProgramStepAttended
<1>4. CASE cancel
  <2>1. PICK i \in Attempts : i = tracker.handle
    BY <1>1, <1>4 DEF cancel, Entries
  <2>2. \A j \in Attempts \ {i} : fiber'[j] = fiber[j]
    BY <1>1, <1>4, <2>1 DEF cancel, Stops
  <2>3. Attending(i) => Attending(i)'
    BY <1>1, <1>4, <2>1 DEF cancel, Stops, Attending, Fibers, Placed, Running, Unwinding,
       Interruptible
  <2>4. upsets' = upsets /\ (Starting' => Starting)
    BY <1>4 DEF cancel, Starting
  <2> QED
    BY <2>1, <2>2, <2>3, <2>4, AttenderGoesOn, FaultGrows
<1>5. CASE Retire \/ Cleaning \/ Launched \/ UNCHANGED vars
  BY <1>2, <1>5 DEF Retire, Cleaning, HandOver, NoteSeen, Take, ProcessDeleted, Launched, vars,
     Starting
<1>6. CASE ResolveTurn \/ ClientDelete \/ Crash
  <2>1. ~Starting'
    BY <1>1, <1>6 DEF ResolveTurn, ClientDelete, Deleted, Crash, Starting, Threads
  <2> QED
    BY <2>1 DEF Attended
<1>7. CASE Restart
  <2>1. ~Starting'
    BY <1>1, <1>7 DEF Restart, reconcileWorktreeSetups, reconcileProviderSessions, Starting,
       Threads
  <2> QED
    BY <2>1 DEF Attended
<1> QED
  BY <1>3, <1>4, <1>5, <1>6, <1>7, Zenon DEF Next

(* A thread is not left behind as starting by a bootstrap that was told of *)
(* its session: whatever is cancelled, resent, deleted or restarted, as    *)
(* long as at most one dispatch fails, a session shown as starting before  *)
(* any turn has a bootstrap that will end that, or one that stopped while  *)
(* it waited to be told.                                                   *)
THEOREM StartingIsLookedAfter == Spec => []StartingIsAttended
<1>1. Init => Attended
  BY DEF Init, NoThread, Attended, Starting
<1>2. Base /\ Attended /\ [Next]_vars => Attended'
  BY NextAttended DEF Base
<1>3. Attended => StartingIsAttended
  BY DEF Attended, Starting, Attending, StartingIsAttended
<1> QED
  BY <1>1, <1>2, <1>3, Based, PTL DEF Spec

-----------------------------------------------------------------------------
(***************************************************************************)
(* One owner: a program that runs on after its thread was created works on *)
(* the incarnation that is there now, if one is.  The code takes this for  *)
(* granted: after the fence every dispatch names the thread id alone.  It  *)
(* holds while nobody else deletes the thread, however many attempts       *)
(* overlap, and while attempts do not overlap, however often the thread is *)
(* deleted.  A program that apologises owns nothing: its deletion may have *)
(* been committed although it was answered with an error.                  *)
(***************************************************************************)
Owning(i) == fiber[i].pc \in Running \ {"apologise"} /\ fiber[i].inc # 0

OneOwner == \A i \in Attempts : Owning(i) /\ thread.live => thread.inc = fiber[i].inc

Held == \A i \in Attempts : Owning(i) => thread.live /\ thread.inc = fiber[i].inc

OneFiber ==
    \A i, j \in Attempts : fiber[i].pc \in Running /\ fiber[j].pc \in Running => i = j

(* What a program step does to the thread.                                 *)
LEMMA ProgramStepThread ==
    ASSUME IInv, NEW i \in Attempts, ProgramStep(i)
    PROVE  /\ thread'.inc = thread.inc
           /\ \/ thread'.live = thread.live
              \/ /\ fiber[i].pc = "rollback" /\ fiber[i].created
                 /\ ~thread'.live /\ fiber'[i].pc \in {"answered", "apologise"}
<1>1. thread \in Threads /\ fiber \in [Attempts -> Fibers]
  BY Unwraps
<1>2. \/ UNCHANGED thread
      \/ \E t \in Entries : record(t)
      \/ CommitPreparing(i) \/ StartTurn(i) \/ Rollback(i) \/ MarkSessionFailed(i)
      \/ RollbackFails(i) \/ thread' = TurnRequested
  <2>1. \A phase \in Phases : finish(phase) \in Entries
    BY Unwraps, FinishType
  <2>2. tracker \in Entries /\ fiber[i].snapshot \in Entries
    BY Unwraps DEF Fibers
  <2>3. "done" \in Phases /\ "record" \in Waiting
    BY DEF Phases, Waiting
  <2>4. CommitRecord(i) => \E t \in Entries : record(t)
    BY <2>3, DecidingTyped DEF CommitRecord
  <2> QED
    BY <2>1, <2>2, <2>3, <2>4, Zenon DEF ProgramStep, Send, Fetch, AppendMessage, Checkout,
       FinishCheckout, RunSetup, Settle, Unwind, RemoveWorktree, RollbackNothing, FailsAt
<1>3. CASE \E t \in Entries : record(t)
  BY <1>3, RecordTyped
<1>4. CASE UNCHANGED thread
  BY <1>4
<1>5. CASE CommitPreparing(i) \/ StartTurn(i) \/ MarkSessionFailed(i) \/ thread' = TurnRequested
  BY <1>1, <1>5 DEF CommitPreparing, StartTurn, MarkSessionFailed, TurnRequested, Threads
<1>6. CASE Rollback(i)
  BY <1>1, <1>6 DEF Rollback, Deleted, DispatchAt, At, Answer, IdleFiber, Threads
<1>7. CASE RollbackFails(i)
  <2>1. fiber[i].pc = "rollback" /\ fiber[i].created
    BY <1>7 DEF RollbackFails, DispatchAt, At
  <2>2. fiber'[i].pc \in {"answered", "apologise"}
    <3>1. CASE Goto(i, "apologise")
      BY <1>1, <3>1 DEF Goto, Fibers
    <3>2. CASE Answer(i, "failed")
      BY <1>1, <3>2 DEF Answer, IdleFiber
    <3> QED
      BY <1>7, <3>1, <3>2 DEF RollbackFails
  <2>3. thread'.inc = thread.inc /\ (thread'.live = thread.live \/ ~thread'.live)
    BY <1>1, <1>7 DEF RollbackFails, Deleted, Threads
  <2> QED
    BY <2>1, <2>2, <2>3
<1> QED
  BY <1>2, <1>3, <1>4, <1>5, <1>6, <1>7

LEMMA OwningKept ==
    ASSUME Placed, NEW i \in Attempts, Walks(i), NEW j \in Attempts, Owning(j)'
    PROVE  Owning(j) /\ fiber'[j].inc = fiber[j].inc
BY DEF Walks, Owning, Placed, Early, Running, Unwinding, Interruptible

LEMMA Untouched ==
    ASSUME IInv, cancel \/ Retire \/ Cleaning \/ ResolveTurn \/ Launched \/ Restart \/ UNCHANGED vars
    PROVE  thread'.inc = thread.inc /\ thread'.live = thread.live
<1>1. thread \in Threads
  BY Unwraps
<1>2. CASE cancel \/ Retire \/ Cleaning \/ Launched \/ UNCHANGED vars
  BY <1>2, Zenon DEF cancel, Retire, Cleaning, HandOver, NoteSeen, Take, ProcessDeleted,
     Launched, vars
<1>3. CASE ResolveTurn
  BY <1>1, <1>3 DEF ResolveTurn, Threads
<1>4. CASE Restart
  BY <1>1, <1>4 DEF Restart, reconcileWorktreeSetups, reconcileProviderSessions, Threads
<1> QED
  BY <1>2, <1>3, <1>4

LEMMA StillFibers ==
    ASSUME Retire \/ Cleaning \/ ResolveTurn \/ Launched \/ ClientDelete \/ Restart \/ UNCHANGED vars
    PROVE  fiber' = fiber
BY Zenon DEF Retire, Cleaning, HandOver, NoteSeen, Take, ProcessDeleted, ResolveTurn, Launched,
   ClientDelete, Restart, vars

LEMMA CrashOwnsNothing == ASSUME IInv, Crash PROVE \A i \in Attempts : ~Owning(i)'
<1>1. fiber' = [i \in Attempts |-> IF fiber[i].pc \in Running THEN [IdleFiber EXCEPT !.pc = "lost"]
                                 ELSE fiber[i]]
  BY DEF Crash
<1> QED
  BY <1>1 DEF Owning, IdleFiber, Running, Unwinding, Interruptible

LEMMA NextHeld ==
    /\ IInv /\ Placed /\ Distinct /\ QueueOnce /\ Held
    /\ [Next /\ ~ClientDelete]_vars
    => Held'
<1> SUFFICES ASSUME IInv, Placed, Distinct, QueueOnce, Held, [Next /\ ~ClientDelete]_vars
             PROVE  Held'
  OBVIOUS
<1>1. ASSUME NEW i \in Attempts, ProgramStep(i) PROVE Held'
  <2>1. Walks(i)
    BY <1>1, ProgramStepWalks
  <2> SUFFICES ASSUME NEW j \in Attempts, Owning(j)'
               PROVE  thread'.live /\ thread'.inc = fiber'[j].inc
    BY DEF Held
  <2>2. Owning(j) /\ fiber'[j].inc = fiber[j].inc
    BY <2>1, OwningKept
  <2>3. thread.live /\ thread.inc = fiber[j].inc
    BY <2>2 DEF Held
  <2>4. CASE thread'.live = thread.live
    BY <1>1, <2>2, <2>3, <2>4, ProgramStepThread
  <2>5. CASE fiber[i].pc = "rollback" /\ fiber[i].created
             /\ fiber'[i].pc \in {"answered", "apologise"}
    <3>1. Owning(i)
      BY <2>5 DEF Owning, Placed, Running, Unwinding
    <3>2. i = j
      BY <2>2, <2>3, <3>1 DEF Held, Distinct, Owning
    <3>3. ~Owning(j)'
      BY <2>5, <3>2 DEF Owning, Running, Unwinding, Interruptible
    <3> QED
      BY <3>3
  <2> QED
    BY <1>1, <2>4, <2>5, ProgramStepThread
<1>2. ASSUME NEW i \in Attempts, AwaitSeen(i) \/ Drained(i) PROVE Held'
  <2>1. Walks(i) /\ thread' = thread
    BY <1>2, FenceWalks DEF AwaitSeen, Drained
  <2> QED
    BY <2>1, OwningKept DEF Held
<1>3. ASSUME NEW i \in Attempts, CommitCreate(i) PROVE Held'
  <2>1. fiber \in [Attempts -> Fibers] /\ Len(log) \in Nat
    BY Unwraps
  <2>2. \A j \in Attempts \ {i} : fiber'[j] = fiber[j]
    BY <1>3, <2>1 DEF CommitCreate, Fails, Stops
  <2>3. CASE /\ thread' = thread /\ fiber'[i].inc = fiber[i].inc
             /\ fiber' = fiber \/ fiber[i].pc = "create"
    <3>1. \A j \in Attempts : Owning(j)' => Owning(j) /\ fiber'[j].inc = fiber[j].inc
      BY <2>2, <2>3 DEF Owning, Running, Interruptible
    <3> QED
      BY <2>3, <3>1 DEF Held
  <2>4. CASE Created /\ fiber'[i].inc \in {0, Len(log) + 1, fiber[i].inc}
    <3>1. ~thread.live /\ thread'.live /\ thread'.inc = Len(log) + 1
      BY <2>4 DEF Created, NoThread
    <3>2. \A j \in Attempts : ~Owning(j)
      BY <3>1 DEF Held
    <3>3. \A j \in Attempts : Owning(j)' => j = i /\ fiber'[j].inc # fiber[j].inc
      BY <1>3, <2>1, <2>2, <3>2 DEF Owning, CommitCreate, Fails, Stops, Fibers, Running, Interruptible
    <3>4. \A j \in Attempts : Owning(j)' => fiber'[j].inc = Len(log) + 1
      BY <2>4, <3>3 DEF Owning
    <3> QED
      BY <3>1, <3>4 DEF Held
  <2>5. /\ fiber'[i].inc \in {0, Len(log) + 1, fiber[i].inc}
        /\ \/ Created
           \/ /\ thread' = thread /\ fiber'[i].inc = fiber[i].inc
              /\ fiber' = fiber \/ fiber[i].pc = "create"
    BY <1>3, <2>1 DEF CommitCreate, Fails, Stops, Fibers
  <2> QED
    BY <2>3, <2>4, <2>5
<1>4. ASSUME NEW i \in Attempts, Send(i) \/ Step(i) \/ Fault(i) PROVE Held'
  <2>1. ProgramStep(i) \/ CommitCreate(i) \/ AwaitSeen(i) \/ Drained(i)
    BY <1>4, Zenon DEF Step, Fault, ProgramStep
  <2> QED
    BY <1>1, <1>2, <1>3, <2>1
<1>5. CASE cancel
  BY <1>5, CancelWalks, OwningKept, Untouched DEF Held
<1>6. CASE Retire \/ Cleaning \/ ResolveTurn \/ Launched \/ Restart \/ UNCHANGED vars
  <2>1. fiber' = fiber
    BY <1>6, StillFibers
  <2> QED
    BY <1>6, <2>1, Untouched DEF Held, Owning
<1>7. CASE Crash
  BY <1>7, CrashOwnsNothing DEF Held
<1> QED
  BY <1>4, <1>5, <1>6, <1>7, Zenon DEF Next

LEMMA NextOneOwner ==
    /\ IInv /\ Placed /\ Distinct /\ QueueOnce /\ OneFiber /\ OneOwner
    /\ [Next]_vars
    => OneOwner'
<1> SUFFICES ASSUME IInv, Placed, Distinct, QueueOnce, OneFiber, OneOwner, [Next]_vars
             PROVE  OneOwner'
  OBVIOUS
<1>1. ASSUME NEW i \in Attempts, ProgramStep(i) \/ AwaitSeen(i) \/ Drained(i) PROVE OneOwner'
  <2>1. Walks(i)
    BY <1>1, ProgramStepWalks, FenceWalks
  <2>2. thread'.inc = thread.inc /\ (thread'.live => thread.live)
    BY <1>1, ProgramStepThread DEF AwaitSeen, Drained
  <2> QED
    BY <2>1, <2>2, OwningKept DEF OneOwner
<1>2. ASSUME NEW i \in Attempts, CommitCreate(i) PROVE OneOwner'
  <2>1. fiber \in [Attempts -> Fibers] /\ Len(log) \in Nat /\ queued \in Seq(Commands)
    BY Unwraps
  <2>2. \A j \in Attempts \ {i} : fiber'[j] = fiber[j]
    BY <1>2, <2>1 DEF CommitCreate, Fails, Stops
  <2>3. fiber[i].pc \in {"create", "cancelling"} /\ fiber[i].inc = 0
    BY <1>2, DecidingWaits DEF CommitCreate, Waiting
  <2>4. \A j \in Attempts \ {i} : ~Owning(j)'
    <3>1. fiber[i].pc \in Running
      BY <2>3 DEF Running, Interruptible, Unwinding
    <3>2. \A j \in Attempts \ {i} : ~Owning(j)
      BY <3>1 DEF OneFiber, Owning
    <3> QED
      BY <2>2, <3>2 DEF Owning
  <2>5. Owning(i)' => thread'.inc = fiber'[i].inc
    <3>1. \/ fiber'[i].inc = fiber[i].inc
          \/ fiber'[i].inc = Len(log) + 1 /\ Created
      BY <1>2, <2>1 DEF CommitCreate, Fails, Stops, Fibers
    <3> QED
      BY <2>3, <3>1 DEF Owning, Created, NoThread
  <2> QED
    BY <2>4, <2>5 DEF OneOwner
<1>3. ASSUME NEW i \in Attempts, Send(i) \/ Step(i) \/ Fault(i) PROVE OneOwner'
  <2>1. ProgramStep(i) \/ CommitCreate(i) \/ AwaitSeen(i) \/ Drained(i)
    BY <1>3, Zenon DEF Step, Fault, ProgramStep
  <2> QED
    BY <1>1, <1>2, <2>1
<1>4. CASE cancel
  BY <1>4, CancelWalks, OwningKept, Untouched DEF OneOwner
<1>5. CASE Retire \/ Cleaning \/ ResolveTurn \/ Launched \/ Restart \/ UNCHANGED vars
  <2>1. fiber' = fiber
    BY <1>5, StillFibers
  <2> QED
    BY <1>5, <2>1, Untouched DEF OneOwner, Owning
<1>6. CASE ClientDelete
  <2>1. ~thread'.live
    BY <1>6, Unwraps DEF ClientDelete, Deleted, Threads
  <2> QED
    BY <2>1 DEF OneOwner
<1>7. CASE Crash
  BY <1>7, CrashOwnsNothing DEF OneOwner
<1> QED
  BY <1>3, <1>4, <1>5, <1>6, <1>7, Zenon DEF Next

-----------------------------------------------------------------------------
(***************************************************************************)
(* The fence, carried from the program to the session its turn starts: no  *)
(* clean-up on its way comes after an incarnation that has a session, one  *)
(* that is being launched, or a turn that asks for one.                    *)
(***************************************************************************)
Beyond(n) ==
    /\ n <= reactor.handed
    /\ \A k \in 1..Len(reactor.queue) : n < reactor.queue[k]
    /\ reactor.processing # 0 => n < reactor.processing

SessionsFenced ==
    /\ provider.launching # 0 => Beyond(provider.launching)
    /\ provider.session # 0 => Beyond(provider.session)
    /\ thread.live /\ thread.turn = "requested" => Beyond(thread.inc)

(* The turn of an incarnation is started by the last thing its owner does  *)
(* before it settles, or before it stops without having heard of it.       *)
TurnNotYet ==
    \A i \in Attempts :
       (/\ Owning(i) /\ fiber[i].pc # "settle" /\ fiber[i].unheard # "turn"
        /\ thread.live /\ thread.inc = fiber[i].inc)
          => thread.turn = "none"

(* What a program step does to the turn.                                   *)
LEMMA ProgramStepTurn ==
    ASSUME IInv, NEW i \in Attempts, ProgramStep(i)
    PROVE  /\ UNCHANGED <<reactor, provider>>
           /\ thread'.turn = thread.turn \/ StartTurn(i) \/ FailsAt(i, "handoff")
<1>1. thread \in Threads
  BY Unwraps
<1>2. UNCHANGED <<reactor, provider>>
  BY Zenon DEF ProgramStep, Send, Fetch, AppendMessage, CommitRecord, CommitPreparing, Checkout,
     FinishCheckout, RunSetup, StartTurn, Settle, Unwind, RemoveWorktree, Rollback, RollbackNothing,
     MarkSessionFailed, RollbackFails, FailsAt
<1>3. \A t : record(t) => thread'.turn = thread.turn
  BY <1>1 DEF record, Threads
<1>4. CASE CommitPreparing(i) \/ MarkSessionFailed(i) \/ Rollback(i) \/ RollbackFails(i)
  BY <1>1, <1>2, <1>4 DEF CommitPreparing, MarkSessionFailed, Rollback, RollbackFails, Deleted,
     Threads
<1>5. CASE CommitRecord(i) \/ Settle(i) \/ Unwind(i)
  BY <1>2, <1>3, <1>5, Zenon DEF CommitRecord, Settle, Unwind
<1>6. CASE \/ Send(i) \/ Fetch(i) \/ AppendMessage(i) \/ Checkout(i) \/ FinishCheckout(i)
           \/ RunSetup(i) \/ RemoveWorktree(i) \/ RollbackNothing(i)
           \/ \E pc \in {"append", "submodules"} : FailsAt(i, pc)
  <2>1. thread' = thread
    BY <1>6 DEF Send, Fetch, AppendMessage, Checkout, FinishCheckout, RunSetup, RemoveWorktree,
       RollbackNothing, FailsAt
  <2> QED
    BY <1>2, <2>1
<1> QED
  BY <1>2, <1>4, <1>5, <1>6 DEF ProgramStep

LEMMA StartTurnFenced ==
    ASSUME IInv, Placed, Distinct, OneOwner, NEW i \in Attempts,
           StartTurn(i) \/ FailsAt(i, "handoff")
    PROVE  /\ fiber[i].created /\ Owning(i)
           /\ fiber'[i].pc = "settle" \/ fiber'[i].unheard = "turn"
           /\ thread'.live = thread.live /\ thread'.inc = thread.inc
           /\ thread.live => thread.inc = fiber[i].inc /\ Beyond(thread.inc)
<1>1. fiber \in [Attempts -> Fibers] /\ thread \in Threads /\ fiber[i].pc = "handoff"
  BY Unwraps DEF StartTurn, FailsAt, DispatchAt, At
<1>2. fiber[i].created /\ Owning(i)
  BY <1>1 DEF Placed, Program, Owning, Running
<1>3. /\ fiber'[i].pc = "settle" \/ fiber'[i].unheard = "turn"
      /\ thread'.live = thread.live /\ thread'.inc = thread.inc
  BY <1>1 DEF StartTurn, FailsAt, Fails, Stops, unheard, TurnRequested, Fibers, Threads
<1>4. Beyond(fiber[i].inc)
  BY <1>2 DEF IInv, FencePassed, Beyond
<1> QED
  BY <1>2, <1>3, <1>4 DEF OneOwner

LEMMA NextTurnNotYet ==
    /\ IInv /\ Placed /\ Distinct /\ QueueOnce /\ OneOwner /\ TurnNotYet
    /\ [Next]_vars
    => TurnNotYet'
<1> SUFFICES ASSUME IInv, Placed, Distinct, QueueOnce, OneOwner, TurnNotYet, [Next]_vars
             PROVE  TurnNotYet'
  OBVIOUS
<1>1. ASSUME NEW i \in Attempts, Walks(i), thread'.inc = thread.inc, thread'.live => thread.live,
             thread'.turn = thread.turn
      PROVE  TurnNotYet'
  <2> SUFFICES ASSUME NEW j \in Attempts, Owning(j)', fiber'[j].pc # "settle",
                      fiber'[j].unheard # "turn", thread'.live, thread'.inc = fiber'[j].inc
               PROVE  thread'.turn = "none"
    BY DEF TurnNotYet
  <2>1. Owning(j) /\ fiber'[j].inc = fiber[j].inc
    BY <1>1, OwningKept
  <2>2. fiber[j].pc # "settle"
    BY <1>1 DEF Walks, Owning
  <2>3. fiber[j].unheard # "turn"
    BY <1>1, <2>1 DEF Walks, Owning, Placed, Running, Interruptible, Unwinding
  <2> QED
    BY <1>1, <2>1, <2>2, <2>3 DEF TurnNotYet
<1>2. ASSUME NEW i \in Attempts, ProgramStep(i) PROVE TurnNotYet'
  <2>1. Walks(i)
    BY <1>2, ProgramStepWalks
  <2>2. CASE StartTurn(i) \/ FailsAt(i, "handoff")
    <3> SUFFICES ASSUME NEW j \in Attempts, Owning(j)', fiber'[j].pc # "settle",
                        fiber'[j].unheard # "turn", thread'.live, thread'.inc = fiber'[j].inc
                 PROVE  FALSE
      BY DEF TurnNotYet
    <3>1. Owning(j) /\ fiber'[j].inc = fiber[j].inc
      BY <2>1, OwningKept
    <3> QED
      BY <2>2, <3>1, StartTurnFenced DEF Distinct, Owning
  <2>3. CASE ~(StartTurn(i) \/ FailsAt(i, "handoff"))
    BY <1>1, <1>2, <2>1, <2>3, ProgramStepThread, ProgramStepTurn
  <2> QED
    BY <2>2, <2>3
<1>3. ASSUME NEW i \in Attempts, CommitCreate(i) PROVE TurnNotYet'
  <2>1. fiber \in [Attempts -> Fibers]
    BY Unwraps
  <2>2. CASE Created
    BY <2>2 DEF Created, NoThread, TurnNotYet
  <2>3. CASE /\ thread' = thread
             /\ fiber' = fiber \/ (fiber[i].pc = "create" /\ Fails(i))
    <3>1. \A j \in Attempts \ {i} : fiber'[j] = fiber[j]
      BY <1>3, <2>1 DEF CommitCreate, Fails, Stops
    <3>2. fiber' = fiber \/ fiber'[i].inc = 0
      BY <2>1, <2>3 DEF Fails, Stops, Fibers, Placed, Early
    <3> QED
      BY <2>3, <3>1, <3>2 DEF TurnNotYet, Owning
  <2> QED
    BY <1>3, <2>2, <2>3 DEF CommitCreate
<1>4. ASSUME NEW i \in Attempts, Send(i) \/ Step(i) \/ Fault(i) PROVE TurnNotYet'
  <2>1. ProgramStep(i) \/ CommitCreate(i) \/ AwaitSeen(i) \/ Drained(i)
    BY <1>4, Zenon DEF Step, Fault, ProgramStep
  <2>2. CASE AwaitSeen(i) \/ Drained(i)
    BY <1>1, <2>2, FenceWalks DEF AwaitSeen, Drained
  <2> QED
    BY <1>2, <1>3, <2>1, <2>2
<1>5. CASE cancel
  BY <1>1, <1>5, CancelWalks DEF cancel
<1>6. CASE Retire \/ Cleaning \/ ResolveTurn \/ Launched \/ Restart \/ UNCHANGED vars
  <2>1. fiber' = fiber
    BY <1>6, StillFibers
  <2>2. thread'.turn = "none" \/ thread.turn # "none"
    <3>1. thread \in Threads
      BY Unwraps
    <3>2. CASE Restart
      BY <3>1, <3>2 DEF Restart, reconcileWorktreeSetups, reconcileProviderSessions, Threads
    <3>3. CASE ResolveTurn
      BY <3>3 DEF ResolveTurn
    <3>4. CASE Retire \/ Cleaning \/ Launched \/ UNCHANGED vars
      BY <3>4, Zenon DEF Retire, Cleaning, HandOver, NoteSeen, Take, ProcessDeleted, Launched,
         vars
    <3> QED
      BY <1>6, <3>2, <3>3, <3>4
  <2> QED
    BY <1>6, <2>1, <2>2, Untouched DEF TurnNotYet, Owning
<1>7. CASE ClientDelete
  <2>1. ~thread'.live
    BY <1>7, Unwraps DEF ClientDelete, Deleted, Threads
  <2> QED
    BY <2>1 DEF TurnNotYet
<1>8. CASE Crash
  BY <1>8, CrashOwnsNothing DEF TurnNotYet
<1> QED
  BY <1>4, <1>5, <1>6, <1>7, <1>8, Zenon DEF Next

LEMMA BeyondKept ==
    ASSUME IInv, Cleaning, NEW n \in Nat, Beyond(n)
    PROVE  Beyond(n)'
<1> DEFINE h == reactor.handed
           q == reactor.queue
           p == reactor.processing
<1>1. reactor \in Reactors /\ h \in Nat /\ q \in Seq(Nat) /\ p \in Nat /\ Len(q) \in Nat
  BY DEF IInv, TypeOK, Reactors
<1>2. n <= h /\ (\A k \in 1..Len(q) : n < q[k]) /\ (p # 0 => n < p)
  BY DEF Beyond
<1>3. CASE HandOver
  <2>1. h + 1 \in Nat /\ n < h + 1 /\ n <= h + 1
    BY <1>1, <1>2
  <2>2. Append(q, h + 1) \in Seq(Nat) /\ Len(Append(q, h + 1)) = Len(q) + 1
        /\ \A k \in 1..Len(q) + 1 : Append(q, h + 1)[k] = IF k = Len(q) + 1 THEN h + 1 ELSE q[k]
    BY <1>1, <2>1
  <2>3. \A k \in 1..Len(Append(q, h + 1)) : n < Append(q, h + 1)[k]
    BY <1>1, <1>2, <2>1, <2>2
  <2>4. /\ reactor'.handed = h + 1 /\ reactor'.processing = p
        /\ reactor'.queue = q \/ reactor'.queue = Append(q, h + 1)
    BY <1>1, <1>3 DEF HandOver, Reactors
  <2> HIDE DEF h, q, p
  <2> QED
    BY <1>2, <2>1, <2>3, <2>4 DEF Beyond
<1>4. CASE NoteSeen
  <2>1. reactor'.handed = h /\ reactor'.queue = q /\ reactor'.processing = p
    BY <1>1, <1>4 DEF NoteSeen, Reactors
  <2> QED
    BY <1>2, <2>1 DEF Beyond
<1>5. CASE Take
  <2>1. q # << >> /\ reactor'.handed = h /\ reactor'.queue = Tail(q) /\ reactor'.processing = Head(q)
    BY <1>1, <1>5 DEF Take, Reactors
  <2>2. n < Head(q) /\ \A k \in 1..Len(Tail(q)) : n < Tail(q)[k]
    BY <1>1, <1>2, <2>1
  <2> HIDE DEF h, q, p
  <2> QED
    BY <1>2, <2>1, <2>2 DEF Beyond
<1>6. CASE ProcessDeleted
  <2>1. reactor'.handed = h /\ reactor'.queue = q /\ reactor'.processing = 0
    BY <1>1, <1>6 DEF ProcessDeleted, Reactors
  <2> QED
    BY <1>2, <2>1 DEF Beyond
<1> QED
  BY <1>3, <1>4, <1>5, <1>6 DEF Cleaning

LEMMA BeyondRestart ==
    ASSUME IInv, Restart, NEW n \in Nat, Beyond(n)
    PROVE  Beyond(n)'
<1>1. n <= Len(log)
  <2>1. reactor.handed \in Nat /\ Len(log) \in Nat /\ reactor.handed <= Len(log) /\ n <= reactor.handed
    BY Unwraps DEF IInv, TypeOK, ReactorExact, Beyond
  <2> QED
    BY <2>1
<1>2. reactor'.handed = Len(log) /\ reactor'.queue = << >> /\ reactor'.processing = 0
  BY DEF Restart, Subscribed
<1> QED
  BY <1>1, <1>2 DEF Beyond

LEMMA NextSessionsFenced ==
    IInv /\ Placed /\ Distinct /\ OneOwner /\ SessionsFenced /\ [Next]_vars => SessionsFenced'
<1> SUFFICES ASSUME IInv, Placed, Distinct, OneOwner, SessionsFenced, [Next]_vars
             PROVE  SessionsFenced'
  OBVIOUS
<1>1. thread \in Threads /\ provider \in Providers /\ thread.inc \in Nat
      /\ provider.launching \in Nat /\ provider.session \in Nat
  BY Unwraps DEF Threads, Providers
<1>2. ASSUME UNCHANGED <<reactor, provider>>, thread'.inc = thread.inc,
             thread'.live => thread.live, thread'.turn = thread.turn
      PROVE  SessionsFenced'
  BY <1>2 DEF SessionsFenced, Beyond
<1>3. ASSUME NEW i \in Attempts, ProgramStep(i) PROVE SessionsFenced'
  <2>1. CASE StartTurn(i) \/ FailsAt(i, "handoff")
    BY <1>3, <2>1, StartTurnFenced, ProgramStepTurn DEF SessionsFenced, Beyond
  <2>2. CASE ~(StartTurn(i) \/ FailsAt(i, "handoff"))
    BY <1>2, <1>3, <2>2, ProgramStepThread, ProgramStepTurn
  <2> QED
    BY <2>1, <2>2
<1>4. ASSUME NEW i \in Attempts, CommitCreate(i) PROVE SessionsFenced'
  <2>1. CASE Created
    BY <1>4, <2>1 DEF CommitCreate, Created, NoThread, SessionsFenced, Beyond
  <2>2. CASE thread' = thread
    BY <1>2, <1>4, <2>2 DEF CommitCreate
  <2> QED
    BY <1>4, <2>1, <2>2 DEF CommitCreate
<1>5. ASSUME NEW i \in Attempts, Send(i) \/ Step(i) \/ Fault(i) PROVE SessionsFenced'
  <2>1. ProgramStep(i) \/ CommitCreate(i) \/ AwaitSeen(i) \/ Drained(i)
    BY <1>5, Zenon DEF Step, Fault, ProgramStep
  <2>2. CASE AwaitSeen(i) \/ Drained(i)
    BY <1>2, <2>2 DEF AwaitSeen, Drained
  <2> QED
    BY <1>3, <1>4, <2>1, <2>2
<1>6. CASE cancel \/ Retire \/ UNCHANGED vars
  BY <1>2, <1>6 DEF cancel, Retire, vars
<1>7. CASE Cleaning
  <2>1. thread' = thread /\ provider'.launching = provider.launching
        /\ (provider'.session = provider.session \/ provider'.session = 0)
    BY <1>1, <1>7 DEF Cleaning, HandOver, NoteSeen, Take, ProcessDeleted, Providers
  <2> QED
    BY <1>1, <1>7, <2>1, BeyondKept DEF SessionsFenced
<1>8. CASE ResolveTurn
  BY <1>1, <1>8 DEF ResolveTurn, SessionsFenced, Beyond, Threads, Providers
<1>9. CASE Launched
  BY <1>1, <1>9 DEF Launched, SessionsFenced, Beyond, Providers
<1>10. CASE ClientDelete
  BY <1>1, <1>10 DEF ClientDelete, Deleted, SessionsFenced, Beyond, Threads
<1>11. CASE Crash
  BY <1>11 DEF Crash, NoSession, SessionsFenced, Beyond
<1>12. CASE Restart
  <2>1. /\ thread'.turn = thread.turn /\ provider' = provider
        /\ thread'.inc = thread.inc /\ thread'.live = thread.live
    BY <1>1, <1>12 DEF Restart, reconcileWorktreeSetups, reconcileProviderSessions, Threads
  <2> QED
    BY <1>1, <1>12, <2>1, BeyondRestart DEF SessionsFenced
<1> QED
  BY <1>5, <1>6, <1>7, <1>8, <1>9, <1>10, <1>11, <1>12, Zenon DEF Next

-----------------------------------------------------------------------------
(* Only the clean-up of a deletion takes a session away while the server   *)
(* is up, and every deletion on its way is later than that session.        *)
LEMMA SessionEnds ==
    ASSUME IInv, SessionsFenced, [Next]_vars, up', provider.session # 0, provider'.session = 0
    PROVE  reactor.processing > provider.session
<1>1. provider \in Providers /\ provider' # provider /\ reactor.processing \in Nat
      /\ provider.session \in Nat
  BY Unwraps DEF IInv, TypeOK, Providers
<1>2. ProcessDeleted
  <2>1. ~(\E i \in Attempts : Send(i) \/ Step(i) \/ Fault(i))
    <3> SUFFICES ASSUME NEW i \in Attempts, Send(i) \/ Step(i) \/ Fault(i) PROVE FALSE
      OBVIOUS
    <3>1. ProgramStep(i) \/ CommitCreate(i) \/ AwaitSeen(i) \/ Drained(i)
      BY Zenon DEF Step, Fault, ProgramStep
    <3> QED
      BY <1>1, <3>1, ProgramStepTurn DEF CommitCreate, AwaitSeen, Drained
  <2>2. ~(cancel \/ Retire \/ HandOver \/ NoteSeen \/ Take \/ ClientDelete \/ Restart \/ UNCHANGED vars)
    BY <1>1, Zenon DEF cancel, Retire, HandOver, NoteSeen, Take, ClientDelete, Restart, vars
  <2>3. ~Crash
    BY DEF Crash
  <2>4. ~ResolveTurn
    BY <1>1 DEF ResolveTurn, Providers
  <2>5. ~Launched
    <3>1. Launched => \/ (provider'.session = provider.launching /\ provider.launching # 0)
                      \/ provider'.session = provider.session
      BY <1>1 DEF Launched, Providers
    <3> QED
      BY <3>1
  <2> QED
    BY <2>1, <2>2, <2>3, <2>4, <2>5, Zenon DEF Next, Cleaning
<1> QED
  BY <1>1, <1>2 DEF ProcessDeleted, SessionsFenced, Beyond

(* Only a rollback ends a program and a thread in one step, and the thread *)
(* it ends is its own, whose turn it has not started or not heard of.      *)
LEMMA RollbackEnds ==
    ASSUME IInv, Placed, QueueOnce, OneOwner, TurnNotYet, [Next]_vars, NEW i \in Attempts,
           fiber[i].pc = "rollback", fiber'[i].pc # "rollback", thread.live, ~thread'.live
    PROVE  thread.turn = "none" \/ fiber[i].unheard = "turn"
<1>1. ProgramStep(i)
  <2>1. fiber'[i] # fiber[i]
    OBVIOUS
  <2>2. ~(Retire \/ Cleaning \/ ResolveTurn \/ Launched \/ ClientDelete \/ Restart \/ UNCHANGED vars)
    BY <2>1, StillFibers
  <2>3. ~(cancel \/ Crash)
    BY Unwraps, Untouched DEF Crash
  <2>4. PICK j \in Attempts : Send(j) \/ Step(j) \/ Fault(j)
    BY <2>2, <2>3, Zenon DEF Next
  <2>5. ProgramStep(j) \/ CommitCreate(j) \/ AwaitSeen(j) \/ Drained(j)
    BY <2>4, Zenon DEF Step, Fault, ProgramStep
  <2>6. ~(CommitCreate(j) \/ AwaitSeen(j) \/ Drained(j))
    BY DEF CommitCreate, AwaitSeen, Drained, Created, NoThread
  <2>7. j = i
    BY <2>1, <2>5, <2>6, ProgramStepWalks DEF Walks
  <2> QED
    BY <2>5, <2>6, <2>7
<1>2. fiber[i].created
  BY <1>1, ProgramStepThread
<1>3. Owning(i)
  BY <1>2 DEF Placed, Owning, Running, Unwinding
<1> QED
  BY <1>3 DEF OneOwner, TurnNotYet

(* With one owner the clean-up of a deletion never stops the session of a  *)
(* later incarnation, and a rollback never deletes a started thread unless *)
(* its own start of the turn answered with an error.                       *)
LEMMA OwnersAreSafe ==
    Spec /\ []OneOwner => LaterSessionsSurvive /\ RollbackSparesTurns
<1>1. Init => TurnNotYet /\ SessionsFenced
  BY DEF Init, IdleFiber, NoThread, NoSession, TurnNotYet, Owning, SessionsFenced
<1>2. Base /\ OneOwner /\ TurnNotYet /\ SessionsFenced /\ [Next]_vars => TurnNotYet' /\ SessionsFenced'
  BY NextTurnNotYet, NextSessionsFenced DEF Base
<1>3. Base /\ SessionsFenced /\ [Next]_vars
        => [(up' /\ provider.session # 0 /\ provider'.session = 0)
              => reactor.processing > provider.session]_vars
  BY SessionEnds DEF Base
<1>4. Base /\ OneOwner /\ TurnNotYet /\ [Next]_vars
        => [\A i \in Attempts :
              (fiber[i].pc = "rollback" /\ fiber'[i].pc # "rollback" /\ thread.live /\ ~thread'.live)
                 => thread.turn = "none" \/ fiber[i].unheard = "turn"]_vars
  BY RollbackEnds DEF Base
<1> QED
  BY <1>1, <1>2, <1>3, <1>4, Based, PTL DEF Spec, LaterSessionsSurvive, RollbackSparesTurns

(* As long as no other client deletes the thread, a clean-up never stops   *)
(* the session of a later incarnation and a rollback never deletes a       *)
(* thread whose turn has started, unless its own start of the turn         *)
(* answered with an error: however many attempts are sent while others     *)
(* run, are cancelled, fail or are cut by a restart, and whatever commits  *)
(* although it is answered with an error.                                  *)
THEOREM ResendsAreSafe ==
    Spec /\ [][~ClientDelete]_vars => LaterSessionsSurvive /\ RollbackSparesTurns
<1>1. Init => Held
  BY DEF Init, IdleFiber, Held, Owning
<1>2. Base /\ Held /\ [Next]_vars /\ [~ClientDelete]_vars => Held'
  <2>1. [Next]_vars /\ [~ClientDelete]_vars => [Next /\ ~ClientDelete]_vars
    OBVIOUS
  <2> QED
    BY <2>1, NextHeld DEF Base
<1>3. Held => OneOwner
  BY DEF Held, OneOwner
<1> QED
  BY <1>1, <1>2, <1>3, Based, OwnersAreSafe, PTL DEF Spec

(* The same holds, however often the thread is deleted, cancelled or cut   *)
(* by a restart, as long as an attempt is sent only when the one before    *)
(* has ended.                                                              *)
THEOREM DeletionsAreSafe ==
    Spec /\ []OneFiber => LaterSessionsSurvive /\ RollbackSparesTurns
<1>1. Init => OneOwner
  BY DEF Init, IdleFiber, OneOwner, Owning
<1>2. Base /\ OneFiber /\ OneOwner /\ [Next]_vars => OneOwner'
  BY NextOneOwner DEF Base
<1> QED
  BY <1>1, <1>2, Based, OwnersAreSafe, PTL DEF Spec
=============================================================================
