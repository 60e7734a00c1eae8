------------------------ MODULE ConnectionSupervisor ------------------------
(***************************************************************************)
(* The client's connection to one environment:                             *)
(* packages/client-runtime/src/connection/supervisor.ts.                   *)
(*                                                                         *)
(* Callers and the network write what is wanted (desired, network) and     *)
(* then offer a signal; one fiber, run, reads what is wanted, rests or     *)
(* makes an attempt, and between its reads consumes the signals, at each   *)
(* of its waiting places by other rules.  An attempt opens a session,      *)
(* publishes it and keeps it until it closes, a health check fails or a    *)
(* signal ends it.                                                         *)
(*                                                                         *)
(* Left out: spans, the text of failures, the length of delays (only the   *)
(* rung of the ladder is kept) and the end of the supervisor's scope.      *)
(* The network status "unknown" is handled like "online".                  *)
(***************************************************************************)
EXTENDS Integers, Sequences

CONSTANTS
    MaxUpsets,   \* bound: calls, wake-ups and changes of the network
    MaxFaults    \* bound: attempts, sessions and health checks that fail

ASSUME BoundsAssumption == MaxUpsets \in Nat /\ MaxFaults \in Nat

VARIABLES
    desired, network,    \* intent
    calls,               \* signals whose effect on intent is made, not yet offered
    signals,             \* the queue
    resetRetry,          \* resetRetryState
    wakeProbeFailed,
    pc,                  \* where run waits
    failures,            \* failureCount: the rung of the retry ladder
    generation,          \* sessions established and ended
    outcome,             \* what runAttempt returned
    session,             \* the published session, named by its generation; 0 for none
    prepared,            \* a prepared connection is published
    shown,               \* the published state: phase and generation
    alive,               \* the server still answers on the session
    past,                \* ghost: what RetriesArePaced and GenerationsAreFresh speak of
    upsets, faults

intent == <<desired, network>>
lease  == <<session, prepared>>
bounds == <<upsets, faults>>
vars   == <<desired, network, calls, signals, resetRetry, wakeProbeFailed, pc, failures,
            generation, outcome, session, prepared, shown, alive, past, upsets, faults>>

-----------------------------------------------------------------------------
(***************************************************************************)
(* Signals.  "active" stands for application-active and for                *)
(* application-active-probe, which differ in the time-out of the probe.    *)
(***************************************************************************)
Activations == {"active", "reconnect"}
Networks    == {"online", "offline"}
Signals     == {"connect", "disconnect", "retry"} \cup Networks \cup Activations

(* The signals that end an attempt, or a session, where it is.             *)
Ends == {"disconnect", "retry", "offline"}

Places   == {"top", "available", "offline", "blocked", "backoff",
             "attempt", "opened", "connected", "probe", "ended"}
Phases   == {"available", "offline", "connecting", "connected", "backoff", "blocked"}
Outcome  == [is : {"none", "interrupted", "transient", "blocked"},
             established : BOOLEAN, stable : BOOLEAN, reset : BOOLEAN]
NoOutcome == [is |-> "none", established |-> FALSE, stable |-> FALSE, reset |-> FALSE]

Interrupted(est, stab, res) ==
    [is |-> "interrupted", established |-> est, stable |-> stab, reset |-> res]
Failed(kind, est, stab) ==
    [is |-> kind, established |-> est, stable |-> stab, reset |-> FALSE]

Show(phase, gen) == shown' = [phase |-> phase, generation |-> gen]

Online == network # "offline"
Wanted == desired /\ Online

(* Signals on their way to run.                                            *)
Pending == calls \cup {signals[i] : i \in 1..Len(signals)}

(***************************************************************************)
(* past.paid: since the last attempt began, run took a signal or slept.    *)
(* past.streak: failures in a row that nobody interrupted.  past.last: the *)
(* last session published.                                                 *)
(***************************************************************************)
Init ==
    /\ desired \in BOOLEAN
    /\ network \in Networks
    /\ calls = {}
    /\ signals = << >>
    /\ resetRetry = FALSE
    /\ wakeProbeFailed = FALSE
    /\ pc = "top"
    /\ failures = 0
    /\ generation = 0
    /\ outcome = NoOutcome
    /\ session = 0
    /\ prepared = FALSE
    /\ shown = [phase |-> IF ~desired THEN "available" ELSE IF Online THEN "connecting" ELSE "offline",
                generation |-> 0]
    /\ alive = FALSE
    /\ past = [paid |-> TRUE, streak |-> 0, last |-> 0]
    /\ upsets = 0
    /\ faults = 0

-----------------------------------------------------------------------------
(***************************************************************************)
(* connect, disconnect and retryNow: the Ref is written, then the signal   *)
(* is offered.  Bound: one call of each kind is between the two at a time. *)
(***************************************************************************)
Call(s) ==
    /\ upsets < MaxUpsets
    /\ s \notin calls
    /\ desired' = CASE s = "connect" -> TRUE [] s = "disconnect" -> FALSE [] OTHER -> desired
    /\ resetRetry' = (resetRetry \/ s = "retry")
    /\ calls' = calls \cup {s}
    /\ upsets' = upsets + 1
    /\ UNCHANGED <<network, signals, wakeProbeFailed, pc, failures, generation, outcome, lease,
                   shown, alive, past, faults>>

(***************************************************************************)
(* The fiber that follows the network: only a change is signalled, and     *)
(* before the next one is looked at.                                       *)
(***************************************************************************)
NetworkChanges ==
    LET n == IF Online THEN "offline" ELSE "online"
    IN  /\ upsets < MaxUpsets
        /\ calls \cap Networks = {}
        /\ network' = n
        /\ calls' = calls \cup {n}
        /\ upsets' = upsets + 1
        /\ UNCHANGED <<desired, signals, resetRetry, wakeProbeFailed, pc, failures, generation,
                       outcome, lease, shown, alive, past, faults>>

Offer(s) ==
    /\ s \in calls
    /\ calls' = calls \ {s}
    /\ signals' = Append(signals, s)
    /\ UNCHANGED <<intent, resetRetry, wakeProbeFailed, pc, failures, generation, outcome, lease,
                   shown, alive, past, bounds>>

Wakeup(reason) ==
    /\ upsets < MaxUpsets
    /\ signals' = Append(signals, reason)
    /\ upsets' = upsets + 1
    /\ UNCHANGED <<intent, calls, resetRetry, wakeProbeFailed, pc, failures, generation, outcome,
                   lease, shown, alive, past, faults>>

(***************************************************************************)
(* A suspended socket: the server is gone and no close event comes.        *)
(***************************************************************************)
SessionDies ==
    /\ session # 0
    /\ alive
    /\ faults < MaxFaults
    /\ alive' = FALSE
    /\ faults' = faults + 1
    /\ UNCHANGED <<intent, calls, signals, resetRetry, wakeProbeFailed, pc, failures, generation,
                   outcome, lease, shown, past, upsets>>

-----------------------------------------------------------------------------
(***************************************************************************)
(* The head of the loop: a requested reset is consumed, then intent read.  *)
(***************************************************************************)
Rung       == IF resetRetry THEN 0 ELSE failures
LoopHead   == pc = "top" /\ resetRetry' = FALSE
StreakHere == IF resetRetry THEN 0 ELSE past.streak

RestAvailable ==
    /\ LoopHead
    /\ ~desired
    /\ pc' = "available"
    /\ failures' = 0
    /\ session' = 0
    /\ prepared' = FALSE
    /\ Show("available", generation)
    /\ past' = [past EXCEPT !.streak = 0]
    /\ UNCHANGED <<intent, calls, signals, wakeProbeFailed, generation, outcome, alive, bounds>>

RestOffline ==
    /\ LoopHead
    /\ desired
    /\ ~Online
    /\ pc' = "offline"
    /\ failures' = Rung
    /\ session' = 0
    /\ prepared' = FALSE
    /\ Show("offline", generation)
    /\ past' = [past EXCEPT !.streak = StreakHere]
    /\ UNCHANGED <<intent, calls, signals, wakeProbeFailed, generation, outcome, alive, bounds>>

BeginAttempt ==
    /\ LoopHead
    /\ Wanted
    /\ pc' = "attempt"
    /\ failures' = Rung
    /\ prepared' = FALSE
    /\ past' = [past EXCEPT !.paid = FALSE, !.streak = StreakHere]
    /\ UNCHANGED <<intent, calls, signals, wakeProbeFailed, generation, outcome, session, shown,
                   alive, bounds>>

(* Queue.take.                                                             *)
Take(s) ==
    /\ signals # << >>
    /\ s = Head(signals)
    /\ signals' = Tail(signals)
    /\ past' = [past EXCEPT !.paid = TRUE, !.streak = 0]

(* Mutant of EndRest: a refused connection waits for an activation only.   *)
BlockedWaitsForActivation(s) ==
    /\ pc \in {"available", "offline", "blocked", "backoff"}
    /\ Take(s)
    /\ pc' = IF pc = "blocked" /\ s \notin Activations THEN pc ELSE "top"
    /\ failures' = IF s \in Activations THEN 0 ELSE failures
    /\ UNCHANGED <<intent, calls, resetRetry, wakeProbeFailed, generation, outcome, lease, shown,
                   alive, bounds>>

(***************************************************************************)
(* waitForSignal and waitForRetrySignal: any signal ends the rest, an      *)
(* activation also resets the ladder (at "available" it is reset already). *)
(***************************************************************************)
EndRest(s) ==
    /\ pc \in {"available", "offline", "blocked", "backoff"}
    /\ Take(s)
    /\ pc' = "top"
    /\ failures' = IF s \in Activations THEN 0 ELSE failures
    /\ UNCHANGED <<intent, calls, resetRetry, wakeProbeFailed, generation, outcome, lease, shown,
                   alive, bounds>>

DelayElapses ==
    /\ pc = "backoff"
    /\ pc' = "top"
    /\ past' = [past EXCEPT !.paid = TRUE]
    /\ UNCHANGED <<intent, calls, signals, resetRetry, wakeProbeFailed, failures, generation,
                   outcome, lease, shown, alive, bounds>>

-----------------------------------------------------------------------------
(***************************************************************************)
(* runAttempt.  However it ends, clearLease has run when it returns.       *)
(***************************************************************************)
Return(o) ==
    /\ pc' = "ended"
    /\ outcome' = o
    /\ session' = 0
    /\ prepared' = FALSE
    /\ alive' = FALSE

(* The driver's progress: from the stage "opening" with what it prepared.  *)
ReportProgress ==
    /\ pc = "attempt"
    /\ ~prepared
    /\ Show("connecting", generation + 1)
    /\ prepared' \in BOOLEAN
    /\ UNCHANGED <<intent, calls, signals, resetRetry, wakeProbeFailed, pc, failures, generation,
                   outcome, session, alive, past, bounds>>

Establishes ==
    /\ pc = "attempt"
    /\ prepared
    /\ pc' = "opened"
    /\ alive' = TRUE
    /\ UNCHANGED <<intent, calls, signals, resetRetry, wakeProbeFailed, failures, generation,
                   outcome, lease, shown, past, bounds>>

(* An error of the driver, a defect (transient), or the time-out.          *)
AttemptFails(kind) ==
    /\ pc = "attempt"
    /\ faults < MaxFaults
    /\ faults' = faults + 1
    /\ Return(Failed(kind, FALSE, FALSE))
    /\ UNCHANGED <<intent, calls, signals, resetRetry, wakeProbeFailed, failures, generation,
                   shown, past, upsets>>

(* waitForEstablishmentInterrupt; other signals are dropped.               *)
SignalWhileOpening(s) ==
    /\ pc = "attempt"
    /\ Take(s)
    /\ \/ s \in Ends /\ Return(Interrupted(FALSE, FALSE, FALSE))
       \/ s = "reconnect" /\ Return(Interrupted(FALSE, FALSE, TRUE))
       \/ s \notin Ends \cup {"reconnect"} /\ UNCHANGED <<pc, outcome, lease, alive>>
    /\ UNCHANGED <<intent, calls, resetRetry, wakeProbeFailed, failures, generation, shown, bounds>>

(***************************************************************************)
(* The session is open: intent is read again before it is published.       *)
(***************************************************************************)
Publish ==
    /\ pc = "opened"
    /\ Wanted
    /\ pc' = "connected"
    /\ session' = generation + 1
    /\ prepared' = TRUE
    /\ Show("connected", generation + 1)
    /\ past' = [past EXCEPT !.last = generation + 1]
    /\ UNCHANGED <<intent, calls, signals, resetRetry, wakeProbeFailed, failures, generation,
                   outcome, alive, bounds>>

Withdraw ==
    /\ pc = "opened"
    /\ ~Wanted
    /\ Return(Interrupted(FALSE, FALSE, FALSE))
    /\ UNCHANGED <<intent, calls, signals, resetRetry, wakeProbeFailed, failures, generation,
                   shown, past, bounds>>

(***************************************************************************)
(* session.closed wins the race, after less or more than                   *)
(* BACKOFF_RESET_AFTER_MS.  The end of the config subscription may be an   *)
(* authorization error, which blocks.                                      *)
(***************************************************************************)
SessionCloses(kind, stable) ==
    /\ pc \in {"connected", "probe"}
    /\ faults < MaxFaults
    /\ faults' = faults + 1
    /\ Return(Failed(kind, TRUE, stable))
    /\ UNCHANGED <<intent, calls, signals, resetRetry, wakeProbeFailed, failures, generation,
                   shown, past, upsets>>

(* Mutant of SignalWhileConnected: a foreground activation is not probed.  *)
ConnectedIgnoresActivation(s, stable) ==
    /\ pc = "connected"
    /\ Take(s)
    /\ \/ s \in Ends /\ Return(Interrupted(TRUE, stable, FALSE))
       \/ s = "reconnect" /\ Return(Interrupted(TRUE, stable, TRUE))
       \/ s \notin Ends \cup {"reconnect"} /\ UNCHANGED <<pc, outcome, lease, alive>>
    /\ UNCHANGED <<intent, calls, resetRetry, wakeProbeFailed, failures, generation, shown, bounds>>

(* monitorConnectedLease: an activation starts a health check.             *)
SignalWhileConnected(s, stable) ==
    /\ pc = "connected"
    /\ Take(s)
    /\ \/ s \in Ends /\ Return(Interrupted(TRUE, stable, FALSE))
       \/ s = "reconnect" /\ Return(Interrupted(TRUE, stable, TRUE))
       \/ s = "active" /\ pc' = "probe" /\ UNCHANGED <<outcome, lease, alive>>
       \/ s \in {"connect", "online"} /\ UNCHANGED <<pc, outcome, lease, alive>>
    /\ UNCHANGED <<intent, calls, resetRetry, wakeProbeFailed, failures, generation, shown, bounds>>

(* Mutant of SignalWhileProbing: an explicit disconnect is dropped.        *)
ProbingIgnoresDisconnect(s, stable) ==
    /\ pc = "probe"
    /\ Take(s)
    /\ \/ s \in Ends \ {"disconnect"} /\ Return(Interrupted(TRUE, stable, FALSE))
       \/ s = "reconnect" /\ Return(Interrupted(TRUE, stable, TRUE))
       \/ s \in {"active", "connect", "online", "disconnect"}
          /\ UNCHANGED <<pc, outcome, lease, alive>>
    /\ UNCHANGED <<intent, calls, resetRetry, wakeProbeFailed, failures, generation, shown, bounds>>

(* The inner loop, while the health check is out.                          *)
SignalWhileProbing(s, stable) ==
    /\ pc = "probe"
    /\ Take(s)
    /\ \/ s \in Ends /\ Return(Interrupted(TRUE, stable, FALSE))
       \/ s = "reconnect" /\ Return(Interrupted(TRUE, stable, TRUE))
       \/ s \in {"active", "connect", "online"} /\ UNCHANGED <<pc, outcome, lease, alive>>
    /\ UNCHANGED <<intent, calls, resetRetry, wakeProbeFailed, failures, generation, shown, bounds>>

ProbeAnswers ==
    /\ pc = "probe"
    /\ alive
    /\ pc' = "connected"
    /\ UNCHANGED <<intent, calls, signals, resetRetry, wakeProbeFailed, failures, generation,
                   outcome, lease, shown, alive, past, bounds>>

ProbeFailed(kind, stable) ==
    /\ wakeProbeFailed' = TRUE
    /\ Return(Failed(kind, TRUE, stable))
    /\ UNCHANGED <<intent, calls, signals, resetRetry, failures, generation, shown, past, upsets>>

(* The server answers with an error, or not in time.                       *)
ProbeErrs(kind, stable) ==
    /\ pc = "probe"
    /\ alive
    /\ faults < MaxFaults
    /\ faults' = faults + 1
    /\ ProbeFailed(kind, stable)

(* On a dead session the probe is never answered.                          *)
ProbeTimesOut(stable) ==
    /\ pc = "probe"
    /\ ~alive
    /\ faults' = faults
    /\ ProbeFailed("transient", stable)

-----------------------------------------------------------------------------
(***************************************************************************)
(* What run makes of the outcome.  The marker of a failed probe is         *)
(* consumed whatever the outcome is, an established session uses up its    *)
(* generation, a stable one resets the ladder.                             *)
(***************************************************************************)
(* Mutants of Counted: only a stable session uses up its generation; the   *)
(* marker is consumed only by the failures that look at it.                *)
CountedIfStable ==
    /\ wakeProbeFailed' = FALSE
    /\ generation' = IF outcome.stable THEN generation + 1 ELSE generation
    /\ outcome' = NoOutcome

MarkerOutlivesRefusal ==
    /\ wakeProbeFailed' = (wakeProbeFailed /\ outcome.is # "transient")
    /\ generation' = IF outcome.established THEN generation + 1 ELSE generation
    /\ outcome' = NoOutcome

Counted ==
    /\ wakeProbeFailed' = FALSE
    /\ generation' = IF outcome.established THEN generation + 1 ELSE generation
    /\ outcome' = NoOutcome

Ladder == IF outcome.stable THEN 0 ELSE failures

(* The ghost's view of a failure that leads to another attempt.            *)
FailureSeen ==
    past' = [past EXCEPT !.streak = IF past.paid THEN 0
                                    ELSE IF outcome.stable THEN 1 ELSE past.streak + 1]

AfterInterrupt ==
    /\ pc = "ended"
    /\ outcome.is = "interrupted"
    /\ pc' = "top"
    /\ failures' = IF outcome.reset THEN 0 ELSE Ladder
    /\ Counted
    /\ UNCHANGED <<intent, calls, signals, resetRetry, lease, shown, alive, past, bounds>>

AfterBlocked ==
    /\ pc = "ended"
    /\ outcome.is = "blocked"
    /\ pc' = "blocked"
    /\ failures' = Ladder
    /\ Counted
    /\ Show("blocked", generation')
    /\ UNCHANGED <<intent, calls, signals, resetRetry, lease, alive, past, bounds>>

(* The user is back on a dead transport: no delay before the next attempt. *)
AfterFailedProbe ==
    /\ pc = "ended"
    /\ outcome.is = "transient"
    /\ wakeProbeFailed
    /\ pc' = "top"
    /\ failures' = 0
    /\ Counted
    /\ Show("connecting", generation')
    /\ FailureSeen
    /\ UNCHANGED <<intent, calls, signals, resetRetry, lease, alive, bounds>>

AfterFailure ==
    /\ pc = "ended"
    /\ outcome.is = "transient"
    /\ ~wakeProbeFailed
    /\ pc' = "backoff"
    /\ failures' = Ladder + 1
    /\ Counted
    /\ Show("backoff", generation')
    /\ FailureSeen
    /\ UNCHANGED <<intent, calls, signals, resetRetry, lease, alive, bounds>>

-----------------------------------------------------------------------------
(* Steps of run and of its children that need nobody's bad luck.           *)
Run ==
    \/ RestAvailable \/ RestOffline \/ BeginAttempt
    \/ DelayElapses
    \/ ReportProgress \/ Establishes
    \/ Publish \/ Withdraw
    \/ ProbeAnswers
    \/ \E s \in Signals : EndRest(s) \/ SignalWhileOpening(s)
    \/ \E s \in Signals, stable \in BOOLEAN :
          SignalWhileConnected(s, stable) \/ SignalWhileProbing(s, stable)
    \/ \E stable \in BOOLEAN : ProbeTimesOut(stable)
    \/ AfterInterrupt \/ AfterBlocked \/ AfterFailedProbe \/ AfterFailure

Faults ==
    \/ SessionDies
    \/ \E kind \in {"transient", "blocked"} : AttemptFails(kind)
    \/ \E kind \in {"transient", "blocked"}, stable \in BOOLEAN :
          SessionCloses(kind, stable) \/ ProbeErrs(kind, stable)

Next ==
    \/ \E s \in {"connect", "disconnect", "retry"} : Call(s)
    \/ NetworkChanges
    \/ \E s \in Signals : Offer(s)
    \/ \E reason \in Activations : Wakeup(reason)
    \/ Run
    \/ Faults

Spec == Init /\ [][Next]_vars

(***************************************************************************)
(* A caller that wrote the intent offers its signal; the fiber is          *)
(* scheduled; delays elapse; the establishment time-out and the probe's    *)
(* bound every wait for the server, which is well once MaxFaults are used. *)
(***************************************************************************)
Fairness == WF_vars(Run) /\ \A s \in Signals : WF_vars(Offer(s))

FairSpec == Spec /\ Fairness

-----------------------------------------------------------------------------
TypeOK ==
    /\ desired \in BOOLEAN
    /\ network \in Networks
    /\ calls \subseteq Signals
    /\ signals \in Seq(Signals)
    /\ resetRetry \in BOOLEAN
    /\ wakeProbeFailed \in BOOLEAN
    /\ pc \in Places
    /\ failures \in Nat
    /\ generation \in Nat
    /\ outcome \in Outcome
    /\ session \in Nat
    /\ prepared \in BOOLEAN
    /\ shown \in [phase : Phases, generation : Nat]
    /\ alive \in BOOLEAN
    /\ past \in [paid : BOOLEAN, streak : Nat, last : Nat]
    /\ upsets \in Nat
    /\ faults \in Nat

(***************************************************************************)
(* No signal is lost on a change of intent.  run acts on intent as it was  *)
(* when it read it; wherever it waits, and intent has changed since, a     *)
(* signal is on its way that the waiter of that place acts on, although    *)
(* every waiter drops some signals, several callers write intent, and the  *)
(* write and the offer are two steps.                                      *)
(***************************************************************************)
IntentIsHeard ==
    /\ pc = "available" => ~desired \/ Pending # {}
    /\ pc = "offline" => (desired /\ ~Online) \/ Pending # {}
    /\ pc \in {"attempt", "opened", "connected", "probe", "backoff", "blocked"} =>
          Wanted \/ Pending \cap Ends # {}

(***************************************************************************)
(* The server is not hammered.  An attempt follows another one only after  *)
(* a delay, or because somebody asked for it, a signal that run took since *)
(* or that is on its way; and the n-th failure in a row that nobody        *)
(* interrupted sleeps on the n-th rung of the ladder or above, flapping    *)
(* sessions and attempts after a failed health check included.             *)
(***************************************************************************)
RetriesArePaced ==
    [][/\ pc # "attempt" /\ pc' = "attempt" => past.paid \/ Pending # {}
       /\ pc # "backoff" /\ pc' = "backoff" => failures' >= past'.streak]_vars

(***************************************************************************)
(* No two sessions are published under one generation, however the first   *)
(* one ended: subscribers of the state that never saw the phase between    *)
(* two sessions tell by the generation that they must read again.          *)
(***************************************************************************)
GenerationsAreFresh ==
    [][session' # session /\ session' # 0 => session' > past.last]_vars

(***************************************************************************)
(* Once calls, network and faults rest, the client is where the intent     *)
(* says: closed and shown as available, waiting for the network, or        *)
(* connected, unless the server refused it for a reason that time does not *)
(* change.                                                                 *)
(***************************************************************************)
Settled ==
    IF ~Wanted
    THEN session = 0 /\ ~prepared /\ shown.phase = IF desired THEN "offline" ELSE "available"
    ELSE shown.phase = "blocked" \/ (session # 0 /\ shown.phase = "connected")

FollowsIntent == <>[]Settled

(***************************************************************************)
(* A user who comes back to a session that died without a close event is   *)
(* not left on it: the activation leads to another session, or to none.    *)
(***************************************************************************)
DeadSessionReplaced ==
    (session # 0 /\ ~alive /\ \E i \in 1..Len(signals) : signals[i] \in Activations)
        ~> (session = 0 \/ alive)

=============================================================================
