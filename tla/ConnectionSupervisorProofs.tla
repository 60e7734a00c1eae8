--------------------- MODULE ConnectionSupervisorProofs ---------------------
(***************************************************************************)
(* No change of intent is lost on the supervisor, attempts are paced, and  *)
(* generations are fresh, for every bound.                                 *)
(***************************************************************************)
EXTENDS ConnectionSupervisor, TLAPS

(***************************************************************************)
(* What makes the pace inductive: an attempt without delay has its excuse  *)
(* in past.paid or on its way, the marker of a failed probe does not       *)
(* outlive its attempt, and only an attempt in which a signal was taken,   *)
(* or one on a stable session, returns with a reason to reset the ladder.  *)
(***************************************************************************)
Paced ==
    /\ pc # "blocked" => failures >= past.streak
    /\ wakeProbeFailed => pc = "ended" /\ past.paid
    /\ pc = "probe" => past.paid
    /\ pc = "top" => past.paid \/ Pending # {}
    /\ pc = "ended" /\ outcome.is = "interrupted" =>
          /\ past.paid \/ Pending # {}
          /\ outcome.reset \/ outcome.stable => past.paid
    /\ pc \in {"attempt", "opened", "connected", "probe", "ended"} /\ past.paid => past.streak = 0

(***************************************************************************)
(* The last published generation is used up when its session has ended and *)
(* run has counted it.                                                     *)
(***************************************************************************)
Fresh ==
    /\ pc \in {"connected", "probe"} => past.last = generation + 1
    /\ pc = "ended" => past.last <= generation + (IF outcome.established THEN 1 ELSE 0)
    /\ pc \notin {"connected", "probe", "ended"} => past.last <= generation

(***************************************************************************)
(* An attempt that fails takes with it no change of intent either: the     *)
(* signal it did not take is there for the delay that follows.             *)
(***************************************************************************)
FailureHeard ==
    pc = "ended" /\ outcome.is # "interrupted" => Wanted \/ Pending \cap Ends # {}

IInv == TypeOK /\ IntentIsHeard /\ FailureHeard /\ Paced /\ Fresh

-----------------------------------------------------------------------------
(* Taking a signal loses that signal only.                                 *)
LEMMA TakeLosesOne ==
    ASSUME TypeOK, NEW s, Take(s), calls' = calls
    PROVE  /\ s \in Signals
           /\ signals' \in Seq(Signals)
           /\ past' = [past EXCEPT !.paid = TRUE, !.streak = 0]
           /\ \A x \in Pending : x # s => x \in Pending'
<1>1. /\ signals \in Seq(Signals) /\ signals # << >> /\ s = Head(signals) /\ signals' = Tail(signals)
      /\ past' = [past EXCEPT !.paid = TRUE, !.streak = 0]
  BY DEF TypeOK, Take
<1>2. /\ Len(signals) \in Nat \ {0} /\ signals' \in Seq(Signals) /\ Len(signals') = Len(signals) - 1
      /\ \A i \in 1..Len(signals') : signals'[i] = signals[i + 1]
      /\ s \in Signals /\ s = signals[1]
  BY <1>1
<1>3. ASSUME NEW x \in Pending, x # s
      PROVE  x \in Pending'
  <2>1. CASE x \in calls
    BY <2>1 DEF Pending
  <2>2. CASE x \notin calls
    <3>1. PICK i \in 1..Len(signals) : x = signals[i]
      BY <2>2 DEF Pending
    <3>2. i - 1 \in 1..Len(signals') /\ x = signals'[i - 1]
      BY <1>2, <1>3, <3>1
    <3> QED
      BY <3>2 DEF Pending
  <2> QED
    BY <2>1, <2>2
<1> QED
  BY <1>1, <1>2, <1>3

(* Offering a signal, or a wake-up, loses none.                            *)
LEMMA AppendLosesNone ==
    ASSUME TypeOK, NEW s \in Signals, signals' = Append(signals, s), calls \subseteq calls' \cup {s}
    PROVE  /\ signals' \in Seq(Signals)
           /\ \A x \in Pending : x \in Pending'
           /\ s \in Pending'
<1>1. /\ signals \in Seq(Signals) /\ Len(signals) \in Nat
      /\ signals' \in Seq(Signals) /\ Len(signals') = Len(signals) + 1
      /\ \A i \in 1..Len(signals) : signals'[i] = signals[i]
      /\ signals'[Len(signals) + 1] = s
  BY DEF TypeOK
<1>2. s \in Pending'
  <2>1. Len(signals) + 1 \in 1..Len(signals')
    BY <1>1
  <2> QED
    BY <1>1, <2>1 DEF Pending
<1>3. ASSUME NEW x \in Pending
      PROVE  x \in Pending'
  <2>1. CASE x \in calls
    BY <1>2, <2>1 DEF Pending
  <2>2. CASE x \notin calls
    <3>1. PICK i \in 1..Len(signals) : x = signals[i]
      BY <2>2 DEF Pending
    <3>2. i \in 1..Len(signals') /\ x = signals'[i]
      BY <1>1, <3>1
    <3> QED
      BY <3>2 DEF Pending
  <2> QED
    BY <2>1, <2>2
<1> QED
  BY <1>1, <1>2, <1>3

(* The records that are built.                                             *)
LEMMA Outcomes ==
    /\ NoOutcome \in Outcome /\ NoOutcome.is = "none"
    /\ \A est, stab, res \in BOOLEAN :
          /\ Interrupted(est, stab, res) \in Outcome
          /\ Interrupted(est, stab, res).is = "interrupted"
          /\ Interrupted(est, stab, res).established = est
          /\ Interrupted(est, stab, res).stable = stab
          /\ Interrupted(est, stab, res).reset = res
    /\ \A kind \in {"transient", "blocked"}, est, stab \in BOOLEAN :
          /\ Failed(kind, est, stab) \in Outcome
          /\ Failed(kind, est, stab).is = kind
          /\ Failed(kind, est, stab).established = est
          /\ Failed(kind, est, stab).stable = stab
          /\ Failed(kind, est, stab).reset = FALSE
  BY DEF NoOutcome, Interrupted, Failed, Outcome

LEMMA Pasts ==
    ASSUME TypeOK
    PROVE  /\ past \in [paid : BOOLEAN, streak : Nat, last : Nat]
           /\ past.paid \in BOOLEAN /\ past.streak \in Nat /\ past.last \in Nat
           /\ generation \in Nat /\ failures \in Nat
<1>1. past \in [paid : BOOLEAN, streak : Nat, last : Nat] /\ generation \in Nat /\ failures \in Nat
  BY DEF TypeOK
<1> QED
  BY <1>1

-----------------------------------------------------------------------------
LEMMA InitIInv == Init => IInv
<1> SUFFICES ASSUME Init PROVE IInv
  OBVIOUS
<1>1. shown \in [phase : Phases, generation : Nat]
  BY DEF Init, Phases
<1>2. past \in [paid : BOOLEAN, streak : Nat, last : Nat]
  BY DEF Init
<1>3. TypeOK
  <2>1. /\ resetRetry \in BOOLEAN /\ wakeProbeFailed \in BOOLEAN /\ prepared \in BOOLEAN
        /\ alive \in BOOLEAN /\ desired \in BOOLEAN /\ outcome \in Outcome
    BY Outcomes, Zenon DEF Init
  <2>2. /\ network \in Networks /\ calls \subseteq Signals /\ signals \in Seq(Signals) /\ pc \in Places
        /\ failures \in Nat /\ generation \in Nat /\ session \in Nat /\ upsets \in Nat /\ faults \in Nat
    BY DEF Init, Places
  <2> QED
    BY <1>1, <1>2, <2>1, <2>2, Zenon DEF TypeOK
<1> QED
  BY <1>3 DEF Init, IInv, IntentIsHeard, FailureHeard, Paced, Fresh

(***************************************************************************)
(* What others do to the supervisor: write intent, offer, wake, kill a     *)
(* session.  Whatever they change about intent, they signal.               *)
(***************************************************************************)
Outside ==
    \/ \E s \in {"connect", "disconnect", "retry"} : Call(s)
    \/ NetworkChanges
    \/ \E s \in Signals : Offer(s)
    \/ \E reason \in Activations : Wakeup(reason)
    \/ SessionDies

Announced ==
    /\ UNCHANGED <<wakeProbeFailed, pc, failures, generation, outcome, session, prepared, shown, past>>
    /\ signals' \in Seq(Signals) /\ calls' \subseteq Signals
    /\ desired' \in BOOLEAN /\ network' \in Networks /\ resetRetry' \in BOOLEAN /\ alive' \in BOOLEAN
    /\ upsets' \in Nat /\ faults' \in Nat
    /\ \A x \in Pending : x \in Pending'
    /\ Wanted => Wanted' \/ Pending' \cap Ends # {}
    /\ ~desired => ~desired' \/ Pending' # {}
    /\ desired /\ ~Online => (desired' /\ ~Online') \/ Pending' # {}

LEMMA OutsideIsAnnounced ==
    ASSUME TypeOK, Outside
    PROVE  Announced
<1>1. ASSUME NEW s \in {"connect", "disconnect", "retry"}, Call(s)
      PROVE  Announced
  <2>1. s \in Pending' /\ (\A x \in Pending : x \in Pending')
    BY <1>1 DEF Call, Pending
  <2>2. ~desired => ~desired' \/ Pending' # {}
    BY <2>1
  <2>3. Wanted => Wanted' \/ Pending' \cap Ends # {}
    BY <1>1, <2>1 DEF Call, Wanted, Online, Ends
  <2>4. desired /\ ~Online => (desired' /\ ~Online') \/ Pending' # {}
    BY <2>1
  <2>5. /\ desired' \in BOOLEAN /\ calls' \subseteq Signals /\ resetRetry' \in BOOLEAN
        /\ upsets' \in Nat
    <3>1. desired' \in BOOLEAN
      BY <1>1 DEF Call, TypeOK
    <3>2. resetRetry' \in BOOLEAN
      BY <1>1, Zenon DEF Call, TypeOK
    <3>3. calls' \subseteq Signals /\ upsets' \in Nat
      BY <1>1 DEF Call, TypeOK, Signals
    <3> QED
      BY <3>1, <3>2, <3>3
  <2>6. /\ UNCHANGED <<wakeProbeFailed, pc, failures, generation, outcome, session, prepared, shown, past>>
        /\ UNCHANGED <<signals, network, alive, faults>>
    BY <1>1 DEF Call, lease
  <2> QED
    BY <2>1, <2>2, <2>3, <2>4, <2>5, <2>6 DEF Announced, TypeOK
<1>2. CASE NetworkChanges
  <2>1. /\ \A x \in Pending : x \in Pending'
        /\ network' \in Pending' /\ network' \in Networks /\ desired' = desired
        /\ network = "online" => network' = "offline"
    BY <1>2 DEF NetworkChanges, Pending, Networks, TypeOK, Online
  <2>2. Wanted => Pending' \cap Ends # {}
    BY <2>1 DEF Wanted, Online, Ends, TypeOK, Networks
  <2>3. calls' \subseteq Signals
    BY <1>2, <2>1 DEF NetworkChanges, TypeOK, Signals, Networks
  <2> QED
    BY <1>2, <2>1, <2>2, <2>3 DEF NetworkChanges, Announced, TypeOK, lease
<1>3. ASSUME NEW s \in Signals, Offer(s)
      PROVE  Announced
  <2>1. signals' \in Seq(Signals) /\ (\A x \in Pending : x \in Pending')
    BY <1>3, AppendLosesNone DEF Offer
  <2> QED
    BY <1>3, <2>1 DEF Offer, Announced, TypeOK, lease, intent, bounds, Wanted, Online
<1>4. ASSUME NEW r \in Activations, Wakeup(r)
      PROVE  Announced
  <2>1. r \in Signals
    BY DEF Signals, Activations
  <2>2. signals' \in Seq(Signals) /\ (\A x \in Pending : x \in Pending')
    BY <1>4, <2>1, AppendLosesNone DEF Wakeup
  <2> QED
    BY <1>4, <2>2 DEF Wakeup, Announced, TypeOK, lease, intent, bounds, Wanted, Online
<1>5. CASE SessionDies
  <2>1. /\ UNCHANGED <<wakeProbeFailed, pc, failures, generation, outcome, session, prepared, shown, past>>
        /\ UNCHANGED <<signals, calls, network, desired, resetRetry, upsets>>
        /\ alive' \in BOOLEAN /\ faults' = faults + 1
    BY <1>5, Zenon DEF SessionDies, TypeOK, lease, intent
  <2>2. Pending' = Pending /\ Wanted' = Wanted /\ Online' = Online
    BY <2>1 DEF Pending, Wanted, Online
  <2> QED
    <3>1. faults' \in Nat
      BY <2>1 DEF TypeOK
    <3> QED
      BY <2>1, <2>2, <3>1, Zenon DEF Announced, TypeOK, Wanted
<1> QED
  BY <1>1, <1>2, <1>3, <1>4, <1>5 DEF Outside

LEMMA OutsideStep ==
    ASSUME IInv, Outside
    PROVE  IInv'
<1>1. Announced
  BY OutsideIsAnnounced DEF IInv
<1>2. TypeOK'
  BY <1>1 DEF IInv, TypeOK, Announced
<1>3. (Pending # {} => Pending' # {}) /\ (Pending \cap Ends # {} => Pending' \cap Ends # {})
  BY <1>1 DEF Announced
<1>4. IntentIsHeard'
  BY <1>1, <1>3 DEF IInv, IntentIsHeard, Announced
<1>5. FailureHeard'
  BY <1>1, <1>3 DEF IInv, FailureHeard, Announced
<1>6. Paced'
  BY <1>1, <1>3 DEF IInv, Paced, Announced
<1>7. Fresh'
  BY <1>1 DEF IInv, Fresh, Announced
<1> QED
  BY <1>2, <1>4, <1>5, <1>6, <1>7 DEF IInv

-----------------------------------------------------------------------------
(* The places at which run takes signals.                                  *)
Taking ==
    \/ \E s \in Signals : EndRest(s) \/ SignalWhileOpening(s)
    \/ \E s \in Signals, stable \in BOOLEAN :
          SignalWhileConnected(s, stable) \/ SignalWhileProbing(s, stable)

(***************************************************************************)
(* What a waiter does with a signal: it leaves for the head of the loop,   *)
(* returns an interruption, or stays and has dropped none of Ends.         *)
(***************************************************************************)
Leaves ==
    /\ pc \in {"available", "offline", "blocked", "backoff"}
    /\ pc' = "top"
    /\ outcome' = outcome
    /\ failures' \in {0, failures}
Returns ==
    /\ pc \in {"attempt", "connected", "probe"}
    /\ pc' = "ended"
    /\ outcome' \in Outcome /\ outcome'.is = "interrupted"
    /\ outcome'.established = IF pc = "attempt" THEN FALSE ELSE TRUE
    /\ failures' = failures
Stays(s) ==
    /\ pc \in {"attempt", "connected", "probe"}
    /\ pc' = pc \/ (pc = "connected" /\ pc' = "probe")
    /\ s \notin Ends
    /\ outcome' = outcome
    /\ failures' = failures

Heeds(s) ==
    /\ UNCHANGED <<desired, network, calls, resetRetry, wakeProbeFailed, generation, upsets, faults, shown>>
    /\ session' \in Nat /\ prepared' \in BOOLEAN /\ alive' \in BOOLEAN
    /\ \/ Leaves
       \/ Returns
       \/ Stays(s)

LEMMA TakersHeed ==
    ASSUME TypeOK, Taking
    PROVE  \E s \in Signals : Take(s) /\ Heeds(s)
<1> USE DEF TypeOK, intent, lease, bounds
<1>1. ASSUME NEW s \in Signals, EndRest(s)
      PROVE  Take(s) /\ Heeds(s)
  BY <1>1 DEF EndRest, Heeds, Leaves
<1>2. ASSUME NEW s \in Signals, SignalWhileOpening(s)
      PROVE  Take(s) /\ Heeds(s)
  <2>1. CASE s \notin Ends \cup {"reconnect"}
    BY <1>2, <2>1 DEF SignalWhileOpening, Heeds, Stays, Ends
  <2>2. CASE s \in Ends \cup {"reconnect"}
    <3>1. /\ Take(s)
          /\ \E res \in BOOLEAN : Return(Interrupted(FALSE, FALSE, res))
      BY <1>2, <2>2 DEF SignalWhileOpening, Ends
    <3>2. Returns
      <4>1. PICK res \in BOOLEAN : Return(Interrupted(FALSE, FALSE, res))
        BY <3>1
      <4>2. /\ pc' = "ended" /\ failures' = failures
            /\ outcome' = Interrupted(FALSE, FALSE, res)
        BY <1>2, <4>1, Zenon DEF SignalWhileOpening, Return
      <4>3. outcome' \in Outcome /\ outcome'.is = "interrupted" /\ outcome'.established = FALSE
        <5>1. Interrupted(FALSE, FALSE, res) \in Outcome /\ Interrupted(FALSE, FALSE, res).is = "interrupted" /\ Interrupted(FALSE, FALSE, res).established = FALSE
          BY DEF Interrupted, Outcome
        <5> QED
          BY <4>2, <5>1
      <4>4. pc = "attempt"
        BY <1>2 DEF SignalWhileOpening
      <4> QED
        BY <4>2, <4>3, <4>4 DEF Returns
    <3>3. session' = 0 /\ prepared' = FALSE /\ alive' = FALSE
      BY <3>1, Zenon DEF Return
    <3>4. UNCHANGED <<desired, network, calls, resetRetry, wakeProbeFailed, generation, upsets, faults, shown>>
      BY <1>2, Zenon DEF SignalWhileOpening
    <3> QED
      BY <3>1, <3>2, <3>3, <3>4 DEF Heeds
  <2> QED
    BY <2>1, <2>2
<1>3. ASSUME NEW s \in Signals, NEW stable \in BOOLEAN, SignalWhileConnected(s, stable)
      PROVE  Take(s) /\ Heeds(s)
  <2>1. CASE s \notin Ends \cup {"reconnect"}
    BY <1>3, <2>1 DEF SignalWhileConnected, Heeds, Stays, Ends
  <2>2. CASE s \in Ends \cup {"reconnect"}
    <3>1. /\ Take(s)
          /\ \E res \in BOOLEAN : Return(Interrupted(TRUE, stable, res))
      BY <1>3, <2>2 DEF SignalWhileConnected, Ends
    <3>2. Returns
      <4>1. PICK res \in BOOLEAN : Return(Interrupted(TRUE, stable, res))
        BY <3>1
      <4>2. /\ pc' = "ended" /\ failures' = failures
            /\ outcome' = Interrupted(TRUE, stable, res)
        BY <1>3, <4>1, Zenon DEF SignalWhileConnected, Return
      <4>3. outcome' \in Outcome /\ outcome'.is = "interrupted" /\ outcome'.established = TRUE
        <5>1. Interrupted(TRUE, stable, res) \in Outcome /\ Interrupted(TRUE, stable, res).is = "interrupted" /\ Interrupted(TRUE, stable, res).established = TRUE
          BY DEF Interrupted, Outcome
        <5> QED
          BY <4>2, <5>1
      <4>4. pc = "connected"
        BY <1>3 DEF SignalWhileConnected
      <4> QED
        BY <4>2, <4>3, <4>4 DEF Returns
    <3>3. session' = 0 /\ prepared' = FALSE /\ alive' = FALSE
      BY <3>1, Zenon DEF Return
    <3>4. UNCHANGED <<desired, network, calls, resetRetry, wakeProbeFailed, generation, upsets, faults, shown>>
      BY <1>3, Zenon DEF SignalWhileConnected
    <3> QED
      BY <3>1, <3>2, <3>3, <3>4 DEF Heeds
  <2> QED
    BY <2>1, <2>2
<1>4. ASSUME NEW s \in Signals, NEW stable \in BOOLEAN, SignalWhileProbing(s, stable)
      PROVE  Take(s) /\ Heeds(s)
  <2>1. CASE s \notin Ends \cup {"reconnect"}
    BY <1>4, <2>1 DEF SignalWhileProbing, Heeds, Stays, Ends
  <2>2. CASE s \in Ends \cup {"reconnect"}
    <3>1. /\ Take(s)
          /\ \E res \in BOOLEAN : Return(Interrupted(TRUE, stable, res))
      BY <1>4, <2>2 DEF SignalWhileProbing, Ends
    <3>2. Returns
      <4>1. PICK res \in BOOLEAN : Return(Interrupted(TRUE, stable, res))
        BY <3>1
      <4>2. /\ pc' = "ended" /\ failures' = failures
            /\ outcome' = Interrupted(TRUE, stable, res)
        BY <1>4, <4>1, Zenon DEF SignalWhileProbing, Return
      <4>3. outcome' \in Outcome /\ outcome'.is = "interrupted" /\ outcome'.established = TRUE
        <5>1. Interrupted(TRUE, stable, res) \in Outcome /\ Interrupted(TRUE, stable, res).is = "interrupted" /\ Interrupted(TRUE, stable, res).established = TRUE
          BY DEF Interrupted, Outcome
        <5> QED
          BY <4>2, <5>1
      <4>4. pc = "probe"
        BY <1>4 DEF SignalWhileProbing
      <4> QED
        BY <4>2, <4>3, <4>4 DEF Returns
    <3>3. session' = 0 /\ prepared' = FALSE /\ alive' = FALSE
      BY <3>1, Zenon DEF Return
    <3>4. UNCHANGED <<desired, network, calls, resetRetry, wakeProbeFailed, generation, upsets, faults, shown>>
      BY <1>4, Zenon DEF SignalWhileProbing
    <3> QED
      BY <3>1, <3>2, <3>3, <3>4 DEF Heeds
  <2> QED
    BY <2>1, <2>2
<1> QED
  BY <1>1, <1>2, <1>3, <1>4 DEF Taking

LEMMA TakingStep ==
    ASSUME IInv, Taking
    PROVE  IInv'
<1>1. PICK s \in Signals : Take(s) /\ Heeds(s)
  BY TakersHeed DEF IInv
<1>2. /\ signals' \in Seq(Signals)
      /\ \A x \in Pending : x # s => x \in Pending'
  BY <1>1, TakeLosesOne DEF IInv, Heeds
<1>3. /\ past' \in [paid : BOOLEAN, streak : Nat, last : Nat]
      /\ past'.paid = TRUE /\ past'.streak = 0 /\ past'.last = past.last
  <2>1. past' = [past EXCEPT !.paid = TRUE, !.streak = 0]
    BY <1>1, TakeLosesOne DEF IInv, Heeds
  <2> QED
    BY <2>1 DEF IInv, TypeOK
<1>4. pc' \in Places /\ failures' \in Nat /\ outcome' \in Outcome
  <2>1. CASE Leaves
    BY <2>1 DEF Leaves, IInv, TypeOK, Places
  <2>2. CASE Returns
    BY <2>2 DEF Returns, IInv, TypeOK, Places
  <2>3. CASE Stays(s)
    BY <2>3 DEF Stays, IInv, TypeOK, Places
  <2> QED
    BY <1>1, <2>1, <2>2, <2>3 DEF Heeds
<1>5. TypeOK'
  BY <1>1, <1>2, <1>3, <1>4 DEF IInv, TypeOK, Heeds
<1>6. IntentIsHeard'
  <2>1. CASE Leaves \/ Returns
    BY <2>1 DEF Leaves, Returns, IntentIsHeard
  <2>2. CASE Stays(s)
    <3>1. Wanted' = Wanted /\ (Pending \cap Ends # {} => Pending' \cap Ends # {})
      BY <1>1, <1>2, <2>2 DEF Heeds, Stays, Wanted, Online
    <3> QED
      BY <2>2, <3>1 DEF Stays, IInv, IntentIsHeard
  <2> QED
    BY <1>1, <2>1, <2>2 DEF Heeds
<1>h. FailureHeard'
  BY <1>1 DEF Heeds, Leaves, Returns, Stays, FailureHeard
<1>7. Paced'
  <2>1. failures' >= past'.streak
    BY <1>3, <1>4
  <2>2. wakeProbeFailed' = FALSE
    BY <1>1 DEF Heeds, Leaves, Returns, Stays, IInv, Paced, TypeOK
  <2> QED
    BY <1>3, <2>1, <2>2 DEF Paced
<1>8. Fresh'
  <2>1. past.last \in Nat /\ generation \in Nat
    BY DEF IInv, TypeOK
  <2>2. CASE Leaves
    BY <1>1, <1>3, <2>1, <2>2 DEF Heeds, Leaves, IInv, Fresh
  <2>3. CASE Returns
    BY <1>1, <1>3, <2>1, <2>3 DEF Heeds, Returns, IInv, Fresh
  <2>4. CASE Stays(s)
    BY <1>1, <1>3, <2>1, <2>4 DEF Heeds, Stays, IInv, Fresh
  <2> QED
    BY <1>1, <2>2, <2>3, <2>4 DEF Heeds
<1> QED
  BY <1>5, <1>6, <1>h, <1>7, <1>8 DEF IInv

-----------------------------------------------------------------------------
LEMMA PendingUnchanged ==
    ASSUME UNCHANGED <<desired, network, calls, signals>>
    PROVE  Pending' = Pending /\ Wanted' = Wanted /\ Online' = Online
  BY DEF Pending, Wanted, Online

(***************************************************************************)
(* The head of the loop.                                                   *)
(***************************************************************************)
LEMMA LoopHeadStep ==
    ASSUME IInv, RestAvailable \/ RestOffline \/ BeginAttempt
    PROVE  IInv'
<1>1. /\ UNCHANGED <<desired, network, calls, signals, wakeProbeFailed, generation, outcome, alive, upsets, faults>>
      /\ pc = "top" /\ resetRetry' = FALSE
      /\ session' \in {0, session} /\ prepared' = FALSE
  BY Zenon DEF RestAvailable, RestOffline, BeginAttempt, LoopHead, intent, bounds
<1>2. /\ \/ pc' = "available" /\ ~desired
         \/ pc' = "offline" /\ desired /\ ~Online
         \/ pc' = "attempt" /\ Wanted
      /\ failures' \in Nat
      /\ past' \in [paid : BOOLEAN, streak : Nat, last : Nat]
      /\ past'.last = past.last
      /\ failures' >= past'.streak
      /\ pc' = "attempt" => past'.paid = FALSE
  <2>1. failures \in Nat /\ past.streak \in Nat /\ failures >= past.streak
        /\ Rung \in Nat /\ StreakHere \in Nat /\ Rung >= StreakHere
    BY <1>1, Pasts DEF IInv, Paced, Rung, StreakHere
  <2>2. CASE RestAvailable
    BY <2>1, <2>2, Pasts DEF RestAvailable, IInv
  <2>3. CASE RestOffline
    BY <2>1, <2>3, Pasts DEF RestOffline, IInv
  <2>4. CASE BeginAttempt
    BY <2>1, <2>4, Pasts DEF BeginAttempt, IInv
  <2> QED
    BY <2>2, <2>3, <2>4
<1>3. shown' \in [phase : Phases, generation : Nat]
  BY DEF IInv, TypeOK, RestAvailable, RestOffline, BeginAttempt, Show, Phases
<1>4. TypeOK'
  <2>1. pc' \in Places
    BY <1>2 DEF Places
  <2>2. session' \in Nat
    BY <1>1 DEF IInv, TypeOK
  <2>3. resetRetry' \in BOOLEAN /\ prepared' \in BOOLEAN
    BY <1>1, Zenon
  <2> QED
    BY <1>1, <1>2, <1>3, <2>1, <2>2, <2>3, Zenon DEF IInv, TypeOK
<1>5. Pending' = Pending /\ Wanted' = Wanted /\ Online' = Online
  BY <1>1, PendingUnchanged
<1>6. IntentIsHeard'
  BY <1>1, <1>2, <1>5 DEF IntentIsHeard
<1>h. FailureHeard'
  BY <1>2 DEF FailureHeard
<1>7. Paced'
  <2>1. wakeProbeFailed' = FALSE
    BY <1>1 DEF IInv, Paced, TypeOK
  <2> QED
    BY <1>2, <2>1 DEF Paced
<1>8. Fresh'
  BY <1>1, <1>2 DEF IInv, Fresh
<1> QED
  BY <1>4, <1>6, <1>h, <1>7, <1>8 DEF IInv

(***************************************************************************)
(* The steps of a rest and of an attempt that goes well.                   *)
(***************************************************************************)
LEMMA ProgressStep ==
    ASSUME IInv, DelayElapses \/ ReportProgress \/ Establishes \/ Publish \/ ProbeAnswers
    PROVE  IInv'
<1>1. /\ UNCHANGED <<desired, network, calls, signals, resetRetry, wakeProbeFailed, failures, generation,
                     outcome, upsets, faults>>
      /\ prepared' \in BOOLEAN /\ alive' \in BOOLEAN
  BY Zenon DEF IInv, TypeOK, DelayElapses, ReportProgress, Establishes, Publish, ProbeAnswers, intent,
       lease, bounds
<1>2. \/ pc = "backoff" /\ pc' = "top" /\ past' = [past EXCEPT !.paid = TRUE] /\ UNCHANGED <<session, shown>>
      \/ pc = "attempt" /\ pc' = "attempt" /\ UNCHANGED <<past, session>>
         /\ shown' = [phase |-> "connecting", generation |-> generation + 1]
      \/ pc = "attempt" /\ pc' = "opened" /\ UNCHANGED <<past, session, shown>>
      \/ pc = "opened" /\ pc' = "connected" /\ Wanted /\ past' = [past EXCEPT !.last = generation + 1]
         /\ session' = generation + 1 /\ shown' = [phase |-> "connected", generation |-> generation + 1]
      \/ pc = "probe" /\ pc' = "connected" /\ UNCHANGED <<past, session, shown>>
  BY DEF DelayElapses, ReportProgress, Establishes, Publish, ProbeAnswers, lease, Show
<1>p. /\ past \in [paid : BOOLEAN, streak : Nat, last : Nat] /\ generation \in Nat /\ failures \in Nat
      /\ past.streak \in Nat /\ past.last \in Nat
  BY Pasts DEF IInv
<1>3. /\ pc' \in Places /\ session' \in Nat
      /\ shown' \in [phase : Phases, generation : Nat]
      /\ past' \in [paid : BOOLEAN, streak : Nat, last : Nat]
  <2>1. pc' \in Places
    BY <1>2 DEF Places
  <2>2. session' \in Nat
    BY <1>2, <1>p DEF IInv, TypeOK
  <2>3. shown' \in [phase : Phases, generation : Nat]
    <3>1. shown \in [phase : Phases, generation : Nat]
      BY DEF IInv, TypeOK
    <3>2. generation + 1 \in Nat
      BY <1>p
    <3>3. \A p \in Phases : [phase |-> p, generation |-> generation + 1] \in [phase : Phases, generation : Nat]
      BY <3>2
    <3>4. "connecting" \in Phases /\ "connected" \in Phases
      BY DEF Phases
    <3> QED
      BY <1>2, <3>1, <3>3, <3>4, Zenon
  <2>4. past' \in [paid : BOOLEAN, streak : Nat, last : Nat]
    <3>1. [past EXCEPT !.paid = TRUE] \in [paid : BOOLEAN, streak : Nat, last : Nat]
      BY <1>p
    <3>2. generation + 1 \in Nat
      BY <1>p
    <3>3. \A g \in Nat : [past EXCEPT !.last = g] \in [paid : BOOLEAN, streak : Nat, last : Nat]
      BY <1>p
    <3> QED
      BY <1>2, <1>p, <3>1, <3>2, <3>3, Zenon
  <2> QED
    BY <2>1, <2>2, <2>3, <2>4
<1>4. TypeOK'
  BY <1>1, <1>3, Zenon DEF IInv, TypeOK
<1>5. Pending' = Pending /\ Wanted' = Wanted /\ Online' = Online
  BY <1>1, PendingUnchanged
<1>6. IntentIsHeard'
  BY <1>2, <1>5 DEF IInv, IntentIsHeard
<1>h. FailureHeard'
  BY <1>2 DEF FailureHeard
<1>w. wakeProbeFailed' = FALSE
  BY <1>1, <1>2 DEF IInv, Paced, TypeOK
<1>7. Paced'
  <2>1. past'.streak = past.streak /\ (pc' = "top" => past'.paid)
        /\ (pc' # "top" => past'.paid = past.paid)
    BY <1>2, <1>p
  <2> QED
    BY <1>1, <1>2, <1>p, <1>w, <2>1 DEF IInv, Paced
<1>8. Fresh'
  <2>1. /\ past'.last = IF pc = "opened" THEN generation + 1 ELSE past.last
    BY <1>2, <1>p
  <2> QED
    BY <1>1, <1>2, <1>p, <2>1 DEF IInv, Fresh
<1> QED
  BY <1>4, <1>6, <1>h, <1>7, <1>8 DEF IInv

(***************************************************************************)
(* An attempt that fails, a session that closes, a health check that does, *)
(* and the withdrawal of a session nobody wants any more.                  *)
(***************************************************************************)
Failing ==
    \/ \E kind \in {"transient", "blocked"} : AttemptFails(kind)
    \/ \E kind \in {"transient", "blocked"}, stable \in BOOLEAN :
          SessionCloses(kind, stable) \/ ProbeErrs(kind, stable)
    \/ \E stable \in BOOLEAN : ProbeTimesOut(stable)

(* The attempt is over; run has not seen its outcome yet.                  *)
Over ==
    /\ pc \in {"attempt", "opened", "connected", "probe"}
    /\ pc' = "ended"
    /\ session' = 0 /\ prepared' = FALSE /\ alive' = FALSE
    /\ UNCHANGED <<desired, network, calls, signals, resetRetry, failures, generation, shown, past, upsets>>
    /\ wakeProbeFailed' = wakeProbeFailed \/ (pc = "probe" /\ wakeProbeFailed' = TRUE)
    /\ faults' \in Nat
    /\ outcome' \in Outcome
    /\ outcome'.established = IF pc \in {"attempt", "opened"} THEN FALSE ELSE TRUE

LEMMA FailingIsOver ==
    ASSUME TypeOK, Failing
    PROVE  Over /\ outcome'.is # "interrupted"
<1> DEFINE Done(kind, est, stable) ==
               /\ outcome' = Failed(kind, est, stable)
               /\ UNCHANGED <<desired, network, calls, signals, resetRetry, failures, generation, shown,
                              past, upsets>>
               /\ pc' = "ended" /\ session' = 0 /\ prepared' = FALSE /\ alive' = FALSE
               /\ faults' \in {faults, faults + 1}
<1>1. ASSUME NEW kind \in {"transient", "blocked"}, NEW est \in BOOLEAN, NEW stable \in BOOLEAN,
             Done(kind, est, stable)
      PROVE  /\ outcome' \in Outcome /\ outcome'.is # "interrupted" /\ outcome'.established = est
             /\ faults' \in Nat
  <2>1. outcome' = Failed(kind, est, stable)
    BY <1>1
  <2>2. /\ Failed(kind, est, stable) \in Outcome /\ Failed(kind, est, stable).is = kind
        /\ Failed(kind, est, stable).established = est
    BY DEF Failed, Outcome
  <2>3. faults' \in Nat
    BY <1>1 DEF TypeOK
  <2> QED
    BY <2>1, <2>2, <2>3
<1>2. ASSUME NEW kind \in {"transient", "blocked"}, AttemptFails(kind)
      PROVE  Over /\ outcome'.is # "interrupted"
  <2>1. Done(kind, FALSE, FALSE) /\ pc = "attempt" /\ wakeProbeFailed' = wakeProbeFailed
    BY <1>2, Zenon DEF AttemptFails, Return, intent
  <2>2. outcome' \in Outcome /\ outcome'.is # "interrupted" /\ outcome'.established = FALSE /\ faults' \in Nat
    BY <1>1, <2>1
  <2> QED
    BY <2>1, <2>2 DEF Over
<1>3. ASSUME NEW kind \in {"transient", "blocked"}, NEW stable \in BOOLEAN,
             SessionCloses(kind, stable)
      PROVE  Over /\ outcome'.is # "interrupted"
  <2>1. Done(kind, TRUE, stable) /\ pc \in {"connected", "probe"} /\ wakeProbeFailed' = wakeProbeFailed
    BY <1>3, Zenon DEF SessionCloses, Return, intent
  <2>2. outcome' \in Outcome /\ outcome'.is # "interrupted" /\ outcome'.established = TRUE /\ faults' \in Nat
    BY <1>1, <2>1
  <2> QED
    BY <2>1, <2>2 DEF Over
<1>4. ASSUME NEW kind \in {"transient", "blocked"}, NEW stable \in BOOLEAN,
             ProbeErrs(kind, stable) \/ (kind = "transient" /\ ProbeTimesOut(stable))
      PROVE  Over /\ outcome'.is # "interrupted"
  <2>1. Done(kind, TRUE, stable) /\ pc = "probe" /\ wakeProbeFailed' = TRUE
    BY <1>4, Zenon DEF ProbeErrs, ProbeTimesOut, ProbeFailed, Return, intent
  <2>2. outcome' \in Outcome /\ outcome'.is # "interrupted" /\ outcome'.established = TRUE /\ faults' \in Nat
    BY <1>1, <2>1
  <2> QED
    BY <2>1, <2>2 DEF Over
<1> HIDE DEF Done
<1> QED
  BY <1>2, <1>3, <1>4 DEF Failing

LEMMA WithdrawIsOver ==
    ASSUME TypeOK, Withdraw
    PROVE  /\ Over /\ ~Wanted /\ wakeProbeFailed' = wakeProbeFailed
           /\ outcome'.is = "interrupted" /\ outcome'.reset = FALSE /\ outcome'.stable = FALSE
<1> DEFINE o == Interrupted(FALSE, FALSE, FALSE)
<1>1. /\ pc = "opened" /\ ~Wanted /\ outcome' = o
      /\ pc' = "ended" /\ session' = 0 /\ prepared' = FALSE /\ alive' = FALSE
      /\ UNCHANGED <<desired, network, calls, signals, resetRetry, failures, generation, shown, past, upsets,
                     wakeProbeFailed, faults>>
  BY Zenon DEF Withdraw, Return, intent, bounds
<1>2. o \in Outcome /\ o.is = "interrupted" /\ o.established = FALSE /\ o.reset = FALSE /\ o.stable = FALSE
  BY DEF Interrupted, Outcome
<1> HIDE DEF o
<1>3. faults' \in Nat
  BY <1>1 DEF TypeOK
<1> QED
  BY <1>1, <1>2, <1>3 DEF Over

LEMMA OverStep ==
    ASSUME IInv, Failing \/ Withdraw
    PROVE  IInv'
<1>1. /\ Over
      /\ \/ outcome'.is # "interrupted"
         \/ ~Wanted /\ outcome'.reset = FALSE /\ outcome'.stable = FALSE
  BY FailingIsOver, WithdrawIsOver DEF IInv
<1>2. TypeOK'
  <2>1. wakeProbeFailed' \in BOOLEAN
    BY <1>1, Zenon DEF Over, IInv, TypeOK
  <2>2. pc' \in Places /\ session' \in Nat
    BY <1>1 DEF Over, Places
  <2> QED
    BY <1>1, <2>1, <2>2, Zenon DEF Over, IInv, TypeOK
<1>3. Pending' = Pending /\ Wanted' = Wanted
  BY <1>1, PendingUnchanged DEF Over
<1>4. IntentIsHeard'
  BY <1>1 DEF Over, IntentIsHeard
<1>h. FailureHeard'
  BY <1>1, <1>3 DEF Over, IInv, IntentIsHeard, FailureHeard
<1>5. Paced'
  <2>1. failures' >= past'.streak
    BY <1>1 DEF Over, IInv, Paced
  <2>2. wakeProbeFailed' => past'.paid
    BY <1>1 DEF Over, IInv, Paced
  <2>3. outcome'.is = "interrupted" => Pending # {} /\ outcome'.reset = FALSE /\ outcome'.stable = FALSE
    BY <1>1 DEF Over, IInv, IntentIsHeard
  <2>4. past'.paid => past'.streak = 0
    BY <1>1 DEF Over, IInv, Paced
  <2> QED
    BY <1>1, <1>3, <2>1, <2>2, <2>3, <2>4 DEF Over, Paced
<1>6. Fresh'
  <2>1. past.last \in Nat /\ generation \in Nat
    BY Pasts DEF IInv
  <2> QED
    BY <1>1, <2>1 DEF Over, IInv, Fresh
<1> QED
  BY <1>2, <1>4, <1>h, <1>5, <1>6 DEF IInv

(***************************************************************************)
(* What run makes of the outcome.                                          *)
(***************************************************************************)
After == AfterInterrupt \/ AfterBlocked \/ AfterFailedProbe \/ AfterFailure

LEMMA AfterStep ==
    ASSUME IInv, After
    PROVE  IInv'
<1>1. /\ pc = "ended" /\ pc' \in {"top", "blocked", "backoff"}
      /\ wakeProbeFailed' = FALSE /\ outcome' = NoOutcome
      /\ generation' = IF outcome.established THEN generation + 1 ELSE generation
      /\ UNCHANGED <<desired, network, calls, signals, resetRetry, session, prepared, alive, upsets, faults>>
  BY Zenon DEF After, AfterInterrupt, AfterBlocked, AfterFailedProbe, AfterFailure, Counted, intent, lease, bounds
<1>p. /\ past \in [paid : BOOLEAN, streak : Nat, last : Nat] /\ past.paid \in BOOLEAN
      /\ past.streak \in Nat /\ past.last \in Nat
      /\ generation \in Nat /\ failures \in Nat /\ failures >= past.streak
      /\ Ladder \in Nat /\ (outcome.stable \/ Ladder >= past.streak)
      /\ past.paid => past.streak = 0
  BY <1>1, Pasts DEF IInv, Paced, Ladder
<1>g. generation' \in Nat
  BY <1>1, <1>p
<1>2. shown' \in [phase : Phases, generation : Nat]
  BY <1>g DEF After, AfterInterrupt, AfterBlocked, AfterFailedProbe, AfterFailure, Show, IInv, TypeOK, Phases
<1>3. /\ past' \in [paid : BOOLEAN, streak : Nat, last : Nat]
      /\ past'.last = past.last /\ past'.paid = past.paid
      /\ pc' # "backoff" => past'.streak = IF past.paid THEN 0 ELSE past.streak
      /\ pc' = "backoff" => past'.streak <= Ladder + 1
  <2>1. CASE AfterInterrupt \/ AfterBlocked
    BY <2>1, <1>p DEF AfterInterrupt, AfterBlocked
  <2>2. CASE AfterFailedProbe \/ AfterFailure
    <3>1. past' = [past EXCEPT !.streak = IF past.paid THEN 0
                                          ELSE IF outcome.stable THEN 1 ELSE past.streak + 1]
      BY <2>2 DEF AfterFailedProbe, AfterFailure, FailureSeen
    <3>2. AfterFailedProbe => past.paid /\ pc' = "top"
      BY DEF AfterFailedProbe, IInv, Paced
    <3> QED
      BY <1>p, <2>2, <3>1, <3>2 DEF AfterFailure
  <2> QED
    BY <2>1, <2>2 DEF After
<1>4. /\ failures' \in Nat
      /\ pc' # "blocked" => failures' >= past'.streak
      /\ pc' = "top" => past.paid \/ Pending # {}
  <2>1. CASE AfterInterrupt
    BY <1>p, <1>3, <2>1 DEF AfterInterrupt, IInv, Paced
  <2>2. CASE AfterBlocked
    BY <1>p, <1>3, <2>2 DEF AfterBlocked
  <2>3. CASE AfterFailedProbe
    BY <1>p, <1>3, <2>3 DEF AfterFailedProbe, IInv, Paced
  <2>4. CASE AfterFailure
    BY <1>p, <1>3, <2>4 DEF AfterFailure
  <2> QED
    BY <2>1, <2>2, <2>3, <2>4 DEF After
<1>5. TypeOK'
  <2>1. pc' \in Places
    BY <1>1 DEF Places
  <2>2. outcome' \in Outcome /\ wakeProbeFailed' \in BOOLEAN
    BY <1>1, Outcomes, Zenon
  <2> QED
    BY <1>1, <1>g, <1>2, <1>3, <1>4, <2>1, <2>2, Zenon DEF IInv, TypeOK
<1>6. Pending' = Pending /\ Wanted' = Wanted
  BY <1>1, PendingUnchanged
<1>7. IntentIsHeard'
  <2>1. pc' # "top" => Wanted \/ Pending \cap Ends # {}
    BY <1>1 DEF After, AfterInterrupt, AfterBlocked, AfterFailedProbe, AfterFailure, IInv, FailureHeard
  <2> QED
    BY <1>1, <1>6, <2>1 DEF IntentIsHeard
<1>h. FailureHeard'
  BY <1>1 DEF FailureHeard
<1>8. Paced'
  BY <1>1, <1>3, <1>4, <1>6 DEF Paced
<1>9. Fresh'
  BY <1>1, <1>3, <1>p DEF IInv, Fresh
<1> QED
  BY <1>5, <1>7, <1>h, <1>8, <1>9 DEF IInv

-----------------------------------------------------------------------------
LEMMA NextSplits ==
    Next => Outside \/ Taking \/ (RestAvailable \/ RestOffline \/ BeginAttempt)
            \/ (DelayElapses \/ ReportProgress \/ Establishes \/ Publish \/ ProbeAnswers)
            \/ (Failing \/ Withdraw) \/ After
  BY DEF Next, Run, Faults, Outside, Taking, Failing, After

LEMMA NextIInv ==
    ASSUME IInv, [Next]_vars
    PROVE  IInv'
<1>1. CASE Next
  BY <1>1, NextSplits, OutsideStep, TakingStep, LoopHeadStep, ProgressStep, OverStep, AfterStep
<1>2. CASE UNCHANGED vars
  <2>1. TypeOK'
    BY <1>2 DEF vars, IInv, TypeOK
  <2>2. Pending' = Pending /\ Wanted' = Wanted /\ Online' = Online
    BY <1>2, PendingUnchanged DEF vars
  <2>3. IntentIsHeard' /\ FailureHeard'
    BY <1>2, <2>2 DEF vars, IInv, IntentIsHeard, FailureHeard
  <2>4. Paced' /\ Fresh'
    BY <1>2, <2>2 DEF vars, IInv, Paced, Fresh
  <2> QED
    BY <2>1, <2>3, <2>4 DEF IInv
<1> QED
  BY <1>1, <1>2

THEOREM InvariantHolds == Spec => []IInv
<1>1. Init => IInv
  BY InitIInv
<1>2. IInv /\ [Next]_vars => IInv'
  BY NextIInv
<1> QED
  BY <1>1, <1>2, PTL DEF Spec

(***************************************************************************)
(* Wherever run waits, a change of intent it has not seen has a signal on  *)
(* its way that ends that wait: no disconnect and no loss of the network   *)
(* is overheard in a connection attempt, a session or a health check.      *)
(***************************************************************************)
THEOREM NoIntentOverheard == Spec => []IntentIsHeard
<1>1. IInv => IntentIsHeard
  BY DEF IInv
<1> QED
  BY <1>1, InvariantHolds, PTL

(***************************************************************************)
(* Attempts are paced: none follows another without a delay or a signal,   *)
(* and failures nobody interrupts climb the ladder.                        *)
(***************************************************************************)
THEOREM AttemptsArePaced == Spec => RetriesArePaced
<1> DEFINE Step == /\ pc # "attempt" /\ pc' = "attempt" => past.paid \/ Pending # {}
                   /\ pc # "backoff" /\ pc' = "backoff" => failures' >= past'.streak
<1>1. ASSUME IInv, IInv', Next
      PROVE  Step
  <2>1. pc # "backoff" /\ pc' = "backoff" => failures' >= past'.streak
    BY <1>1 DEF IInv, Paced
  <2>2. pc # "attempt" /\ pc' = "attempt" => pc = "top"
    <3>1. CASE Outside
      BY <1>1, <3>1, OutsideIsAnnounced DEF Announced, IInv
    <3>2. CASE Taking
      BY <1>1, <3>2, TakersHeed DEF Heeds, Leaves, Returns, Stays, IInv
    <3>3. CASE Failing \/ Withdraw
      BY <1>1, <3>3, FailingIsOver, WithdrawIsOver DEF Over, IInv
    <3>4. CASE RestAvailable \/ RestOffline \/ BeginAttempt
      BY <3>4 DEF RestAvailable, RestOffline, BeginAttempt, LoopHead
    <3>5. CASE DelayElapses \/ ReportProgress \/ Establishes \/ Publish \/ ProbeAnswers
      BY <3>5 DEF DelayElapses, ReportProgress, Establishes, Publish, ProbeAnswers
    <3>6. CASE After
      BY <3>6 DEF After, AfterInterrupt, AfterBlocked, AfterFailedProbe, AfterFailure
    <3> QED
      BY <1>1, NextSplits, <3>1, <3>2, <3>3, <3>4, <3>5, <3>6
  <2>3. pc = "top" => past.paid \/ Pending # {}
    BY <1>1 DEF IInv, Paced
  <2> QED
    BY <2>1, <2>2, <2>3
<1> HIDE DEF Step
<1>2. IInv /\ IInv' /\ [Next]_vars => [Step]_vars
  BY <1>1
<1>3. Spec => [][Step]_vars
  BY <1>2, InvariantHolds, PTL DEF Spec
<1> QED
  BY <1>3 DEF Step, RetriesArePaced

(***************************************************************************)
(* Every session published has a generation of its own, larger than those  *)
(* of all sessions before it.                                              *)
(***************************************************************************)
THEOREM SessionsAreTellable == Spec => GenerationsAreFresh
<1> DEFINE Step == session' # session /\ session' # 0 => session' > past.last
<1>1. ASSUME IInv, Next
      PROVE  Step
  <2>1. CASE Publish
    <3>1. session' = generation + 1 /\ past.last <= generation /\ generation \in Nat /\ past.last \in Nat
      BY <1>1, <2>1, Pasts DEF Publish, IInv, Fresh
    <3> QED
      BY <3>1
  <2>2. CASE Outside
    BY <1>1, <2>2, OutsideIsAnnounced DEF Announced, IInv
  <2>3. CASE Taking
    BY <2>3 DEF Taking, EndRest, SignalWhileOpening, SignalWhileConnected, SignalWhileProbing, Return, lease
  <2>4. CASE Failing \/ Withdraw
    BY <1>1, <2>4, FailingIsOver, WithdrawIsOver DEF Over, IInv
  <2>5. CASE RestAvailable \/ RestOffline \/ BeginAttempt
    BY <2>5 DEF RestAvailable, RestOffline, BeginAttempt
  <2>6. CASE DelayElapses \/ ReportProgress \/ Establishes \/ ProbeAnswers
    BY <2>6 DEF DelayElapses, ReportProgress, Establishes, ProbeAnswers, lease
  <2>7. CASE After
    BY <2>7 DEF After, AfterInterrupt, AfterBlocked, AfterFailedProbe, AfterFailure, lease
  <2> QED
    BY <1>1, NextSplits, <2>1, <2>2, <2>3, <2>4, <2>5, <2>6, <2>7
<1> HIDE DEF Step
<1>2. IInv /\ [Next]_vars => [Step]_vars
  BY <1>1
<1>3. Spec => [][Step]_vars
  BY <1>2, InvariantHolds, PTL DEF Spec
<1> QED
  BY <1>3 DEF Step, GenerationsAreFresh

=============================================================================
